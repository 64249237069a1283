------------------------------- MODULE I2cTest -------------------------------
(***************************************************************************)
(* hal/hal_i2c.c and the test of the regulator MP5515 on the I2C bus       *)
(* (test/test_misc.c).  A transfer is posted to the controller's FIFO and  *)
(* waited for, but not for ever: after the time-out the program goes on    *)
(* while the controller still works.                                       *)
(***************************************************************************)
EXTENDS Naturals, Sequences

CONSTANTS
  RegValue,      (* contents of the registers *)
  ChipId,    (* 0x33, what register 0x1F must hold *)
  Mark1, Mark2   (* 0x37 and 0x3F, what the test writes to register 0x06 *)

ASSUME MarksAssumption == {ChipId, Mark1, Mark2} \subseteq RegValue

I2cReg == {"id", "vout"}   (* 0x1F and 0x06 *)

VARIABLES
  i2c_at,    (* line of I2cScript; hal_i2c_read goes through three phases *)
  i2c_phase,
  i2c_tx, i2c_rx,    (* the controller's FIFOs *)
  i2c_cur,       (* the register the regulator has been told to access *)
  regs,      (* the regulator's registers *)
  save_value,
  i2c_ret,
  i2c_late,      (* a read has outlasted hal_i2c_wait_busy *)
  vout0,     (* history: what register 0x06 held when the test began *)
  refused    (* history: the regulator has not taken the last write of the old value *)

i2cVars == <<i2c_at, i2c_phase, i2c_tx, i2c_rx, i2c_cur, regs, save_value, i2c_ret, i2c_late,
             vout0, refused>>

I2cRead(r, keep, want) == [op |-> "read", reg |-> r, keep |-> keep, want |-> want]
I2cWrite(v) == [op |-> "write", byte |-> v]

(* What the program puts into the controller's FIFO: the number of the     *)
(* register to access, a byte to write to it, or the wish to read it.      *)
Set(r) == [op |-> "set", arg |-> r]
Put(v) == [op |-> "put", arg |-> v]
Get == [op |-> "get", arg |-> "none"]

(* hal_i2c_test.  "saved" stands for save_value; a read that does not give *)
(* what the test wants skips to the last line.                             *)
I2cScript ==
  <<I2cRead("id", TRUE, RegValue), I2cRead("id", FALSE, {ChipId}), I2cRead("vout", TRUE, RegValue),
    I2cWrite(Mark1), I2cRead("vout", FALSE, {Mark1}),
    I2cWrite(Mark2), I2cRead("vout", FALSE, {Mark2}),
    I2cWrite("saved"), I2cWrite("saved")>>

I2cInit ==
  /\ i2c_at = 1 /\ i2c_phase = "addr"
  /\ i2c_tx = <<>> /\ i2c_rx = <<>>
  /\ i2c_cur \in I2cReg
  /\ regs \in [I2cReg -> RegValue]
  /\ save_value \in RegValue /\ i2c_ret = "none"
  /\ i2c_late = FALSE
  /\ vout0 = regs["vout"] /\ refused = FALSE

I2cDone == i2c_at > Len(I2cScript)

I2cLine == I2cScript[i2c_at]

-----------------------------------------------------------------------------
Rest(s) == IF s = <<>> THEN <<>> ELSE Tail(s)

(* The byte that the line writes.                                          *)
Sent == IF I2cLine.byte = "saved" THEN save_value ELSE I2cLine.byte

(* hal_i2c_write: register address and data, then the bounded wait.  The   *)
(* data is assigned to a bit field of the data register: a compiler that   *)
(* reads the register first takes a byte out of the receive FIFO.          *)
PostWrite ==
  /\ ~ I2cDone /\ i2c_phase = "addr" /\ I2cLine.op = "write"
  /\ i2c_tx' = i2c_tx \o <<Set("vout"), Put(Sent)>>
  /\ i2c_rx' \in {i2c_rx, Rest(i2c_rx)}
  /\ i2c_phase' = "wait"
  /\ UNCHANGED <<i2c_at, i2c_cur, regs, save_value, i2c_ret, i2c_late, vout0, refused>>

(* hal_i2c_read: the register address ...                                  *)
PostAddress ==
  /\ ~ I2cDone /\ i2c_phase = "addr" /\ I2cLine.op = "read"
  /\ i2c_tx' = Append(i2c_tx, Set(I2cLine.reg))
  /\ i2c_phase' = "cmd"
  /\ UNCHANGED <<i2c_at, i2c_rx, i2c_cur, regs, save_value, i2c_ret, i2c_late, vout0, refused>>

(* ... and the read command, once the receive FIFO is empty.  Nothing      *)
(* empties it: a byte left over from a late transfer stops the program.    *)
PostRead ==
  /\ i2c_phase = "cmd" /\ i2c_rx = <<>>
  /\ i2c_tx' = Append(i2c_tx, Get)
  /\ i2c_phase' = "wait"
  /\ UNCHANGED <<i2c_at, i2c_rx, i2c_cur, regs, save_value, i2c_ret, i2c_late, vout0, refused>>

(* The data register: the oldest byte received, or anything at all.        *)
DataRegister == IF i2c_rx = <<>> THEN RegValue ELSE {Head(i2c_rx)}

(* Mutant: the register is restored only if the test passes.               *)
NextLineNoRestore(ok) ==
  i2c_at' = IF ok THEN i2c_at + 1 ELSE Len(I2cScript) + 1

NextLine(ok) == i2c_at' = IF ok THEN i2c_at + 1 ELSE Len(I2cScript)

(* The end of hal_i2c_wait_busy: the controller is idle, or time is up.    *)
I2cWaited ==
  /\ i2c_phase = "wait"
  /\ i2c_late' = (i2c_late \/ (I2cLine.op = "read" /\ i2c_tx # <<>>))
  /\ i2c_phase' = "addr"
  /\ IF I2cLine.op = "write"
     THEN /\ NextLine(TRUE)
          /\ i2c_ret' = IF i2c_at = Len(I2cScript) - 1 THEN "pass" ELSE i2c_ret
          /\ UNCHANGED <<i2c_rx, save_value>>
     ELSE \E v \in DataRegister :
            /\ NextLine(v \in I2cLine.want)
            /\ i2c_ret' = IF v \in I2cLine.want THEN i2c_ret ELSE "fail"
            /\ save_value' = IF I2cLine.keep THEN v ELSE save_value
            /\ i2c_rx' = Rest(i2c_rx)
  /\ UNCHANGED <<i2c_tx, i2c_cur, regs, vout0, refused>>

I2cMain == PostWrite \/ PostAddress \/ PostRead \/ I2cWaited

(* The controller and the regulator execute the next command (external).   *)
(* The regulator need not take a byte that is written to it.  The last two *)
(* lines are the ones that write the old value.                            *)
I2cDevice ==
  /\ i2c_tx # <<>>
  /\ LET c == Head(i2c_tx) IN
       /\ i2c_cur' = IF c.op = "set" THEN c.arg ELSE i2c_cur
       /\ regs' \in {regs} \cup (IF c.op = "put" THEN {[regs EXCEPT ![i2c_cur] = c.arg]} ELSE {})
       /\ i2c_rx' = IF c.op = "get" THEN Append(i2c_rx, regs[i2c_cur]) ELSE i2c_rx
       /\ refused' = IF c.op = "put" /\ i2c_at >= Len(I2cScript) - 1
                     THEN regs'[i2c_cur] # c.arg ELSE refused
  /\ i2c_tx' = Tail(i2c_tx)
  /\ UNCHANGED <<i2c_at, i2c_phase, save_value, i2c_ret, i2c_late, vout0>>

-----------------------------------------------------------------------------
(* The test leaves the regulator's output as it found it, pass or fail:    *)
(* also when the regulator does not take the values that the test tries,   *)
(* and when its writes outlast their waits.  Not so if a read has come     *)
(* late, if the regulator does not take the old value either, or if the    *)
(* chip is another one: then save_value holds the number of the chip when  *)
(* the last line writes it (test/test_misc.c:154).                         *)
RegulatorRestored ==
  I2cDone /\ ~ i2c_late /\ i2c_tx = <<>> =>
    /\ i2c_rx = <<>>
    /\ ~ refused /\ regs["id"] = ChipId => regs["vout"] = vout0
=============================================================================
