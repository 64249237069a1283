---------------------------- MODULE FirmwareProofs ----------------------------
(***************************************************************************)
(* What the tests and drivers of the firmware do, each whatever the others *)
(* and the devices do meanwhile: the tests that race a time-out with an    *)
(* interrupt, for every number of polls; the test of the regulator, for    *)
(* every contents of its registers; the tests of the flash and of the      *)
(* NAND, for every number of pages and buffers; the receive ring of the    *)
(* UART, for every size; the block table, for every number of blocks.      *)
(***************************************************************************)
EXTENDS Firmware, SequenceTheorems, FiniteSetTheorems, WellFoundedInduction, TLAPS

(* Every set of numbers has a least one.                                   *)
LEMMA LeastElement ==
  ASSUME NEW T \in SUBSET Nat, T # {}
  PROVE  \E x \in T : \A y \in T : x <= y
<1>1. PICK x \in T : \A y \in T : ~ (<<y, x>> \in OpToRel(<, Nat))
  BY NatLessThanWellFounded, WFMin
<1>2. \A y \in T : ~ (y < x)
  BY <1>1 DEF OpToRel
<1> QED BY <1>2

(* A set of numbers with 0 that goes on is all numbers.                    *)
LEMMA Induct ==
  ASSUME NEW S \in SUBSET Nat, 0 \in S, \A n \in S : n + 1 \in S
  PROVE  S = Nat
<1> SUFFICES ASSUME Nat \ S # {} PROVE FALSE
  OBVIOUS
<1>1. PICK x \in Nat \ S : \A y \in Nat \ S : x <= y
  BY LeastElement
<1>2. x - 1 \in S /\ x > 0
  BY <1>1
<1> QED BY <1>1, <1>2

(* Two sequences, one behind the other.                                    *)
LEMMA Joined ==
  ASSUME NEW S, NEW a \in Seq(S), NEW b \in Seq(S)
  PROVE  /\ a \o b \in Seq(S) /\ Len(a \o b) = Len(a) + Len(b)
         /\ \A k \in 1 .. Len(a) + Len(b) :
              (a \o b)[k] = IF k <= Len(a) THEN a[k] ELSE b[k - Len(a)]
  BY ConcatProperties

-----------------------------------------------------------------------------
(* A step of the firmware is one of the tests with an interrupt, of their  *)
(* sources, or leaves both alone.                                          *)
LEMMA IrqSteps ==
  [FwNext]_fwVars => (\E t \in Test : IrqMain(t)) \/ IrqDevice \/ UNCHANGED irqVars
<1>1. Main => (\E t \in Test : IrqMain(t)) \/ UNCHANGED irqVars
  BY DEF Main, Test, Only
<1>2. Interrupts => IrqDevice
  BY DEF Interrupts
<1>3. I2c \/ Spi \/ SpiFifo \/ Nand \/ Bmu \/ Blocks \/ Console => UNCHANGED irqVars
  BY DEF I2c, Spi, SpiFifo, Nand, Bmu, Blocks, Console, Only
<1>4. UNCHANGED fwVars => UNCHANGED irqVars
  BY DEF fwVars
<1> QED
  BY <1>1, <1>2, <1>3, <1>4 DEF FwNext

(* Not until it is armed does a source interrupt, and a source that has    *)
(* been served is silent; a flag that is set has been set by a handler;    *)
(* and while the timer's handler spins its request stays.                  *)
SourceInv(t) ==
  /\ irq_at[t] = "start" => ~ armed[t] /\ served[t] = 0
  /\ raised[t] => armed[t]
  /\ armed[t] => served[t] = 0
  /\ flag[t] => served[t] = 1
  /\ irq_ret[t] = "pass" => served[t] = 1
  /\ t = "timer" /\ irq_at[t] = "done" => ~ armed[t]

IrqInv ==
  /\ irq_at \in [Test -> {"start", "poll", "expired", "done"}]
  /\ irq_ret \in [Test -> {"none", "pass", "fail"}]
  /\ armed \in [Test -> BOOLEAN] /\ raised \in [Test -> BOOLEAN]
  /\ flag \in [Test -> BOOLEAN] /\ served \in [Test -> 0 .. 1]
  /\ serving # "no" => raised["timer"]
  /\ \A t \in Test : SourceInv(t)

LEMMA IrqInitInv == IrqInit => IrqInv
  BY DEF IrqInit, IrqInv, SourceInv, Test

(* The program's side of the two tests.                                    *)
LEMMA IrqMainKeeps ==
  ASSUME IrqInv, NEW t \in Test, IrqMain(t)
  PROVE  IrqInv'
<1> USE DEF IrqInv, SourceInv, Test, IrqPending
<1>1. CASE Arm(t)
  BY <1>1 DEF Arm
<1>2. CASE Seen(t)
  BY <1>2 DEF Seen
<1>3. CASE Poll(t)
  BY <1>3 DEF Poll
<1>4. CASE GiveUp(t)
  BY <1>4 DEF GiveUp, Disarmed
<1> QED
  BY <1>1, <1>2, <1>3, <1>4 DEF IrqMain

(* The sources and their handlers.                                         *)
LEMMA IrqDeviceKeeps == IrqInv /\ IrqDevice => IrqInv'
<1> SUFFICES ASSUME IrqInv, IrqDevice PROVE IrqInv'
  OBVIOUS
<1> USE DEF IrqInv, SourceInv, Test
<1>1. ASSUME NEW t \in Test, Raise(t) PROVE IrqInv'
  BY <1>1 DEF Raise
<1>2. CASE HandleGpio
  BY <1>2 DEF HandleGpio, Handled, Disarmed
<1>3. CASE EnterTimer
  BY <1>3 DEF EnterTimer
<1>4. CASE EolZero
  BY <1>4 DEF EolZero
<1>5. CASE LeaveTimer
  BY <1>5 DEF LeaveTimer, Handled, Disarmed
<1> QED
  BY <1>1, <1>2, <1>3, <1>4, <1>5 DEF IrqDevice, Serve

(* A test passes only if its interrupt was served, no source is served     *)
(* twice, and the timer is silent once its test is over.                   *)
THEOREM EachServedOnce == FwSpec => []ServedOnce
<1>1. FwInit => IrqInv
  BY IrqInitInv DEF FwInit
<1>2. IrqInv /\ [FwNext]_fwVars => IrqInv'
  <2>1. IrqInv /\ UNCHANGED irqVars => IrqInv'
    BY DEF IrqInv, SourceInv, irqVars
  <2> QED
    BY <2>1, IrqSteps, IrqMainKeeps, IrqDeviceKeeps
<1>3. IrqInv => ServedOnce
  BY DEF IrqInv, SourceInv, ServedOnce, IrqDone
<1> QED
  BY <1>1, <1>2, <1>3, PTL DEF FwSpec

-----------------------------------------------------------------------------
(* What may be on its way to the regulator.                                *)
Transfers == {Set(r) : r \in I2cReg} \cup {Put(v) : v \in RegValue} \cup {Get}

ReadLine == I2cLine.op = "read"

(* Command k of the FIFO finds register r accessed.                        *)
Before(k, r) == IF k = 1 THEN i2c_cur = r ELSE i2c_tx[k - 1] = Set(r)

(* The reading command is the last one of its transfer; the bytes that are *)
(* written go to register 0x06, and are the old value once the test has    *)
(* come to its last two lines.                                             *)
Queue ==
  /\ \A k \in 1 .. Len(i2c_tx) :
       /\ i2c_tx[k].op = "get" =>
            k = Len(i2c_tx) /\ i2c_phase = "wait" /\ ReadLine /\ Before(k, I2cLine.reg)
       /\ i2c_tx[k].op = "put" =>
            Before(k, "vout") /\ i2c_at >= 4 /\ (i2c_at >= 8 => i2c_tx[k].arg = save_value)
  /\ i2c_phase = "cmd" => ReadLine /\ Before(Len(i2c_tx) + 1, I2cLine.reg)
  /\ i2c_phase # "addr" => i2c_at < 10

(* The byte that is read comes when the transfer is over, and no other     *)
(* byte does; until something is written it is what the register holds.    *)
Answer ==
  IF i2c_phase = "wait" /\ ReadLine
  THEN IF i2c_tx = <<>>
       THEN \E v \in RegValue : i2c_rx = <<v>> /\ (i2c_at <= 3 => v = regs[I2cLine.reg])
       ELSE i2c_rx = <<>> /\ i2c_tx[Len(i2c_tx)].op = "get"
  ELSE i2c_rx = <<>>

Writing == \E k \in 1 .. Len(i2c_tx) : i2c_tx[k].op = "put"

(* What save_value and the registers hold at each line.                    *)
Restoring ==
  /\ i2c_at <= 3 => regs["vout"] = vout0
  /\ i2c_at = 3 => regs["id"] = ChipId
  /\ i2c_at >= 4 /\ regs["id"] = ChipId => save_value = vout0
  /\ i2c_at = 10 \/ (i2c_at = 9 /\ i2c_phase = "wait") =>
       Writing \/ refused \/ regs["vout"] = save_value

I2cType ==
  /\ i2c_at \in 1 .. 10 /\ i2c_phase \in {"addr", "cmd", "wait"}
  /\ regs \in [I2cReg -> RegValue] /\ save_value \in RegValue
  /\ i2c_tx \in Seq(Transfers)

I2cInv == ~ i2c_late => I2cType /\ Queue /\ Answer /\ Restoring

(* The lines of hal_i2c_test.                                              *)
LEMMA Script ==
  /\ Len(I2cScript) = 9
  /\ \A k \in {1, 2, 3, 5, 7} : I2cScript[k].op = "read" /\ I2cScript[k].reg \in I2cReg
  /\ \A k \in {4, 6, 8, 9} : I2cScript[k].op = "write"
  /\ I2cScript[1].reg = "id" /\ I2cScript[1].keep /\ I2cScript[1].want = RegValue
  /\ I2cScript[2].reg = "id" /\ ~ I2cScript[2].keep /\ I2cScript[2].want = {ChipId}
  /\ I2cScript[3].reg = "vout" /\ I2cScript[3].keep /\ I2cScript[3].want = RegValue
  /\ ~ I2cScript[5].keep /\ ~ I2cScript[7].keep
  /\ {I2cScript[4].byte, I2cScript[6].byte} \subseteq RegValue
  /\ I2cScript[8].byte = "saved" /\ I2cScript[9].byte = "saved"
  BY MarksAssumption DEF I2cScript, I2cRead, I2cWrite, I2cReg

(* The commands, by their kinds.                                           *)
LEMMA TransferKinds ==
  /\ \A r : Set(r).op = "set" /\ Set(r).arg = r /\ (r \in I2cReg => Set(r) \in Transfers)
  /\ \A v : Put(v).op = "put" /\ Put(v).arg = v /\ (v \in RegValue => Put(v) \in Transfers)
  /\ Get.op = "get" /\ Get \in Transfers
  /\ \A c \in Transfers :
       /\ c.op \in {"set", "put", "get"}
       /\ c.op = "set" => c.arg \in I2cReg
       /\ c.op = "put" => c.arg \in RegValue
<1>1. ASSUME NEW r
      PROVE  Set(r).op = "set" /\ Set(r).arg = r /\ (r \in I2cReg => Set(r) \in Transfers)
  BY DEF Set, Transfers
<1>2. ASSUME NEW v
      PROVE  Put(v).op = "put" /\ Put(v).arg = v /\ (v \in RegValue => Put(v) \in Transfers)
  BY DEF Put, Transfers
<1>3. Get.op = "get" /\ Get \in Transfers
  BY DEF Get, Transfers
<1>4. ASSUME NEW c \in Transfers
      PROVE  \/ \E r \in I2cReg : c = Set(r)
             \/ \E v \in RegValue : c = Put(v)
             \/ c = Get
  BY <1>4 DEF Transfers
<1>5. ASSUME NEW c \in Transfers
      PROVE  /\ c.op \in {"set", "put", "get"}
             /\ c.op = "set" => c.arg \in I2cReg
             /\ c.op = "put" => c.arg \in RegValue
  BY <1>1, <1>2, <1>3, <1>4
<1> QED
  BY <1>1, <1>2, <1>3, <1>5

(* A step of the firmware is one of the test, of the bus, or leaves both.  *)
LEMMA I2cSteps == [FwNext]_fwVars => I2cMain \/ I2cDevice \/ UNCHANGED i2cVars
<1>1. Main => I2cMain \/ UNCHANGED i2cVars
  BY DEF Main, Only
<1>2. I2c => I2cDevice
  BY DEF I2c
<1>3. Interrupts \/ Spi \/ SpiFifo \/ Nand \/ Bmu \/ Blocks \/ Console => UNCHANGED i2cVars
  BY DEF Interrupts, Spi, SpiFifo, Nand, Bmu, Blocks, Console, Only
<1>4. UNCHANGED fwVars => UNCHANGED i2cVars
  BY DEF fwVars
<1> QED
  BY <1>1, <1>2, <1>3, <1>4 DEF FwNext

LEMMA I2cInitInv == I2cInit => I2cInv
<1> SUFFICES ASSUME I2cInit PROVE I2cInv
  OBVIOUS
<1>1. i2c_tx = <<>> /\ Len(i2c_tx) = 0 /\ i2c_tx \in Seq(Transfers)
  BY DEF I2cInit
<1> QED
  BY <1>1, Script
     DEF I2cInit, I2cInv, I2cType, Queue, Answer, Restoring, I2cReg

(* A command is appended.                                                  *)
LEMMA CommandPosted ==
  ASSUME i2c_tx \in Seq(Transfers), NEW c \in Transfers, i2c_tx' = Append(i2c_tx, c)
  PROVE  /\ i2c_tx' \in Seq(Transfers) /\ Len(i2c_tx') = Len(i2c_tx) + 1
         /\ \A k \in 1 .. Len(i2c_tx) : i2c_tx'[k] = i2c_tx[k]
         /\ i2c_tx'[Len(i2c_tx) + 1] = c
         /\ i2c_tx' # <<>>
  BY AppendProperties

(* hal_i2c_write posts the address of the register and the byte.           *)
LEMMA PostWriteKeeps == I2cInv /\ PostWrite => I2cInv'
<1> SUFFICES ASSUME I2cInv, PostWrite, ~ i2c_late' PROVE I2cInv'
  BY DEF I2cInv
<1>1. ~ i2c_late /\ I2cType /\ Queue /\ Answer /\ Restoring
  BY DEF I2cInv, PostWrite
<1>2. /\ i2c_phase = "addr" /\ i2c_at \in {4, 6, 8, 9} /\ ~ ReadLine /\ I2cLine.op = "write"
      /\ i2c_phase' = "wait"
      /\ UNCHANGED <<i2c_at, i2c_cur, regs, save_value, vout0, refused>>
  BY <1>1, Script DEF PostWrite, I2cDone, I2cType, I2cLine, ReadLine
<1>3. I2cLine' = I2cLine /\ ~ ReadLine'
  BY <1>2 DEF I2cLine, ReadLine
<1>4. Sent \in RegValue /\ (i2c_at >= 8 => Sent = save_value)
  BY <1>1, <1>2, Script DEF Sent, I2cLine, I2cType
<1>5. i2c_rx' = <<>>
  BY <1>1, <1>2 DEF Answer, PostWrite, Rest
<1>a. PICK n \in Nat : n = Len(i2c_tx)
  BY <1>1 DEF I2cType
<1>b. PICK new : new = <<Set("vout"), Put(Sent)>>
  OBVIOUS
<1>6. /\ i2c_tx \in Seq(Transfers)
      /\ new \in Seq(Transfers) /\ Len(new) = 2
      /\ new[1] = Set("vout") /\ new[2] = Put(Sent)
  BY <1>1, <1>4, <1>b, TransferKinds DEF I2cType, I2cReg
<1>7. /\ i2c_tx' \in Seq(Transfers) /\ Len(i2c_tx') = n + 2
      /\ \A k \in 1 .. n + 2 : i2c_tx'[k] = IF k <= n THEN i2c_tx[k] ELSE new[k - n]
  <2>1. i2c_tx' = i2c_tx \o new
    BY <1>b DEF PostWrite
  <2>2. /\ i2c_tx \o new \in Seq(Transfers)
        /\ Len(i2c_tx \o new) = Len(i2c_tx) + Len(new)
        /\ \A k \in 1 .. Len(i2c_tx) + Len(new) :
             (i2c_tx \o new)[k] = IF k <= Len(i2c_tx) THEN i2c_tx[k] ELSE new[k - Len(i2c_tx)]
    BY <1>6, Joined
  <2>3. Len(i2c_tx) = n /\ Len(new) = 2
    BY <1>6, <1>a
  <2> QED
    BY <2>1, <2>2, <2>3
<1>8. i2c_tx'[n + 1] = Set("vout") /\ i2c_tx'[n + 2] = Put(Sent)
  <2>1. n + 1 \in 1 .. n + 2 /\ n + 2 \in 1 .. n + 2
    BY <1>a
  <2>2. ~ (n + 1 <= n) /\ ~ (n + 2 <= n) /\ (n + 1) - n = 1 /\ (n + 2) - n = 2
    BY <1>a
  <2> QED
    BY <1>6, <1>7, <2>1, <2>2
<1>9. ASSUME NEW k \in 1 .. n + 2
      PROVE  /\ i2c_tx'[k].op # "get"
             /\ i2c_tx'[k].op = "put" =>
                  Before(k, "vout")' /\ i2c_at' >= 4
                    /\ (i2c_at' >= 8 => i2c_tx'[k].arg = save_value')
  <2>1. CASE k <= n
    <3>1. i2c_tx'[k] = i2c_tx[k] /\ (k > 1 => i2c_tx'[k - 1] = i2c_tx[k - 1])
      BY <1>6, <1>7, <2>1
    <3>2. k \in 1 .. Len(i2c_tx)
      BY <1>a, <2>1
    <3> QED
      BY <1>1, <1>2, <3>1, <3>2 DEF Queue, Before
  <2>2. CASE k = n + 1
    BY <1>8, <2>2, TransferKinds
  <2>3. CASE k = n + 2
    <3>1. Before(k, "vout")'
      BY <1>6, <1>8, <2>3 DEF Before
    <3> QED
      BY <1>2, <1>4, <1>8, <2>3, <3>1, TransferKinds
  <2> QED
    BY <1>6, <2>1, <2>2, <2>3
<1>10. Queue'
  BY <1>2, <1>7, <1>9 DEF Queue
<1>11. Writing'
  BY <1>6, <1>7, <1>8, TransferKinds DEF Writing
<1> QED
  BY <1>1, <1>2, <1>3, <1>5, <1>7, <1>10, <1>11 DEF I2cInv, I2cType, Answer, Restoring

(* hal_i2c_read posts the address of the register ...                      *)
LEMMA PostAddressKeeps == I2cInv /\ PostAddress => I2cInv'
<1> SUFFICES ASSUME I2cInv, PostAddress, ~ i2c_late' PROVE I2cInv'
  BY DEF I2cInv
<1>1. ~ i2c_late /\ I2cType /\ Queue /\ Answer /\ Restoring
  BY DEF I2cInv, PostAddress
<1>2. /\ i2c_phase = "addr" /\ i2c_at \in {1, 2, 3, 5, 7} /\ ReadLine
      /\ I2cLine.reg \in I2cReg
      /\ i2c_phase' = "cmd"
      /\ UNCHANGED <<i2c_at, i2c_rx, i2c_cur, regs, save_value, vout0, refused>>
  BY <1>1, Script DEF PostAddress, I2cDone, I2cType, I2cLine, ReadLine
<1>3. I2cLine' = I2cLine /\ ReadLine'
  BY <1>2 DEF I2cLine, ReadLine
<1>a. PICK n \in Nat : n = Len(i2c_tx)
  BY <1>1 DEF I2cType
<1>4. /\ i2c_tx' \in Seq(Transfers) /\ Len(i2c_tx') = n + 1
      /\ \A k \in 1 .. n : i2c_tx'[k] = i2c_tx[k]
      /\ i2c_tx'[n + 1] = Set(I2cLine.reg)
  BY <1>1, <1>2, <1>a, CommandPosted, TransferKinds DEF I2cType, PostAddress
<1>5. Before(n + 2, I2cLine.reg)'
  BY <1>3, <1>4 DEF Before
<1>6. ASSUME NEW k \in 1 .. n + 1
      PROVE  /\ i2c_tx'[k].op # "get"
             /\ i2c_tx'[k].op = "put" =>
                  Before(k, "vout")' /\ i2c_at' >= 4
                    /\ (i2c_at' >= 8 => i2c_tx'[k].arg = save_value')
  <2>1. CASE k <= n
    BY <1>1, <1>2, <1>4, <1>a, <2>1 DEF Queue, Before
  <2>2. CASE k = n + 1
    BY <1>4, <2>2, TransferKinds
  <2> QED
    BY <1>4, <2>1, <2>2
<1>7. Queue'
  <2>1. Len(i2c_tx') + 1 = n + 2
    BY <1>4
  <2> QED
    BY <1>2, <1>3, <1>4, <1>5, <1>6, <2>1 DEF Queue
<1> QED
  BY <1>1, <1>2, <1>3, <1>4, <1>7 DEF I2cInv, I2cType, Answer, Restoring

(* ... and the reading command.                                            *)
LEMMA PostReadKeeps == I2cInv /\ PostRead => I2cInv'
<1> SUFFICES ASSUME I2cInv, PostRead, ~ i2c_late' PROVE I2cInv'
  BY DEF I2cInv
<1>1. ~ i2c_late /\ I2cType /\ Queue /\ Answer /\ Restoring
  BY DEF I2cInv, PostRead
<1>2. /\ i2c_phase = "cmd" /\ i2c_at \in {1, 2, 3, 5, 7} /\ ReadLine
      /\ i2c_phase' = "wait"
      /\ UNCHANGED <<i2c_at, i2c_rx, i2c_cur, regs, save_value, vout0, refused>>
  BY <1>1, Script DEF PostRead, Queue, I2cType, I2cLine, ReadLine
<1>3. I2cLine' = I2cLine /\ ReadLine'
  BY <1>2 DEF I2cLine, ReadLine
<1>a. PICK n \in Nat : n = Len(i2c_tx)
  BY <1>1 DEF I2cType
<1>4. /\ i2c_tx' \in Seq(Transfers) /\ Len(i2c_tx') = n + 1
      /\ \A k \in 1 .. n : i2c_tx'[k] = i2c_tx[k]
      /\ i2c_tx'[n + 1] = Get /\ i2c_tx' # <<>>
  BY <1>1, <1>2, <1>a, CommandPosted, TransferKinds DEF I2cType, PostRead
<1>5. Before(n + 1, I2cLine.reg)'
  BY <1>1, <1>2, <1>3, <1>4, <1>a DEF Before, Queue
<1>6. ASSUME NEW k \in 1 .. n + 1
      PROVE  /\ i2c_tx'[k].op = "get" => k = n + 1
             /\ i2c_tx'[k].op = "put" =>
                  Before(k, "vout")' /\ i2c_at' >= 4
                    /\ (i2c_at' >= 8 => i2c_tx'[k].arg = save_value')
  <2>1. CASE k <= n
    BY <1>1, <1>2, <1>4, <1>a, <2>1 DEF Queue, Before
  <2>2. CASE k = n + 1
    BY <1>4, <2>2, TransferKinds
  <2> QED
    BY <1>4, <2>1, <2>2
<1>7. Queue'
  BY <1>2, <1>3, <1>4, <1>5, <1>6 DEF Queue
<1>8. Answer'
  BY <1>1, <1>2, <1>3, <1>4, TransferKinds DEF Answer
<1> QED
  BY <1>1, <1>2, <1>4, <1>7, <1>8 DEF I2cInv, I2cType, Restoring

(* The end of a wait, in time if it is that of a read.                     *)
LEMMA I2cWaitedKeeps == I2cInv /\ I2cWaited => I2cInv'
<1> SUFFICES ASSUME I2cInv, I2cWaited, ~ i2c_late' PROVE I2cInv'
  BY DEF I2cInv
<1>1. ~ i2c_late /\ I2cType /\ Queue /\ Answer /\ Restoring
  BY DEF I2cInv, I2cWaited
<1>2. /\ i2c_phase = "wait" /\ i2c_phase' = "addr" /\ i2c_at \in 1 .. 9
      /\ UNCHANGED <<i2c_tx, i2c_cur, regs, vout0, refused>>
      /\ ReadLine => i2c_tx = <<>>
  <2>1. ReadLine => i2c_tx = <<>>
    BY DEF I2cWaited, ReadLine
  <2>2. i2c_phase = "wait" /\ i2c_phase' = "addr"
        /\ UNCHANGED <<i2c_tx, i2c_cur, regs, vout0, refused>>
    BY DEF I2cWaited
  <2>3. i2c_at \in 1 .. 9
    BY <1>1, <2>2 DEF Queue, I2cType
  <2> QED
    BY <2>1, <2>2, <2>3
<1>3. CASE ReadLine
  <2>1. i2c_at \in {1, 2, 3, 5, 7} /\ I2cLine.reg \in I2cReg /\ I2cLine.op # "write"
    BY <1>2, <1>3, Script DEF ReadLine, I2cLine
  <2>2. PICK v \in RegValue : i2c_rx = <<v>> /\ (i2c_at <= 3 => v = regs[I2cLine.reg])
    BY <1>1, <1>2, <1>3 DEF Answer
  <2>3. DataRegister = {v} /\ Rest(i2c_rx) = <<>>
    BY <2>2 DEF DataRegister, Rest
  <2>4. /\ i2c_rx' = <<>>
        /\ save_value' = IF I2cLine.keep THEN v ELSE save_value
        /\ i2c_at' = IF v \in I2cLine.want THEN i2c_at + 1 ELSE 9
    BY <2>1, <2>3, Script DEF I2cWaited, NextLine
  <2>5. /\ i2c_at' \in 2 .. 9 /\ save_value' \in RegValue
        /\ i2c_at' <= 3 => regs["vout"] = vout0
        /\ i2c_at' = 3 => regs["id"] = ChipId
        /\ i2c_at' >= 4 /\ regs["id"] = ChipId => save_value' = vout0
    <3>1. CASE i2c_at = 1
      <4>1. I2cLine.keep /\ I2cLine.want = RegValue
        BY <3>1, Script DEF I2cLine
      <4> QED
        BY <1>1, <2>4, <3>1, <4>1 DEF Restoring
    <3>2. CASE i2c_at = 2
      <4>1. ~ I2cLine.keep /\ I2cLine.want = {ChipId} /\ I2cLine.reg = "id"
        BY <3>2, Script DEF I2cLine
      <4> QED
        BY <1>1, <2>2, <2>4, <3>2, <4>1 DEF Restoring, I2cType
    <3>3. CASE i2c_at = 3
      <4>1. I2cLine.keep /\ I2cLine.want = RegValue /\ I2cLine.reg = "vout"
        BY <3>3, Script DEF I2cLine
      <4> QED
        BY <1>1, <2>2, <2>4, <3>3, <4>1 DEF Restoring
    <3>4. CASE i2c_at \in {5, 7}
      <4>1. ~ I2cLine.keep
        BY <3>4, Script DEF I2cLine
      <4> QED
        BY <1>1, <2>4, <3>4, <4>1 DEF Restoring, I2cType
    <3> QED
      BY <2>1, <3>1, <3>2, <3>3, <3>4
  <2>6. Queue'
    <3>1. i2c_tx' = <<>> /\ Len(i2c_tx') = 0
      BY <1>2, <1>3
    <3> QED
      BY <1>2, <3>1 DEF Queue
  <2> QED
    BY <1>1, <1>2, <2>4, <2>5, <2>6 DEF I2cInv, I2cType, Answer, Restoring
<1>4. CASE ~ ReadLine
  <2>1. i2c_at \in {4, 6, 8, 9} /\ I2cLine.op = "write" /\ i2c_rx = <<>>
    BY <1>1, <1>2, <1>4, Script DEF ReadLine, I2cLine, Answer
  <2>2. UNCHANGED <<i2c_rx, save_value>> /\ i2c_at' = i2c_at + 1
    BY <2>1 DEF I2cWaited, NextLine
  <2>3. \A k \in 1 .. Len(i2c_tx) :
          /\ i2c_tx[k].op # "get"
          /\ i2c_tx[k].op = "put" =>
               Before(k, "vout") /\ (i2c_at >= 8 => i2c_tx[k].arg = save_value)
    BY <1>1, <1>4 DEF Queue
  <2>4. Queue'
    BY <1>2, <2>1, <2>2, <2>3 DEF Queue, Before
  <2>5. Restoring'
    BY <1>1, <1>2, <2>1, <2>2 DEF Restoring, Writing
  <2> QED
    BY <1>1, <1>2, <2>1, <2>2, <2>4, <2>5 DEF I2cInv, I2cType, Answer
<1> QED
  BY <1>3, <1>4

(* The controller and the regulator execute a command, or the regulator    *)
(* refuses it.                                                             *)
LEMMA I2cDeviceKeeps == I2cInv /\ I2cDevice => I2cInv'
<1> SUFFICES ASSUME I2cInv, I2cDevice, ~ i2c_late' PROVE I2cInv'
  BY DEF I2cInv
<1>1. ~ i2c_late /\ I2cType /\ Queue /\ Answer /\ Restoring
  BY DEF I2cInv, I2cDevice
<1>2. UNCHANGED <<i2c_at, i2c_phase, save_value, vout0>>
  BY DEF I2cDevice
<1>3. I2cLine' = I2cLine /\ (ReadLine' <=> ReadLine)
  BY <1>2 DEF I2cLine, ReadLine
<1>4. PICK n \in Nat : n = Len(i2c_tx)
  BY <1>1 DEF I2cType
<1>5. PICK c : c = i2c_tx[1]
  OBVIOUS
<1>6. /\ n >= 1 /\ Head(i2c_tx) = c /\ c \in Transfers
      /\ i2c_tx' \in Seq(Transfers) /\ Len(i2c_tx') = n - 1
      /\ \A k \in 1 .. n - 1 : i2c_tx'[k] = i2c_tx[k + 1]
  <2>1. i2c_tx \in Seq(Transfers) /\ i2c_tx # <<>> /\ i2c_tx' = Tail(i2c_tx)
    BY <1>1 DEF I2cDevice, I2cType
  <2> QED
    BY <1>4, <1>5, <2>1, HeadTailProperties
<1>7. /\ i2c_cur' = IF c.op = "set" THEN c.arg ELSE i2c_cur
      /\ regs' = regs \/ (c.op = "put" /\ regs' = [regs EXCEPT ![i2c_cur] = c.arg])
      /\ i2c_rx' = IF c.op = "get" THEN Append(i2c_rx, regs[i2c_cur]) ELSE i2c_rx
      /\ refused' = IF c.op = "put" /\ i2c_at >= 8 THEN regs'[i2c_cur] # c.arg ELSE refused
  BY <1>6, Script DEF I2cDevice
<1>8. ASSUME NEW k \in 1 .. n, NEW r, Before(k + 1, r)
      PROVE  Before(k, r)'
  <2>1. i2c_tx[k] = Set(r)
    BY <1>4, <1>8 DEF Before
  <2>2. CASE k = 1
    BY <1>5, <1>7, <2>1, <2>2, TransferKinds DEF Before
  <2>3. CASE k > 1
    <3>1. k - 1 \in 1 .. n - 1 /\ (k - 1) + 1 = k
      BY <1>4, <2>3
    <3> QED
      BY <1>6, <2>1, <2>3, <3>1 DEF Before
  <2> QED
    BY <1>4, <2>2, <2>3
<1>9. /\ c.op = "get" =>
           n = 1 /\ i2c_phase = "wait" /\ ReadLine /\ i2c_cur = I2cLine.reg
      /\ c.op = "put" =>
           i2c_cur = "vout" /\ i2c_at >= 4 /\ (i2c_at >= 8 => c.arg = save_value)
  BY <1>1, <1>4, <1>5, <1>6 DEF Queue, Before
<1>10. /\ regs' \in [I2cReg -> RegValue] /\ regs'["id"] = regs["id"]
       /\ i2c_at <= 3 => regs' = regs
  BY <1>1, <1>6, <1>7, <1>9, TransferKinds DEF I2cType, I2cReg
<1>11. Queue'
  <2>1. ASSUME NEW k \in 1 .. n - 1
        PROVE  /\ i2c_tx'[k].op = "get" =>
                    k = n - 1 /\ i2c_phase = "wait" /\ ReadLine /\ Before(k, I2cLine.reg)'
               /\ i2c_tx'[k].op = "put" =>
                    Before(k, "vout")' /\ i2c_at >= 4 /\ (i2c_at >= 8 => i2c_tx'[k].arg = save_value)
    <3>1. k + 1 \in 1 .. Len(i2c_tx) /\ k \in 1 .. n /\ i2c_tx'[k] = i2c_tx[k + 1]
      BY <1>4, <1>6
    <3>2. i2c_tx[k + 1].op = "get" => Before(k + 1, I2cLine.reg)
      BY <1>1, <3>1 DEF Queue
    <3>3. i2c_tx[k + 1].op = "get" => Before(k, I2cLine.reg)'
      BY <1>3, <1>8, <3>1, <3>2
    <3>4. i2c_tx[k + 1].op = "put" => Before(k, "vout")'
      BY <1>1, <1>8, <3>1 DEF Queue
    <3> QED
      BY <1>1, <1>4, <3>1, <3>3, <3>4 DEF Queue
  <2>2. i2c_phase = "cmd" => ReadLine /\ Before(n, I2cLine.reg)'
    <3>1. i2c_phase = "cmd" => ReadLine /\ Before(n + 1, I2cLine.reg) /\ n \in 1 .. n
      BY <1>1, <1>4, <1>6 DEF Queue
    <3> QED
      BY <1>3, <1>8, <3>1
  <2>3. Len(i2c_tx') = n - 1 /\ Len(i2c_tx') + 1 = n
    BY <1>4, <1>6
  <2> QED
    BY <1>1, <1>2, <1>3, <2>1, <2>2, <2>3 DEF Queue
<1>12. Answer'
  <2>1. CASE i2c_phase = "wait" /\ ReadLine
    <3>1. i2c_rx = <<>> /\ i2c_tx[n].op = "get"
      BY <1>1, <1>4, <1>6, <2>1 DEF Answer
    <3>2. CASE c.op = "get"
      <4>1. i2c_tx' = <<>>
        BY <1>6, <1>9, <3>2, EmptySeq
      <4>2. I2cLine.reg \in I2cReg
        BY <1>1, <2>1, Script DEF Queue, I2cType, I2cLine, ReadLine
      <4>3. i2c_rx' = <<regs[I2cLine.reg]>> /\ regs[I2cLine.reg] \in RegValue
        BY <1>1, <1>7, <1>9, <3>1, <3>2, <4>2 DEF I2cType
      <4> QED
        BY <1>2, <1>3, <1>10, <2>1, <4>1, <4>3 DEF Answer
    <3>3. CASE c.op # "get"
      <4>1. n - 1 \in 1 .. n - 1 /\ (n - 1) + 1 = n
        BY <1>4, <1>5, <1>6, <3>1, <3>3
      <4>2. i2c_tx' # <<>> /\ i2c_tx'[n - 1].op = "get"
        BY <1>6, <3>1, <4>1
      <4> QED
        BY <1>2, <1>3, <1>6, <1>7, <2>1, <3>1, <3>3, <4>2 DEF Answer
    <3> QED
      BY <3>2, <3>3
  <2>2. CASE ~ (i2c_phase = "wait" /\ ReadLine)
    BY <1>1, <1>2, <1>3, <1>7, <1>9, <2>2 DEF Answer
  <2> QED
    BY <2>1, <2>2
<1>13. Restoring'
  <2>1. CASE c.op = "put"
    <3>1. i2c_at >= 8 => regs'["vout"] = save_value \/ refused'
      BY <1>7, <1>9, <2>1
    <3> QED
      BY <1>1, <1>2, <1>10, <3>1 DEF Restoring
  <2>2. CASE c.op # "put"
    <3>1. ASSUME Writing PROVE Writing'
      <4>1. PICK k \in 1 .. n : i2c_tx[k].op = "put"
        BY <1>4, <3>1 DEF Writing
      <4>2. k - 1 \in 1 .. n - 1 /\ (k - 1) + 1 = k
        BY <1>4, <1>5, <2>2, <4>1
      <4> QED
        BY <1>6, <4>1, <4>2 DEF Writing
    <3> QED
      BY <1>1, <1>2, <1>7, <1>10, <2>2, <3>1 DEF Restoring
  <2> QED
    BY <2>1, <2>2
<1> QED
  BY <1>1, <1>2, <1>6, <1>10, <1>11, <1>12, <1>13 DEF I2cInv, I2cType

(* If its number is the right one the regulator is left as it was, unless  *)
(* it refuses the old value or a read comes late: whatever the registers   *)
(* hold, whichever other byte is refused and whenever the waits of the     *)
(* writes end.                                                             *)
THEOREM RegulatorLeftAlone == FwSpec => []RegulatorRestored
<1>1. FwInit => I2cInv
  BY I2cInitInv DEF FwInit
<1>2. I2cInv /\ [FwNext]_fwVars => I2cInv'
  <2>1. I2cInv /\ UNCHANGED i2cVars => I2cInv'
    BY DEF I2cInv, I2cType, Queue, Before, Answer, Writing, Restoring, ReadLine, I2cLine, i2cVars
  <2> QED
    BY <2>1, I2cSteps, PostWriteKeeps, PostAddressKeeps, PostReadKeeps, I2cWaitedKeeps,
       I2cDeviceKeeps DEF I2cMain
<1>3. I2cInv => RegulatorRestored
  <2> SUFFICES ASSUME I2cInv, I2cDone, ~ i2c_late, i2c_tx = <<>>
               PROVE  /\ i2c_rx = <<>>
                      /\ ~ refused /\ regs["id"] = ChipId => regs["vout"] = vout0
    BY DEF RegulatorRestored
  <2>1. I2cType /\ Queue /\ Answer /\ Restoring /\ i2c_at = 10
    BY Script DEF I2cInv, I2cDone, I2cType
  <2>2. i2c_phase = "addr"
    BY <2>1 DEF Queue, I2cType
  <2>3. ~ Writing
    BY DEF Writing
  <2> QED
    BY <2>1, <2>2, <2>3 DEF Answer, Restoring
<1> QED
  BY <1>1, <1>2, <1>3, PTL DEF FwSpec

-----------------------------------------------------------------------------
(* The commands of the test of the flash, by their places.                 *)
SpiCommand ==
  {Enable, Erase} \cup {[op |-> "program", page |-> p] : p \in Page}
    \cup {[op |-> "read", page |-> p] : p \in Page}
    \cup {[op |-> "check", want |-> w] : w \in {"data", "ff"}}

FirstCheck == 3 * Pages + 3
LastCheck == 4 * Pages + 6

(* Which command is where.                                                 *)
LEMMA CommandAt ==
  /\ Len(Commands) = LastCheck
  /\ \A k \in 1 .. LastCheck :
       /\ Commands[k] \in SpiCommand
       /\ k <= 2 * Pages + 2 \/ k \in {FirstCheck + 1, FirstCheck + 2} <=>
            Commands[k].op \in {"wren", "erase", "program"}
       /\ k = FirstCheck + 1 => Commands[k] = Enable
       /\ k = FirstCheck + 2 => Commands[k] = Erase
       /\ k \in {FirstCheck, LastCheck} <=> Commands[k].op = "check"
       /\ k = FirstCheck => Commands[k].want = "data"
<1> DEFINE P == 2 * Pages
           Start == <<Enable, Erase>>
           Cd == <<[op |-> "check", want |-> "data"]>>
           Cf == <<[op |-> "check", want |-> "ff"]>>
           s1 == Start \o Programs
           s2 == s1 \o Reads
           s3 == s2 \o Cd
           s4 == s3 \o Start
           s5 == s4 \o Reads
           s6 == s5 \o Cf
<1>0. Pages \in Nat \ {0} /\ Pages \in Nat
  BY PagesAssumption
<1>1. /\ Start \in Seq(SpiCommand) /\ Len(Start) = 2
      /\ Start[1] = Enable /\ Start[2] = Erase
  BY DEF SpiCommand
<1>2. /\ Cd \in Seq(SpiCommand) /\ Len(Cd) = 1 /\ Cd[1].op = "check" /\ Cd[1].want = "data"
      /\ Cf \in Seq(SpiCommand) /\ Len(Cf) = 1 /\ Cf[1].op = "check"
  BY DEF SpiCommand
<1>3. /\ Programs \in Seq(SpiCommand) /\ Len(Programs) = 2 * Pages
      /\ \A k \in 1 .. 2 * Pages : Programs[k].op \in {"wren", "program"}
  <2>1. \A k \in 1 .. 2 * Pages : k % 2 # 1 => k \div 2 \in Page
    BY <1>0 DEF Page
  <2>2. \A k \in 1 .. 2 * Pages : Programs[k] \in SpiCommand /\ Programs[k].op \in {"wren", "program"}
    BY <2>1 DEF Programs, SpiCommand, Enable
  <2>3. Programs \in [1 .. 2 * Pages -> SpiCommand]
    BY <2>2 DEF Programs
  <2> QED
    BY <1>0, <2>2, <2>3
<1>4. /\ Reads \in Seq(SpiCommand) /\ Len(Reads) = Pages
      /\ \A k \in 1 .. Pages : Reads[k].op = "read"
  <2>1. Reads \in [1 .. Pages -> SpiCommand]
    BY DEF Reads, Page, SpiCommand
  <2> QED
    BY <1>0, <2>1 DEF Reads, Page
<1> HIDE DEF Start, Cd, Cf
<1>5. /\ s1 \in Seq(SpiCommand) /\ Len(s1) = 2 * Pages + 2
      /\ \A k \in 1 .. 2 * Pages + 2 : s1[k] = IF k <= 2 THEN Start[k] ELSE Programs[k - 2]
  <2>1. /\ s1 \in Seq(SpiCommand) /\ Len(s1) = Len(Start) + Len(Programs)
        /\ \A k \in 1 .. Len(Start) + Len(Programs) :
             s1[k] = IF k <= Len(Start) THEN Start[k] ELSE Programs[k - Len(Start)]
    BY <1>1, <1>3, Joined
  <2> QED
    BY <1>0, <1>1, <1>3, <2>1
<1> HIDE DEF s1
<1>6. /\ s2 \in Seq(SpiCommand) /\ Len(s2) = 3 * Pages + 2
      /\ \A k \in 1 .. 3 * Pages + 2 :
           s2[k] = IF k <= 2 * Pages + 2 THEN s1[k] ELSE Reads[k - (2 * Pages + 2)]
  <2>1. /\ s2 \in Seq(SpiCommand) /\ Len(s2) = Len(s1) + Len(Reads)
        /\ \A k \in 1 .. Len(s1) + Len(Reads) :
             s2[k] = IF k <= Len(s1) THEN s1[k] ELSE Reads[k - Len(s1)]
    BY <1>5, <1>4, Joined
  <2> QED
    BY <1>0, <1>5, <1>4, <2>1
<1> HIDE DEF s2
<1>7. /\ s3 \in Seq(SpiCommand) /\ Len(s3) = 3 * Pages + 3
      /\ \A k \in 1 .. 3 * Pages + 3 :
           s3[k] = IF k <= 3 * Pages + 2 THEN s2[k] ELSE Cd[k - (3 * Pages + 2)]
  <2>1. /\ s3 \in Seq(SpiCommand) /\ Len(s3) = Len(s2) + Len(Cd)
        /\ \A k \in 1 .. Len(s2) + Len(Cd) :
             s3[k] = IF k <= Len(s2) THEN s2[k] ELSE Cd[k - Len(s2)]
    BY <1>6, <1>2, Joined
  <2> QED
    BY <1>0, <1>6, <1>2, <2>1
<1> HIDE DEF s3
<1>8. /\ s4 \in Seq(SpiCommand) /\ Len(s4) = 3 * Pages + 5
      /\ \A k \in 1 .. 3 * Pages + 5 :
           s4[k] = IF k <= 3 * Pages + 3 THEN s3[k] ELSE Start[k - (3 * Pages + 3)]
  <2>1. /\ s4 \in Seq(SpiCommand) /\ Len(s4) = Len(s3) + Len(Start)
        /\ \A k \in 1 .. Len(s3) + Len(Start) :
             s4[k] = IF k <= Len(s3) THEN s3[k] ELSE Start[k - Len(s3)]
    BY <1>7, <1>1, Joined
  <2> QED
    BY <1>0, <1>7, <1>1, <2>1
<1> HIDE DEF s4
<1>9. /\ s5 \in Seq(SpiCommand) /\ Len(s5) = 4 * Pages + 5
      /\ \A k \in 1 .. 4 * Pages + 5 :
           s5[k] = IF k <= 3 * Pages + 5 THEN s4[k] ELSE Reads[k - (3 * Pages + 5)]
  <2>1. /\ s5 \in Seq(SpiCommand) /\ Len(s5) = Len(s4) + Len(Reads)
        /\ \A k \in 1 .. Len(s4) + Len(Reads) :
             s5[k] = IF k <= Len(s4) THEN s4[k] ELSE Reads[k - Len(s4)]
    BY <1>8, <1>4, Joined
  <2> QED
    BY <1>0, <1>8, <1>4, <2>1
<1> HIDE DEF s5
<1>10. /\ s6 \in Seq(SpiCommand) /\ Len(s6) = 4 * Pages + 6
       /\ \A k \in 1 .. 4 * Pages + 6 :
            s6[k] = IF k <= 4 * Pages + 5 THEN s5[k] ELSE Cf[k - (4 * Pages + 5)]
  <2>1. /\ s6 \in Seq(SpiCommand) /\ Len(s6) = Len(s5) + Len(Cf)
        /\ \A k \in 1 .. Len(s5) + Len(Cf) :
             s6[k] = IF k <= Len(s5) THEN s5[k] ELSE Cf[k - Len(s5)]
    BY <1>9, <1>2, Joined
  <2> QED
    BY <1>0, <1>9, <1>2, <2>1
<1>11. Commands = s6
  <2>1. Check("data") \in Seq(SpiCommand) /\ Check("ff") \in Seq(SpiCommand)
    BY DEF Check, SpiCommand
  <2> QED
    BY <1>1, <1>3, <1>4, <2>1
       DEF Commands, Check, s1, s2, s3, s4, s5, s6, Start, Cd, Cf
<1> HIDE DEF s6
<1>a. /\ \A k \in 1 .. 3 * Pages + 5 : Commands[k] = s4[k]
      /\ \A k \in 1 .. 4 * Pages + 5 : Commands[k] = s5[k]
  BY <1>0, <1>9, <1>10, <1>11
<1>b. ASSUME NEW k \in 1 .. 3 * Pages + 3 PROVE Commands[k] = s3[k]
  <2>1. k \in 1 .. 3 * Pages + 5 /\ k <= 3 * Pages + 3
    BY <1>0
  <2> QED BY <1>8, <1>a, <2>1
<1>c. ASSUME NEW k \in 1 .. 3 * Pages + 2 PROVE Commands[k] = s2[k]
  <2>1. k \in 1 .. 3 * Pages + 3 /\ k <= 3 * Pages + 2
    BY <1>0
  <2> QED BY <1>7, <1>b, <2>1
<1>12. Len(Commands) = LastCheck
  BY <1>10, <1>11 DEF LastCheck
<1>13. ASSUME NEW k \in 1 .. LastCheck PROVE
       /\ Commands[k] \in SpiCommand
       /\ k <= 2 * Pages + 2 \/ k \in {FirstCheck + 1, FirstCheck + 2} <=>
            Commands[k].op \in {"wren", "erase", "program"}
       /\ k = FirstCheck + 1 => Commands[k] = Enable
       /\ k = FirstCheck + 2 => Commands[k] = Erase
       /\ k \in {FirstCheck, LastCheck} <=> Commands[k].op = "check"
       /\ k = FirstCheck => Commands[k].want = "data"
  <2> USE DEF FirstCheck, LastCheck
  <2>0. k \in 1 .. 4 * Pages + 6 /\ Commands[k] \in SpiCommand
    BY <1>10, <1>11, <1>12, ElementOfSeq
  <2>1. CASE k <= 2
    <3>0. k \in 1 .. 2 * Pages + 2 /\ k \in 1 .. 3 * Pages + 2
      BY <1>0, <2>0, <2>1
    <3>1. Commands[k] = Start[k]
      BY <1>5, <1>6, <1>c, <2>1, <3>0
    <3> QED
      BY <1>0, <1>1, <2>0, <2>1, <3>1 DEF Enable, Erase
  <2>2. CASE k \in 3 .. 2 * Pages + 2
    <3>0. k \in 1 .. 2 * Pages + 2 /\ k \in 1 .. 3 * Pages + 2 /\ k <= 2 * Pages + 2 /\ ~ (k <= 2)
      BY <1>0, <2>2
    <3>1. Commands[k] = Programs[k - 2]
      BY <1>5, <1>6, <1>c, <3>0
    <3> QED
      BY <1>0, <1>3, <2>0, <2>2, <3>1
  <2>3. CASE k \in 2 * Pages + 3 .. 3 * Pages + 2
    <3>1. Commands[k] = Reads[k - (2 * Pages + 2)]
      BY <1>0, <1>6, <1>c, <2>3
    <3> QED
      BY <1>0, <1>4, <2>0, <2>3, <3>1
  <2>4. CASE k = 3 * Pages + 3
    <3>1. Commands[k] = Cd[1]
      BY <1>0, <1>7, <1>b, <2>4
    <3> QED
      BY <1>0, <1>2, <2>0, <2>4, <3>1
  <2>5. CASE k \in {3 * Pages + 4, 3 * Pages + 5}
    <3>0. k \in 1 .. 3 * Pages + 5 /\ ~ (k <= 3 * Pages + 3)
      BY <1>0, <2>5
    <3>1. Commands[k] = Start[k - (3 * Pages + 3)]
      BY <1>8, <1>a, <3>0
    <3> QED
      BY <1>0, <1>1, <2>0, <2>5, <3>1 DEF Enable, Erase
  <2>6. CASE k \in 3 * Pages + 6 .. 4 * Pages + 5
    <3>1. Commands[k] = Reads[k - (3 * Pages + 5)]
      BY <1>0, <1>9, <1>a, <2>6
    <3> QED
      BY <1>0, <1>4, <2>0, <2>6, <3>1
  <2>7. CASE k = 4 * Pages + 6
    <3>1. Commands[k] = Cf[1]
      BY <1>0, <1>10, <1>11, <2>7
    <3> QED
      BY <1>0, <1>2, <2>0, <2>7, <3>1
  <2> QED
    BY <1>0, <2>0, <2>1, <2>2, <2>3, <2>4, <2>5, <2>6, <2>7
<1> QED
  BY <1>12, <1>13

-----------------------------------------------------------------------------
(* All pages have been erased since, or are being erased.                  *)
Erasing == job = Erase \/ (job = Idle /\ \A q \in Page : flash[q] = "ff")

(* Up to the first comparison, what a read has found to be the data was    *)
(* found by a flash that was idle, and that nothing has made busy since;   *)
(* so the erase after it is not ignored.                                   *)
SpiInv ==
  /\ spi_at \in 1 .. LastCheck + 1
  /\ waiting \in BOOLEAN /\ wel \in BOOLEAN /\ written \in BOOLEAN
  /\ flash \in [Page -> {"ff", "data", "old"}] /\ ram \in [Page -> {"ff", "data", "old"}]
  /\ job \in {Idle, Erase} \cup {[op |-> "program", page |-> p] : p \in Page}
  /\ spi_ret \in {"none", "pass", "fail"}
  /\ spi_ret = "none" => spi_at <= LastCheck
  /\ spi_ret = "pass" => written /\ Erasing
  /\ waiting => spi_ret = "none" /\ spi_at \notin {FirstCheck, LastCheck}
  /\ moving \in BOOLEAN
  /\ moving => waiting /\ Command.op \in {"program", "read"}
  /\ spi_ret = "none" =>
       /\ spi_at <= FirstCheck =>
            \A q \in Page : ram[q] = "data" =>
              spi_at > 2 * Pages + 2 /\ job = Idle /\ flash[q] = "data"
       /\ spi_at > FirstCheck => written
       /\ spi_at = FirstCheck + 1 => job = Idle /\ (waiting => wel)
       /\ spi_at = FirstCheck + 2 => IF waiting THEN Erasing ELSE job = Idle /\ wel
       /\ spi_at > FirstCheck + 2 => Erasing

LEMMA SpiInitInv == SpiInit => SpiInv
<1>1. Pages \in Nat \ {0}
  BY PagesAssumption
<1> SUFFICES ASSUME SpiInit PROVE SpiInv
  OBVIOUS
<1>2. /\ spi_at = 1 /\ ~ waiting /\ waiting \in BOOLEAN /\ spi_ret = "none"
      /\ ~ moving /\ moving \in BOOLEAN
      /\ written \in BOOLEAN /\ wel \in BOOLEAN
      /\ flash \in [Page -> {"ff", "data", "old"}] /\ ram \in [Page -> {"ff", "data", "old"}]
      /\ job \in {Idle, Erase} /\ \A q \in Page : ram[q] # "data"
  BY DEF SpiInit
<1>3. /\ 1 \in 1 .. LastCheck + 1 /\ 1 <= LastCheck /\ 1 <= FirstCheck
      /\ 1 \notin {FirstCheck + 1, FirstCheck + 2} /\ ~ 1 > FirstCheck /\ ~ 1 > FirstCheck + 2
  BY <1>1 DEF FirstCheck, LastCheck
<1> QED
  BY <1>2, <1>3 DEF SpiInv

(* The flash sees the command that the test is at.                         *)
LEMMA TakenKeeps ==
  ASSUME SpiInv, spi_ret = "none", Command.op # "check", waiting' = TRUE, moving' = FALSE,
         waiting => Command.op \in {"program", "read"},
         Taken(Command), UNCHANGED <<spi_at, flash, spi_ret, written>>
  PROVE  SpiInv'
<1>0. Pages \in Nat \ {0}
  BY PagesAssumption
<1>1. spi_at \in 1 .. LastCheck /\ Command = Commands[spi_at]
  BY DEF SpiInv, Command, LastCheck
<1>2. /\ Command \in SpiCommand
      /\ spi_at <= 2 * Pages + 2 \/ spi_at \in {FirstCheck + 1, FirstCheck + 2} <=>
           Command.op \in {"wren", "erase", "program"}
      /\ spi_at = FirstCheck + 1 => Command = Enable
      /\ spi_at = FirstCheck + 2 => Command = Erase
      /\ spi_at \notin {FirstCheck, LastCheck}
  BY <1>1, CommandAt
<1>3. /\ job' \in {Idle, Erase} \cup {[op |-> "program", page |-> p] : p \in Page}
      /\ job # Idle => job' = job
      /\ Command.op \notin {"erase", "program"} => job' = job
  BY <1>2 DEF Taken, SpiInv, SpiCommand, Enable, Erase, Idle
<1>4. /\ wel' \in BOOLEAN
      /\ wel => wel'
      /\ job = Idle /\ Command.op = "wren" => wel'
  BY DEF Taken, SpiInv
<1>5. /\ ram' \in [Page -> {"ff", "data", "old"}]
      /\ \A q \in Page : ram'[q] = "data" =>
           ram[q] = "data" \/ (Command.op = "read" /\ job = Idle /\ flash[q] = "data")
  BY <1>2 DEF Taken, SpiInv, SpiCommand, Enable, Erase, Idle
<1>6. Erasing /\ spi_at > FirstCheck + 2 => Erasing'
  <2>1. spi_at > FirstCheck + 2 => job' = job
    BY <1>0, <1>1, <1>2, <1>3 DEF FirstCheck, LastCheck
  <2> QED
    BY <1>1, <2>1 DEF Erasing
<1>7. spi_at <= FirstCheck =>
        \A q \in Page : ram'[q] = "data" =>
          spi_at > 2 * Pages + 2 /\ job' = Idle /\ flash[q] = "data"
  <2> SUFFICES ASSUME spi_at <= FirstCheck, NEW q \in Page, ram'[q] = "data"
               PROVE  spi_at > 2 * Pages + 2 /\ job' = Idle /\ flash[q] = "data"
    OBVIOUS
  <2>1. spi_at > 2 * Pages + 2 /\ job = Idle /\ flash[q] = "data"
    <3>1. CASE ram[q] = "data"
      BY <1>1, <3>1 DEF SpiInv
    <3>2. CASE Command.op = "read" /\ job = Idle /\ flash[q] = "data"
      BY <1>0, <1>1, <1>2, <3>2 DEF LastCheck
    <3> QED
      BY <1>5, <3>1, <3>2
  <2>2. Command.op \notin {"erase", "program"}
    BY <1>0, <1>1, <1>2, <2>1 DEF FirstCheck, LastCheck
  <2> QED
    BY <1>3, <2>1, <2>2
<1>8. spi_at = FirstCheck + 1 => job' = Idle /\ wel'
  BY <1>1, <1>2, <1>3, <1>4 DEF SpiInv, Enable
<1>9. spi_at = FirstCheck + 2 => Erasing'
  BY <1>1, <1>2 DEF SpiInv, Taken, Erasing, Erase
<1> QED
  BY <1>1, <1>2, <1>3, <1>4, <1>5, <1>6, <1>7, <1>8, <1>9 DEF SpiInv

LEMMA SendKeeps == SpiInv /\ Send => SpiInv'
<1> SUFFICES ASSUME SpiInv, Send PROVE SpiInv'
  OBVIOUS
<1>1. /\ spi_ret = "none" /\ ~ waiting /\ Command.op # "check" /\ waiting' = TRUE
      /\ Taken(Command) /\ UNCHANGED <<spi_at, moving, flash, spi_ret, written>>
  BY DEF Send, SpiDone
<1>2. moving' = FALSE
  BY <1>1 DEF SpiInv
<1> QED
  BY <1>1, <1>2, TakenKeeps

LEMMA StartTransferKeeps == SpiInv /\ StartTransfer => SpiInv'
<1> SUFFICES ASSUME SpiInv, StartTransfer PROVE SpiInv'
  OBVIOUS
<1>1. /\ spi_ret = "none" /\ ~ waiting /\ Command.op \in {"program", "read"}
      /\ waiting' = TRUE /\ moving' = TRUE
      /\ UNCHANGED <<spi_at, flash, job, wel, ram, spi_ret, written>>
  BY DEF StartTransfer, SpiDone
<1>2. spi_at \in 1 .. LastCheck /\ Command = Commands[spi_at] /\ Command' = Command
  BY <1>1 DEF SpiInv, Command, LastCheck
<1>3. spi_at \notin {FirstCheck, LastCheck, FirstCheck + 1, FirstCheck + 2}
  BY <1>1, <1>2, CommandAt DEF Enable, Erase
<1>4. Erasing' <=> Erasing
  BY <1>1 DEF Erasing
<1> QED
  BY <1>1, <1>2, <1>3, <1>4 DEF SpiInv

LEMMA SpiMovesKeeps == SpiInv /\ SpiMoves => SpiInv'
<1> SUFFICES ASSUME SpiInv, SpiMoves PROVE SpiInv'
  OBVIOUS
<1>1. /\ moving /\ moving' = FALSE /\ Taken(Command)
      /\ UNCHANGED <<spi_at, waiting, flash, spi_ret, written>>
  BY DEF SpiMoves
<1>2. /\ waiting = TRUE /\ spi_ret = "none" /\ Command.op \in {"program", "read"}
      /\ Command.op # "check"
  BY <1>1 DEF SpiInv
<1> QED
  BY <1>1, <1>2, TakenKeeps

LEMMA SpiWaitedKeeps == SpiInv /\ SpiWaited => SpiInv'
<1> SUFFICES ASSUME SpiInv, SpiWaited PROVE SpiInv'
  OBVIOUS
<1>0. Pages \in Nat \ {0}
  BY PagesAssumption
<1>1. /\ waiting /\ ~ waiting' /\ spi_at' = spi_at + 1 /\ ~ moving
      /\ UNCHANGED <<moving, flash, job, wel, ram, spi_ret, written>>
  BY DEF SpiWaited
<1>2. Erasing' <=> Erasing
  BY <1>1 DEF Erasing
<1>3. /\ spi_ret = "none" /\ spi_at \in 1 .. LastCheck
      /\ spi_at \notin {FirstCheck, LastCheck}
  BY <1>1 DEF SpiInv, LastCheck
<1>4. spi_at' \in 1 .. LastCheck + 1 /\ spi_at' <= LastCheck
  BY <1>0, <1>1, <1>3 DEF LastCheck
<1>5. spi_at' <= FirstCheck =>
        \A q \in Page : ram'[q] = "data" =>
          spi_at' > 2 * Pages + 2 /\ job' = Idle /\ flash'[q] = "data"
  BY <1>0, <1>1, <1>3 DEF SpiInv, FirstCheck
<1>6. spi_at' > FirstCheck => spi_at > FirstCheck
  BY <1>0, <1>1, <1>3 DEF FirstCheck
<1>7. /\ spi_at' = FirstCheck + 1 => FALSE
      /\ spi_at' = FirstCheck + 2 => spi_at = FirstCheck + 1
      /\ spi_at' > FirstCheck + 2 => spi_at = FirstCheck + 2 \/ spi_at > FirstCheck + 2
  BY <1>0, <1>1, <1>3 DEF FirstCheck
<1>8. spi_at' = FirstCheck + 2 => job = Idle /\ wel
  BY <1>1, <1>3, <1>7 DEF SpiInv
<1>9. spi_at' > FirstCheck + 2 => Erasing
  BY <1>1, <1>3, <1>7 DEF SpiInv
<1>10. waiting' = FALSE /\ FirstCheck \in Nat /\ LastCheck \in Nat
  BY <1>0 DEF SpiWaited, FirstCheck, LastCheck
<1>11. spi_at' > FirstCheck => written'
  BY <1>1, <1>3, <1>6 DEF SpiInv
<1>12. /\ flash' \in [Page -> {"ff", "data", "old"}] /\ ram' \in [Page -> {"ff", "data", "old"}]
       /\ job' \in {Idle, Erase} \cup {[op |-> "program", page |-> p] : p \in Page}
       /\ wel' \in BOOLEAN /\ written' \in BOOLEAN /\ spi_ret' = "none"
       /\ moving' \in BOOLEAN /\ ~ moving'
  BY <1>1, <1>3 DEF SpiInv
<1> QED
  BY <1>1, <1>2, <1>4, <1>5, <1>7, <1>8, <1>9, <1>10, <1>11, <1>12 DEF SpiInv

LEMMA CompareKeeps == SpiInv /\ Compare => SpiInv'
<1> SUFFICES ASSUME SpiInv, Compare PROVE SpiInv'
  OBVIOUS
<1>0. Pages \in Nat \ {0}
  BY PagesAssumption
<1>1. /\ spi_ret = "none" /\ ~ waiting /\ Command.op = "check"
      /\ spi_at \in 1 .. LastCheck /\ Command = Commands[spi_at]
      /\ spi_at' = spi_at + 1
      /\ UNCHANGED <<waiting, moving, flash, job, wel, ram>> /\ ~ moving' /\ moving' \in BOOLEAN
  BY DEF Compare, SpiDone, SpiInv, Command, LastCheck
<1>2. spi_at \in {FirstCheck, LastCheck} /\ (spi_at = FirstCheck => Command.want = "data")
  BY <1>1, CommandAt
<1>3. /\ spi_ret' = IF ~ Matches(Command.want) THEN "fail"
                    ELSE IF spi_at = LastCheck THEN "pass" ELSE "none"
      /\ written' \in BOOLEAN /\ (written => written')
      /\ flash = [p \in Page |-> "data"] => written'
  <2>2. written' = (written \/ flash = [p \in Page |-> "data"])
    BY DEF Compare
  <2>3. spi_ret' = IF ~ Matches(Command.want) THEN "fail"
                   ELSE IF spi_at = LastCheck THEN "pass" ELSE "none"
    BY CommandAt DEF Compare
  <2> QED
    BY <2>2, <2>3 DEF SpiInv
<1>4. Erasing' <=> Erasing
  BY <1>1 DEF Erasing
<1>5. CASE spi_at = FirstCheck
  <2>1. FirstCheck # LastCheck /\ FirstCheck + 1 < LastCheck /\ FirstCheck + 1 \in 1 .. LastCheck + 1
    BY <1>0 DEF FirstCheck, LastCheck
  <2>2. spi_ret' \in {"none", "fail"}
    BY <1>3, <1>5, <2>1
  <2>3. spi_ret' = "none" => job = Idle /\ written'
    <3> SUFFICES ASSUME spi_ret' = "none" PROVE job = Idle /\ written'
      OBVIOUS
    <3>1. \A q \in Page : ram[q] = "data"
      BY <1>2, <1>3, <1>5 DEF Matches
    <3>2. \A q \in Page : job = Idle /\ flash[q] = "data"
      BY <1>0, <1>1, <1>5, <3>1 DEF SpiInv, FirstCheck
    <3>3. 1 \in Page
      BY <1>0 DEF Page
    <3>4. flash = [p \in Page |-> "data"]
      BY <3>2 DEF SpiInv
    <3> QED
      BY <1>3, <3>2, <3>3, <3>4
  <2>4. spi_at' = FirstCheck + 1 /\ ~ (FirstCheck + 1 <= FirstCheck) /\ FirstCheck + 1 > FirstCheck
        /\ FirstCheck + 1 # FirstCheck + 2 /\ ~ (FirstCheck + 1 > FirstCheck + 2)
    BY <1>0, <1>1, <1>5 DEF FirstCheck
  <2>5. /\ spi_at' \in 1 .. LastCheck + 1 /\ spi_at' <= LastCheck
        /\ spi_ret' \in {"none", "pass", "fail"} /\ spi_ret' # "pass"
    BY <1>0, <2>1, <2>2, <2>4 DEF FirstCheck, LastCheck
  <2> QED
    BY <1>1, <1>3, <2>3, <2>4, <2>5 DEF SpiInv
<1>6. CASE spi_at = LastCheck
  <2>1. FirstCheck + 2 < LastCheck /\ LastCheck + 1 \in 1 .. LastCheck + 1 /\ LastCheck > FirstCheck
    BY <1>0 DEF FirstCheck, LastCheck
  <2>2. written /\ Erasing
    BY <1>1, <1>6, <2>1 DEF SpiInv
  <2>3. spi_ret' \in {"pass", "fail"}
    BY <1>3, <1>6
  <2> QED
    BY <1>1, <1>3, <1>4, <1>6, <2>1, <2>2, <2>3 DEF SpiInv
<1> QED
  BY <1>2, <1>5, <1>6

LEMMA SpiDeviceKeeps == SpiInv /\ SpiDevice => SpiInv'
<1> SUFFICES ASSUME SpiInv, SpiDevice PROVE SpiInv'
  OBVIOUS
<1>1. /\ job # Idle /\ job' = Idle /\ wel' = FALSE
      /\ UNCHANGED <<spi_at, waiting, moving, ram, spi_ret, written>> /\ Command' = Command
  BY DEF SpiDevice, Command
<1>2. job = Erase \/ \E p \in Page : job = [op |-> "program", page |-> p]
  BY <1>1 DEF SpiInv
<1>3. flash' \in [Page -> {"ff", "data", "old"}]
  BY <1>2 DEF SpiDevice, SpiInv, Erase
<1>4. job = Erase => Erasing'
  BY DEF SpiDevice, Erasing, Erase
<1>5. ASSUME Erasing, job # Erase PROVE FALSE
  BY <1>1, <1>5 DEF Erasing
<1> QED
  BY <1>1, <1>3, <1>4, <1>5 DEF SpiInv

(* A step of the firmware is one of the test of the flash, of the flash,   *)
(* or leaves both alone.                                                   *)
LEMMA SpiSteps ==
  [FwNext]_fwVars => SpiMain \/ SpiMoves \/ SpiDevice \/ UNCHANGED spiVars
<1>1. Main => SpiMain \/ UNCHANGED spiVars
  BY DEF Main, Only
<1>2. (Spi => SpiDevice) /\ (SpiFifo => SpiMoves)
  BY DEF Spi, SpiFifo
<1>3. Interrupts \/ I2c \/ Nand \/ Bmu \/ Blocks \/ Console => UNCHANGED spiVars
  BY DEF Interrupts, I2c, Nand, Bmu, Blocks, Console, Only
<1>4. UNCHANGED fwVars => UNCHANGED spiVars
  BY DEF fwVars
<1> QED
  BY <1>1, <1>2, <1>3, <1>4 DEF FwNext

(* The test of the flash passes only if the flash has held the data, and   *)
(* is erased or about to be, although no wait reports its time-out.        *)
THEOREM PassMeansWritten == FwSpec => []SpiVerdict
<1>1. FwInit => SpiInv
  BY SpiInitInv DEF FwInit
<1>2. SpiInv /\ [FwNext]_fwVars => SpiInv'
  <2>1. SpiInv /\ UNCHANGED spiVars => SpiInv'
    BY DEF SpiInv, Erasing, Command, spiVars
  <2> QED
    BY <2>1, SpiSteps, SendKeeps, StartTransferKeeps, SpiMovesKeeps, SpiWaitedKeeps, CompareKeeps,
       SpiDeviceKeeps DEF SpiMain
<1>3. SpiInv => SpiVerdict
  <2> SUFFICES ASSUME SpiInv, spi_ret = "pass"
               PROVE  written /\ (job = Erase \/ flash = [p \in Page |-> "ff"])
    BY DEF SpiVerdict
  <2>1. written /\ Erasing /\ flash \in [Page -> {"ff", "data", "old"}]
    BY DEF SpiInv
  <2> QED
    BY <2>1 DEF Erasing
<1> QED
  BY <1>1, <1>2, <1>3, PTL DEF FwSpec

-----------------------------------------------------------------------------
(* The tests of the NAND and the buffers they use.                         *)

(* What the lines of the tests of the NAND say.                            *)
EraseAt == {1, 4, 6, 11}
ReadAt == {5, 8, 10, 13, 15}
WriteAt == {2, 3, 7, 9, 12, 14}

TestAt(n) == IF n <= 5 THEN 1 ELSE IF n <= 10 THEN 2 ELSE 3
SizeAt(n) == IF n \in EraseAt THEN 1 ELSE IF n <= 10 THEN Unit ELSE SlcUnit
PlaneAt(n) == IF n \in {3, 9, 10, 14, 15} THEN 1 ELSE 0

NLine == [test : Tests, op : {"erase", "write", "read"}, planes : SUBSET Plane, size : Nat]

LEMMA NandLines ==
  /\ Len(NandScript) = 15
  /\ \A n \in 1 .. 15 :
       /\ NandScript[n].test = TestAt(n) /\ NandScript[n].size = SizeAt(n)
       /\ NandScript[n].op =
            IF n \in EraseAt THEN "erase" ELSE IF n \in ReadAt THEN "read" ELSE "write"
       /\ NandScript[n].planes \subseteq Plane
       /\ n \notin EraseAt => NandScript[n].planes = {PlaneAt(n)}
<1> DEFINE A == <<NandLine(1, "erase", {0}, 1), NandLine(1, "write", {0}, Unit),
                  NandLine(1, "write", {1}, Unit), NandLine(1, "erase", {1}, 1),
                  NandLine(1, "read", {0}, Unit)>>
           B == PerPlane(2, Unit)
           C == PerPlane(3, SlcUnit)
<1>0. Unit \in Nat /\ SlcUnit \in Nat
  BY SlcAssumption
<1>1. A \in Seq(NLine) /\ Len(A) = 5
  BY <1>0 DEF NLine, NandLine, Tests, Plane
<1>2. B \in Seq(NLine) /\ Len(B) = 5 /\ C \in Seq(NLine) /\ Len(C) = 5
  BY <1>0 DEF NLine, NandLine, Tests, Plane, PerPlane
<1>3. NandScript = (A \o B) \o C
  BY DEF NandScript
<1>4. /\ A[1] = NandLine(1, "erase", {0}, 1) /\ A[2] = NandLine(1, "write", {0}, Unit)
      /\ A[3] = NandLine(1, "write", {1}, Unit) /\ A[4] = NandLine(1, "erase", {1}, 1)
      /\ A[5] = NandLine(1, "read", {0}, Unit)
  OBVIOUS
<1>5. /\ B[1] = NandLine(2, "erase", Plane, 1) /\ B[2] = NandLine(2, "write", {0}, Unit)
      /\ B[3] = NandLine(2, "read", {0}, Unit) /\ B[4] = NandLine(2, "write", {1}, Unit)
      /\ B[5] = NandLine(2, "read", {1}, Unit)
  BY DEF PerPlane
<1>6. /\ C[1] = NandLine(3, "erase", Plane, 1) /\ C[2] = NandLine(3, "write", {0}, SlcUnit)
      /\ C[3] = NandLine(3, "read", {0}, SlcUnit) /\ C[4] = NandLine(3, "write", {1}, SlcUnit)
      /\ C[5] = NandLine(3, "read", {1}, SlcUnit)
  BY DEF PerPlane
<1> DEFINE AB == A \o B
           ABC == AB \o C
<1>a. NandScript = ABC
  BY <1>3
<1> HIDE DEF A, B, C
<1>7. /\ AB \in Seq(NLine) /\ Len(AB) = 10
      /\ \A k \in 1 .. 10 : AB[k] = IF k <= 5 THEN A[k] ELSE B[k - 5]
  <2>1. /\ AB \in Seq(NLine) /\ Len(AB) = Len(A) + Len(B)
        /\ \A k \in 1 .. Len(A) + Len(B) :
             AB[k] = IF k <= Len(A) THEN A[k] ELSE B[k - Len(A)]
    BY <1>1, <1>2, Joined
  <2> QED BY <1>1, <1>2, <2>1
<1> HIDE DEF AB
<1>b. /\ ABC \in Seq(NLine) /\ Len(ABC) = Len(AB) + Len(C)
      /\ \A k \in 1 .. Len(AB) + Len(C) :
           ABC[k] = IF k <= Len(AB) THEN AB[k] ELSE C[k - Len(AB)]
  BY <1>2, <1>7, Joined
<1> HIDE DEF ABC
<1>c. Len(AB) = 10 /\ Len(C) = 5
  BY <1>2, <1>7
<1>8. /\ Len(ABC) = 15
      /\ \A k \in 1 .. 15 : ABC[k] = IF k <= 10 THEN AB[k] ELSE C[k - 10]
  BY <1>b, <1>c
<1>9. ASSUME NEW k \in 1 .. 15
      PROVE  NandScript[k] = IF k <= 5 THEN A[k] ELSE IF k <= 10 THEN B[k - 5] ELSE C[k - 10]
  BY <1>a, <1>7, <1>8
<1>10. \A n \in 1 .. 15 :
         /\ NandScript[n].test = TestAt(n) /\ NandScript[n].size = SizeAt(n)
         /\ NandScript[n].op =
              IF n \in EraseAt THEN "erase" ELSE IF n \in ReadAt THEN "read" ELSE "write"
         /\ NandScript[n].planes \subseteq Plane
         /\ n \notin EraseAt => NandScript[n].planes = {PlaneAt(n)}
  <2> SUFFICES ASSUME NEW n \in 1 .. 15
               PROVE  /\ NandScript[n].test = TestAt(n) /\ NandScript[n].size = SizeAt(n)
                      /\ NandScript[n].op =
                           IF n \in EraseAt THEN "erase" ELSE IF n \in ReadAt THEN "read" ELSE "write"
                      /\ NandScript[n].planes \subseteq Plane
                      /\ n \notin EraseAt => NandScript[n].planes = {PlaneAt(n)}
    OBVIOUS
  <2> USE DEF TestAt, SizeAt, PlaneAt, EraseAt, ReadAt, NandLine, Plane
  <2>1. CASE n \in 1 .. 5
    <3>1. n = 1 \/ n = 2 \/ n = 3 \/ n = 4 \/ n = 5
      BY <2>1
    <3>2. NandScript[n] = A[n]
      BY <1>9, <2>1
    <3> QED BY <1>4, <3>1, <3>2
  <2>2. CASE n \in 6 .. 10
    <3>1. n = 6 \/ n = 7 \/ n = 8 \/ n = 9 \/ n = 10
      BY <2>2
    <3>2. NandScript[n] = B[n - 5]
      BY <1>9, <2>2
    <3> QED BY <1>5, <3>1, <3>2
  <2>3. CASE n \in 11 .. 15
    <3>1. n = 11 \/ n = 12 \/ n = 13 \/ n = 14 \/ n = 15
      BY <2>3
    <3>2. NandScript[n] = C[n - 10]
      BY <1>9, <2>3
    <3> QED BY <1>6, <3>1, <3>2
  <2> QED BY <2>1, <2>2, <2>3
<1> QED BY <1>a, <1>8, <1>10

-----------------------------------------------------------------------------
(* The queue of commands, and the buffers of the pages it will program.    *)
NCommand == [op : {"erase"}, planes : SUBSET Plane]
             \cup [op : {"program", "read"}, cell : Cell, buf : Buf]

Posts(q) == {k \in 1 .. Len(q) : q[k].op = "program"}
InHand(q) == {q[k].buf : k \in Posts(q)}
Apart(q) == \A j, k \in Posts(q) : q[j].buf = q[k].buf => j = k

LEMMA QueueAppend ==
  ASSUME NEW q \in Seq(NCommand), NEW c \in NCommand
  PROVE  /\ Append(q, c) \in Seq(NCommand) /\ Append(q, c) # <<>>
         /\ Len(Append(q, c)) = Len(q) + 1 /\ Append(q, c)[Len(q) + 1] = c
         /\ \A k \in 1 .. Len(q) : Append(q, c)[k] = q[k]
         /\ InHand(Append(q, c)) =
              IF c.op = "program" THEN InHand(q) \cup {c.buf} ELSE InHand(q)
         /\ Apart(q) /\ (c.op = "program" => c.buf \notin InHand(q)) => Apart(Append(q, c))
<1> DEFINE r == Append(q, c)
<1>1. /\ r \in Seq(NCommand) /\ r # <<>> /\ Len(r) = Len(q) + 1 /\ Len(q) \in Nat
      /\ r[Len(q) + 1] = c /\ \A k \in 1 .. Len(q) : r[k] = q[k]
  BY AppendProperties
<1> HIDE DEF r
<1>2. Posts(r) = IF c.op = "program" THEN Posts(q) \cup {Len(q) + 1} ELSE Posts(q)
  <2>1. \A k : k \in 1 .. Len(r) <=> k \in 1 .. Len(q) \/ k = Len(q) + 1
    BY <1>1
  <2> QED BY <1>1, <2>1 DEF Posts
<1>3. \A k \in Posts(q) : r[k] = q[k] /\ k # Len(q) + 1
  BY <1>1 DEF Posts
<1>4. InHand(r) = IF c.op = "program" THEN InHand(q) \cup {c.buf} ELSE InHand(q)
  BY <1>1, <1>2, <1>3 DEF InHand
<1>5. Apart(q) /\ (c.op = "program" => c.buf \notin InHand(q)) => Apart(r)
  BY <1>1, <1>2, <1>3 DEF Apart, InHand
<1> QED BY <1>1, <1>4, <1>5 DEF r

LEMMA QueueTail ==
  ASSUME NEW q \in Seq(NCommand), q # <<>>
  PROVE  /\ Tail(q) \in Seq(NCommand) /\ Len(Tail(q)) = Len(q) - 1 /\ Len(q) \in Nat \ {0}
         /\ Head(q) = q[1] /\ Head(q) \in NCommand
         /\ \A k \in 1 .. Len(q) - 1 : Tail(q)[k] = q[k + 1]
         /\ Apart(q) => /\ Apart(Tail(q))
                        /\ InHand(Tail(q)) = IF Head(q).op = "program"
                                             THEN InHand(q) \ {Head(q).buf} ELSE InHand(q)
<1> DEFINE r == Tail(q)
<1>1. /\ r \in Seq(NCommand) /\ Len(r) = Len(q) - 1 /\ Len(q) \in Nat \ {0}
      /\ Head(q) = q[1] /\ Head(q) \in NCommand
      /\ \A k \in 1 .. Len(q) - 1 : r[k] = q[k + 1]
  BY HeadTailProperties
<1> HIDE DEF r
<1>2. \A k : k \in Posts(r) <=> k \in Nat /\ k + 1 \in Posts(q) /\ k # 0
  <2>1. \A k : k \in 1 .. Len(r) <=> k \in Nat /\ k # 0 /\ k + 1 \in 1 .. Len(q)
    BY <1>1
  <2> QED BY <1>1, <2>1 DEF Posts
<1>3. \A k \in Posts(q) : k \in Nat /\ k # 0 /\ (k # 1 => k - 1 \in Posts(r) /\ q[k] = r[k - 1])
  <2> SUFFICES ASSUME NEW k \in Posts(q)
               PROVE  k \in Nat /\ k # 0 /\ (k # 1 => k - 1 \in Posts(r) /\ q[k] = r[k - 1])
    OBVIOUS
  <2>1. k \in 1 .. Len(q)
    BY DEF Posts
  <2>2. CASE k # 1
    <3>1. k - 1 \in 1 .. Len(q) - 1 /\ (k - 1) + 1 = k /\ k - 1 \in Nat /\ k - 1 # 0
      BY <1>1, <2>1, <2>2
    <3>2. k - 1 \in Posts(r)
      BY <1>2, <3>1
    <3>3. r[k - 1] = q[k]
      BY <1>1, <3>1
    <3> QED BY <3>1, <3>2, <3>3
  <2> QED BY <1>1, <2>1, <2>2
<1>4. \A k \in Posts(r) : k + 1 \in Posts(q) /\ r[k] = q[k + 1] /\ k + 1 # 1 /\ k \in Nat
  <2> SUFFICES ASSUME NEW k \in Posts(r)
               PROVE  k + 1 \in Posts(q) /\ r[k] = q[k + 1] /\ k + 1 # 1 /\ k \in Nat
    OBVIOUS
  <2>1. k \in 1 .. Len(q) - 1
    BY <1>1 DEF Posts
  <2> QED BY <1>1, <1>2, <2>1
<1>5. 1 \in Posts(q) <=> Head(q).op = "program"
  BY <1>1 DEF Posts
<1>6. ASSUME Apart(q) PROVE Apart(r)
  <2> SUFFICES ASSUME NEW j \in Posts(r), NEW k \in Posts(r), r[j].buf = r[k].buf
               PROVE  j = k
    BY DEF Apart
  <2>1. j + 1 = k + 1
    BY <1>4, <1>6 DEF Apart
  <2> QED BY <1>4, <2>1
<1>7. ASSUME Apart(q)
      PROVE InHand(r) = IF Head(q).op = "program" THEN InHand(q) \ {Head(q).buf} ELSE InHand(q)
  <2>1. ASSUME NEW b \in InHand(r)
        PROVE  b \in InHand(q) /\ (Head(q).op = "program" => b # Head(q).buf)
    <3>1. PICK k \in Posts(r) : b = r[k].buf
      BY DEF InHand
    <3>2. k + 1 \in Posts(q) /\ b = q[k + 1].buf /\ k + 1 # 1
      BY <1>4, <3>1
    <3> QED BY <1>1, <1>5, <1>7, <3>2 DEF InHand, Apart
  <2>2. ASSUME NEW b \in InHand(q), Head(q).op = "program" => b # Head(q).buf
        PROVE  b \in InHand(r)
    <3>1. PICK k \in Posts(q) : b = q[k].buf
      BY DEF InHand
    <3>2. k # 1
      BY <1>1, <1>5, <2>2, <3>1
    <3> QED BY <1>3, <3>1, <3>2 DEF InHand
  <2> QED BY <2>1, <2>2
<1> QED BY <1>1, <1>6, <1>7 DEF r

(* A buffer for each page.                                                 *)
LEMMA QueueCount ==
  ASSUME NEW q \in Seq(NCommand), Apart(q)
  PROVE  /\ IsFiniteSet(InHand(q)) /\ InHand(q) \subseteq Buf
         /\ Cardinality(InHand(q)) = Cardinality(Posts(q))
<1>1. IsFiniteSet(Posts(q))
  <2>1. Posts(q) \subseteq 1 .. Len(q) /\ Len(q) \in Nat
    BY DEF Posts
  <2>2. IsFiniteSet(1 .. Len(q))
    BY <2>1, FS_Interval
  <2> QED BY <2>1, <2>2, FS_Subset
<1> DEFINE f == [k \in Posts(q) |-> q[k].buf]
<1>2. f \in [Posts(q) -> InHand(q)]
  BY DEF InHand
<1>3. f \in Bijection(Posts(q), InHand(q))
  BY <1>2 DEF Bijection, Injection, Surjection, IsInjective, InHand, Apart
<1>4. ExistsBijection(Posts(q), InHand(q))
  BY <1>3 DEF ExistsBijection
<1>5. InHand(q) \subseteq Buf
  <2>1. ASSUME NEW k \in Posts(q) PROVE q[k].buf \in Buf
    <3>1. q[k] \in NCommand /\ q[k].op = "program"
      BY DEF Posts
    <3> QED BY <3>1 DEF NCommand
  <2> QED BY <2>1 DEF InHand
<1> QED BY <1>1, <1>4, <1>5, FS_Bijection

-----------------------------------------------------------------------------
(* The invariant of the tests of the NAND.                                 *)
NData == {Erased, Old, Bad} \cup {Data(t, c) : t \in Tests, c \in Cell}

ReadPage == <<PlaneAt(n_at), n_i>>

NandTypes ==
  /\ n_at \in 1 .. 16 /\ n_i \in 1 .. SizeAt(n_at)
  /\ t_buff \in 0 .. Buffers /\ free \subseteq Buf /\ failures \in Nat
  /\ sram \in [Buf -> NData] /\ cell \in [Cell -> NData]
  /\ cmdq \in Seq(NCommand)
  /\ errq \in BOOLEAN /\ smrdq \in BOOLEAN
  /\ n_ret \in [Tests -> {"none", "pass", "fail"}]

(* While a page is being read, its command is the last of the queue, or    *)
(* the queue is empty and there is one answer.                             *)
Answered == cmdq = <<>> /\ errq # smrdq /\ (smrdq => sram[t_buff] = cell[ReadPage])

Awaited ==
  /\ cmdq # <<>> /\ ~ errq /\ ~ smrdq
  /\ cmdq[Len(cmdq)] = [op |-> "read", cell |-> ReadPage, buf |-> t_buff]
  /\ \A k \in 1 .. Len(cmdq) - 1 : cmdq[k].op # "read"

Reading ==
  /\ t_buff = 0 => /\ ~ errq /\ ~ smrdq
                   /\ \A k \in 1 .. Len(cmdq) : cmdq[k].op # "read"
  /\ t_buff # 0 => n_at \in ReadAt /\ (Answered \/ Awaited)
  /\ n_at \in {6, 11, 16} => cmdq = <<>> /\ t_buff = 0

(* Buffers in the queue at most, and reads that may have failed.           *)
Posted(n, i) ==
  IF n \in {2, 7, 9, 12, 14} THEN i - 1
  ELSE IF n = 3 THEN Unit + i - 1
  ELSE IF n \in {4, 5} THEN 2 * Unit
  ELSE IF n \in ReadAt THEN SizeAt(n) ELSE 0

Lost(n) == IF n <= 5 THEN 0 ELSE IF n <= 10 THEN 1 ELSE IF n <= 15 THEN 2 ELSE 3

Held == {t_buff} \ {0}
AllBuffers == (free \cup InHand(cmdq)) \cup Held

Accounting ==
  /\ free \cap InHand(cmdq) = {} /\ t_buff \notin free /\ t_buff \notin InHand(cmdq)
  /\ Apart(cmdq)
  /\ Cardinality(AllBuffers) = Buffers - Reserved - failures
  /\ Cardinality(InHand(cmdq)) <= Posted(n_at, n_i)
  /\ failures <= Lost(n_at)

(* The pages of this test that have been compared.                         *)
Checked ==
  {c \in Cell : \/ n_at \in ReadAt /\ c[1] = PlaneAt(n_at) /\ c[2] < n_i
                \/ n_at \in {9, 10, 14, 15} /\ c[1] = 0 /\ c[2] <= SizeAt(n_at)}

(* The pages a test that passes has compared.                              *)
Compared(t) == {c \in Cell : c[2] <= SizeAt(5 * t) /\ (t = 1 => c[1] = 0)}

Verified ==
  /\ \A c \in Checked : cell[c] = Data(TestAt(n_at), c)
  /\ \A k \in 1 .. Len(cmdq) :
       /\ cmdq[k].op = "program" => cmdq[k].cell \notin Checked
       /\ cmdq[k].op = "erase" => Checked = {}
  /\ \A t \in Tests : n_at = 5 * t + 1 /\ n_ret[t] = "pass" =>
       \A c \in Compared(t) : cell[c] = Data(t, c)

NandInv == NandTypes /\ Reading /\ Accounting /\ Verified

-----------------------------------------------------------------------------
(* The lines of the script, and how the tests go through them.             *)
LEMMA Sizes ==
  /\ Unit \in Nat /\ SlcUnit \in Nat /\ SlcUnit \in 1 .. Unit /\ Unit > 0
  /\ Buffers \in Nat /\ Reserved \in Nat /\ Buffers > 0
  /\ Buffers > Reserved + 2 * Unit /\ Buffers > Reserved + SlcUnit + 2
  /\ \A n : SizeAt(n) \in 1 .. Unit
  BY SlcAssumption, BuffersAssumption DEF SizeAt

LEMMA ThisLineIs ==
  ASSUME NandTypes, ~ NandDone
  PROVE  /\ n_at \in 1 .. 15 /\ n_i \in 1 .. Unit /\ n_i \in 1 .. SizeAt(n_at)
         /\ ThisLine.test = TestAt(n_at) /\ ThisLine.size = SizeAt(n_at)
         /\ ThisLine.op = "erase" <=> n_at \in EraseAt
         /\ ThisLine.op = "read" <=> n_at \in ReadAt
         /\ ThisLine.op = "write" <=> n_at \in WriteAt
         /\ ThisLine.planes \subseteq Plane
         /\ n_at \notin EraseAt => ThisPage = ReadPage /\ ReadPage \in Cell
         /\ 5 * ThisLine.test + 1 =
              IF n_at <= 5 THEN 6 ELSE IF n_at <= 10 THEN 11 ELSE 16
<1>1. n_at \in 1 .. 15
  BY NandLines DEF NandTypes, NandDone
<1>2. n_i \in 1 .. SizeAt(n_at) /\ n_i \in 1 .. Unit
  BY Sizes DEF NandTypes
<1>3. /\ ThisLine.test = TestAt(n_at) /\ ThisLine.size = SizeAt(n_at)
      /\ ThisLine.op = IF n_at \in EraseAt THEN "erase" ELSE IF n_at \in ReadAt THEN "read" ELSE "write"
      /\ ThisLine.planes \subseteq Plane
      /\ n_at \notin EraseAt => ThisLine.planes = {PlaneAt(n_at)}
  BY <1>1, NandLines DEF ThisLine
<1>4. n_at \in WriteAt <=> n_at \notin EraseAt /\ n_at \notin ReadAt
  BY <1>1 DEF WriteAt, EraseAt, ReadAt
<1>5. n_at \in EraseAt => n_at \notin ReadAt
  BY DEF EraseAt, ReadAt
<1>6. ASSUME n_at \notin EraseAt PROVE ThisPage = ReadPage /\ ReadPage \in Cell
  <2>1. ReadPage \in Cell /\ ReadPage[1] = PlaneAt(n_at) /\ ReadPage[2] = n_i
    BY <1>2 DEF ReadPage, Cell, Plane, PlaneAt
  <2>2. \A c \in Cell : c = <<c[1], c[2]>>
    BY DEF Cell
  <2>3. \A c \in Cell : (c[1] \in ThisLine.planes /\ c[2] = n_i) <=> c = ReadPage
    BY <1>3, <1>6, <2>1, <2>2 DEF ReadPage
  <2>4. ThisPage \in Cell /\ ThisPage[1] \in ThisLine.planes /\ ThisPage[2] = n_i
    <3>1. \E c \in Cell : c[1] \in ThisLine.planes /\ c[2] = n_i
      BY <2>1, <2>3
    <3> QED BY <3>1, Zenon DEF ThisPage
  <2> QED BY <2>1, <2>3, <2>4
<1>7. 5 * ThisLine.test + 1 = IF n_at <= 5 THEN 6 ELSE IF n_at <= 10 THEN 11 ELSE 16
  BY <1>1, <1>3 DEF TestAt
<1> QED BY <1>1, <1>2, <1>3, <1>4, <1>5, <1>6, <1>7

LEMMA NextPageIs ==
  ASSUME NandTypes, ~ NandDone, NextPage
  PROVE  \/ n_i < SizeAt(n_at) /\ n_i' = n_i + 1 /\ n_at' = n_at
         \/ n_i = SizeAt(n_at) /\ n_i' = 1 /\ n_at' = n_at + 1
  BY ThisLineIs, Sizes DEF NextPage

LEMMA PositionKept ==
  ASSUME NandTypes, ~ NandDone, NextPage \/ Abandon
  PROVE  n_at' \in 1 .. 16 /\ n_i' \in 1 .. SizeAt(n_at') /\ n_at' >= n_at
<1>1. CASE NextPage
  BY <1>1, ThisLineIs, NextPageIs, Sizes
<1>2. CASE Abandon
  BY <1>2, ThisLineIs, Sizes DEF Abandon
<1> QED BY <1>1, <1>2

LEMMA NandInitInv == NandInit => NandInv
<1> SUFFICES ASSUME NandInit PROVE NandInv
  OBVIOUS
<1> USE DEF NandInit
<1>1. cmdq = <<>> /\ cmdq \in Seq(NCommand) /\ Len(cmdq) = 0
  OBVIOUS
<1>2. Posts(cmdq) = {} /\ InHand(cmdq) = {} /\ Apart(cmdq)
  BY <1>1 DEF Posts, InHand, Apart
<1>3. NandTypes
  <2>1. SizeAt(1) = 1 /\ Old \in NData
    BY DEF SizeAt, EraseAt, NData
  <2>2. free \subseteq Buf
    BY Sizes DEF Buf
  <2>3. sram \in [Buf -> NData] /\ cell \in [Cell -> NData] /\ n_ret \in [Tests -> {"none", "pass", "fail"}]
    BY <2>1
  <2>4. n_at \in 1 .. 16 /\ n_i \in 1 .. SizeAt(n_at)
    BY <2>1
  <2>5. t_buff \in 0 .. Buffers /\ failures \in Nat
    BY Sizes
  <2>6. errq \in BOOLEAN /\ smrdq \in BOOLEAN
    OBVIOUS
  <2> QED BY <1>1, <2>2, <2>3, <2>4, <2>5, <2>6, Zenon DEF NandTypes
<1>4. Reading
  BY <1>1 DEF Reading
<1>5. Accounting
  <2>1. AllBuffers = Reserved + 1 .. Buffers
    BY <1>2 DEF AllBuffers, Held
  <2>2. Cardinality(Reserved + 1 .. Buffers) = Buffers - Reserved
    <3>1. Reserved + 1 \in Int /\ Buffers \in Int /\ ~ (Reserved + 1 > Buffers)
      BY Sizes
    <3>2. Cardinality((Reserved + 1) .. Buffers) = Buffers - (Reserved + 1) + 1
      BY <3>1, FS_Interval
    <3> QED BY <3>2, Sizes
  <2>3. Cardinality(InHand(cmdq)) = 0 /\ Posted(n_at, n_i) = 0
    <3>1. Cardinality(InHand(cmdq)) = 0
      BY <1>2, FS_EmptySet
    <3>2. Posted(1, 1) = 0
      BY DEF Posted, ReadAt
    <3> QED BY <3>1, <3>2
  <2> QED BY <1>2, <2>1, <2>2, <2>3, Sizes DEF Accounting, Lost
<1>6. Verified
  BY <1>1 DEF Verified, Checked, ReadAt, Tests
<1> QED BY <1>3, <1>4, <1>5, <1>6 DEF NandInv

-----------------------------------------------------------------------------
(* The program.                                                            *)

(* How many buffers are in use at most, and that they are few enough.      *)
LEMMA PostedBound ==
  ASSUME NEW n \in 1 .. 15, NEW i \in 1 .. SizeAt(n)
  PROVE  /\ Posted(n, i) \in Nat
         /\ n \notin EraseAt => Posted(n, i) + Lost(n) < Buffers - Reserved
<1>1. /\ SizeAt(n) \in Nat /\ i \in Nat /\ i >= 1 /\ i <= SizeAt(n) /\ SizeAt(n) <= Unit
      /\ n > 10 /\ n \notin EraseAt => SizeAt(n) = SlcUnit
      /\ Unit \in Nat /\ SlcUnit \in Nat /\ SlcUnit <= Unit /\ SlcUnit > 0
      /\ Buffers \in Nat /\ Reserved \in Nat
      /\ Buffers > Reserved + 2 * Unit /\ Buffers > Reserved + SlcUnit + 2
  BY Sizes DEF SizeAt
<1> DEFINE s == SizeAt(n)
<1> HIDE DEF s
<1>2. CASE n \in {2, 7, 9, 12, 14}
  BY <1>1, <1>2 DEF Posted, Lost, EraseAt, s
<1>3. CASE n = 3
  BY <1>1, <1>3 DEF Posted, Lost, EraseAt
<1>4. CASE n \in {4, 5}
  BY <1>1, <1>4 DEF Posted, Lost, EraseAt
<1>5. CASE n \in {8, 10, 13, 15}
  BY <1>1, <1>5 DEF Posted, Lost, EraseAt, ReadAt
<1>6. CASE n \in {1, 6, 11}
  BY <1>1, <1>6 DEF Posted, Lost, EraseAt, ReadAt
<1> QED BY <1>2, <1>3, <1>4, <1>5, <1>6

(* So there is always a free buffer.                                       *)
LEMMA RoomLeft ==
  ASSUME NandInv, ~ NandDone, n_at \notin EraseAt, t_buff = 0
  PROVE  Allocated \in free /\ Allocated \in Buf
<1>1. n_at \in 1 .. 15 /\ n_i \in 1 .. SizeAt(n_at)
  BY ThisLineIs DEF NandInv
<1>2. Posted(n_at, n_i) + Lost(n_at) < Buffers - Reserved /\ Posted(n_at, n_i) \in Nat
  BY <1>1, PostedBound
<1>3. /\ Cardinality(AllBuffers) = Buffers - Reserved - failures
      /\ Cardinality(InHand(cmdq)) <= Posted(n_at, n_i)
      /\ failures <= Lost(n_at) /\ failures \in Nat
  BY DEF NandInv, Accounting, NandTypes
<1>4. free # {}
  <2> SUFFICES ASSUME free = {} PROVE FALSE
    OBVIOUS
  <2>1. AllBuffers = InHand(cmdq)
    BY DEF AllBuffers, Held
  <2>2. Lost(n_at) \in Nat
    BY DEF Lost
  <2> QED BY <1>2, <1>3, <2>1, <2>2, Sizes
<1>5. free \subseteq Buf /\ Buf \subseteq Nat
  BY Sizes DEF NandInv, NandTypes, Buf
<1>6. \E b \in free : \A f \in free : b <= f
  BY <1>4, <1>5, LeastElement
<1>7. Allocated \in free
  BY <1>4, <1>6, Zenon DEF Allocated
<1> QED BY <1>5, <1>7

LEMMA TestData ==
  ASSUME NandTypes, ~ NandDone, n_at \notin EraseAt
  PROVE  Data(ThisLine.test, ThisPage) \in NData
<1>1. ThisLine.test \in Tests /\ ThisPage \in Cell
  BY ThisLineIs DEF TestAt, Tests
<1> QED BY <1>1 DEF NData

LEMMA PostEraseKeeps == NandInv /\ PostErase => NandInv'
<1> SUFFICES ASSUME NandInv, PostErase PROVE NandInv'
  OBVIOUS
<1> DEFINE c == [op |-> "erase", planes |-> ThisLine.planes]
<1>0. NandTypes /\ Reading /\ Accounting /\ Verified /\ ~ NandDone
  BY DEF NandInv, PostErase
<1>1. n_at \in EraseAt /\ ThisLine.planes \subseteq Plane /\ n_i \in 1 .. SizeAt(n_at)
  BY <1>0, ThisLineIs DEF PostErase
<1>2. n_at \in {1, 4, 6, 11} /\ SizeAt(n_at) = 1 /\ n_i = 1
  BY <1>1 DEF EraseAt, SizeAt
<1>3. n_at' = n_at + 1 /\ n_i' = 1 /\ n_at' \in {2, 5, 7, 12}
  BY <1>0, <1>2, NextPageIs DEF PostErase
<1>4. t_buff = 0 /\ t_buff' = 0 /\ ~ errq' /\ ~ smrdq'
  BY <1>0, <1>2 DEF Reading, ReadAt, PostErase
<1>5. c \in NCommand /\ c.op = "erase"
  BY <1>1 DEF NCommand
<1>6. /\ cmdq' \in Seq(NCommand)
      /\ Len(cmdq') = Len(cmdq) + 1 /\ cmdq'[Len(cmdq) + 1] = c
      /\ \A k \in 1 .. Len(cmdq) : cmdq'[k] = cmdq[k]
      /\ InHand(cmdq') = InHand(cmdq) /\ Apart(cmdq')
  <2>1. cmdq' = Append(cmdq, c) /\ cmdq \in Seq(NCommand) /\ Apart(cmdq)
    BY <1>0 DEF PostErase, NandTypes, Accounting
  <2> HIDE DEF c
  <2> QED BY <1>5, <2>1, QueueAppend
<1>7. NandTypes'
  <2>1. n_at' \in 1 .. 16 /\ n_i' \in 1 .. SizeAt(n_at')
    BY <1>3, Sizes
  <2> QED BY <1>0, <1>6, <2>1 DEF NandTypes, PostErase
<1>8. \A k \in 1 .. Len(cmdq') : k \in 1 .. Len(cmdq) \/ cmdq'[k] = c
  <2>1. Len(cmdq) \in Nat
    BY <1>0 DEF NandTypes
  <2> QED BY <1>6, <2>1
<1>9. Reading'
  BY <1>0, <1>3, <1>4, <1>5, <1>6, <1>8 DEF Reading
<1>10. Accounting'
  <2>1. UNCHANGED <<t_buff, free, failures>>
    BY DEF PostErase
  <2>2. AllBuffers' = AllBuffers
    BY <1>6, <2>1 DEF AllBuffers, Held
  <2>3. Posted(n_at', n_i') = Posted(n_at, n_i) /\ Lost(n_at') = Lost(n_at)
    BY <1>2, <1>3 DEF Posted, Lost, ReadAt
  <2> QED BY <1>0, <1>6, <2>1, <2>2, <2>3 DEF Accounting
<1>11. Checked' = {}
  <2>1. ASSUME NEW d \in Cell PROVE ~ (d[2] < 1)
    BY Sizes DEF Cell
  <2> QED BY <1>3, <2>1 DEF Checked
<1>12. Verified'
  BY <1>3, <1>11 DEF Verified, Tests
<1> QED BY <1>7, <1>9, <1>10, <1>12 DEF NandInv

LEMMA PostProgramKeeps == NandInv /\ PostProgram => NandInv'
<1> SUFFICES ASSUME NandInv, PostProgram PROVE NandInv'
  OBVIOUS
<1> DEFINE b == Allocated
           c == [op |-> "program", cell |-> ThisPage, buf |-> b]
<1>0. NandTypes /\ Reading /\ Accounting /\ Verified /\ ~ NandDone
  BY DEF NandInv, PostProgram
<1>1. /\ n_at \in {2, 3, 7, 9, 12, 14} /\ n_at \notin EraseAt /\ n_at \notin ReadAt
      /\ n_i \in 1 .. SizeAt(n_at)
      /\ ThisPage = ReadPage /\ ReadPage \in Cell
  BY <1>0, ThisLineIs DEF PostProgram, WriteAt, EraseAt, ReadAt
<1>2. /\ free' = free \ {b} /\ cmdq' = Append(cmdq, c) /\ NextPage
      /\ sram' = [sram EXCEPT ![b] = Data(ThisLine.test, ThisPage)]
      /\ UNCHANGED <<t_buff, cell, errq, smrdq, n_ret, failures>>
  BY DEF PostProgram
<1>3. \/ n_i < SizeAt(n_at) /\ n_i' = n_i + 1 /\ n_at' = n_at
      \/ n_i = SizeAt(n_at) /\ n_i' = 1 /\ n_at' = n_at + 1
  BY <1>0, <1>2, NextPageIs
<1>4. t_buff = 0
  BY <1>0, <1>1 DEF Reading
<1>5. b \in free /\ b \in Buf
  BY <1>0, <1>1, <1>4, RoomLeft
<1> HIDE DEF b
<1>6. c \in NCommand /\ c.op = "program" /\ c.buf = b /\ c.cell = ReadPage
  BY <1>1, <1>5 DEF NCommand
<1> HIDE DEF c
<1>7. cmdq \in Seq(NCommand) /\ Apart(cmdq) /\ b \notin InHand(cmdq) /\ Len(cmdq) \in Nat
  BY <1>0, <1>5 DEF NandTypes, Accounting
<1>8. /\ cmdq' \in Seq(NCommand)
      /\ Len(cmdq') = Len(cmdq) + 1 /\ cmdq'[Len(cmdq) + 1] = c
      /\ \A k \in 1 .. Len(cmdq) : cmdq'[k] = cmdq[k]
      /\ InHand(cmdq') = InHand(cmdq) \cup {b} /\ Apart(cmdq')
  BY <1>2, <1>6, <1>7, QueueAppend
<1>9. \A k \in 1 .. Len(cmdq') : k \in 1 .. Len(cmdq) \/ cmdq'[k] = c
  BY <1>7, <1>8
<1>10. NandTypes'
  <2>1. n_at' \in 1 .. 16 /\ n_i' \in 1 .. SizeAt(n_at')
    BY <1>0, <1>2, PositionKept
  <2>2. sram' \in [Buf -> NData]
    BY <1>0, <1>1, <1>2, TestData DEF NandTypes
  <2>3. free' \subseteq Buf
    BY <1>0, <1>2 DEF NandTypes
  <2> QED BY <1>0, <1>2, <1>8, <2>1, <2>2, <2>3 DEF NandTypes
<1>11. n_at' \notin {6, 11, 16}
  BY <1>1, <1>3
<1>12. Reading'
  BY <1>0, <1>2, <1>4, <1>6, <1>8, <1>9, <1>11 DEF Reading
<1>13. Accounting'
  <2>1. free' = free \ {b} /\ UNCHANGED <<t_buff, failures>>
    BY <1>2
  <2>2. AllBuffers' = AllBuffers
    BY <1>5, <1>8, <2>1 DEF AllBuffers, Held
  <2>3. Cardinality(InHand(cmdq')) = Cardinality(InHand(cmdq)) + 1 /\ Cardinality(InHand(cmdq)) \in Nat
    BY <1>7, <1>8, QueueCount, FS_AddElement, FS_CardinalityType
  <2>4. Posted(n_at', n_i') = Posted(n_at, n_i) + 1 /\ Lost(n_at') >= Lost(n_at)
    <3>1. SizeAt(n_at) \in Nat /\ n_i \in Nat /\ Unit \in Nat /\ SlcUnit \in Nat
      BY <1>1, Sizes
    <3>2. CASE n_at \in {2, 3}
      <4>1. SizeAt(n_at) = Unit
        BY <3>2 DEF SizeAt, EraseAt
      <4> QED BY <1>3, <3>1, <3>2, <4>1 DEF Posted, Lost, ReadAt
    <3>3. CASE n_at \in {7, 9}
      <4>1. SizeAt(n_at) = Unit /\ SizeAt(n_at + 1) = Unit
        BY <3>3 DEF SizeAt, EraseAt
      <4> QED BY <1>3, <3>1, <3>3, <4>1 DEF Posted, Lost, ReadAt
    <3>4. CASE n_at \in {12, 14}
      <4>1. SizeAt(n_at) = SlcUnit /\ SizeAt(n_at + 1) = SlcUnit
        BY <3>4 DEF SizeAt, EraseAt
      <4> QED BY <1>3, <3>1, <3>4, <4>1 DEF Posted, Lost, ReadAt
    <3> QED BY <1>1, <3>2, <3>3, <3>4
  <2>5. Cardinality(InHand(cmdq)) <= Posted(n_at, n_i) /\ failures <= Lost(n_at) /\ failures \in Nat
    BY <1>0 DEF Accounting, NandTypes
  <2>6. Cardinality(InHand(cmdq')) <= Posted(n_at', n_i') /\ failures' <= Lost(n_at')
    <3>1. Posted(n_at, n_i) \in Nat
      BY <1>1, PostedBound
    <3>2. Lost(n_at) \in Nat /\ Lost(n_at') \in Nat
      BY DEF Lost
    <3> QED BY <2>1, <2>3, <2>4, <2>5, <3>1, <3>2
  <2>7. /\ free' \cap InHand(cmdq') = {} /\ t_buff' \notin free' /\ t_buff' \notin InHand(cmdq')
        /\ Cardinality(AllBuffers') = Buffers - Reserved - failures'
    BY <1>0, <1>5, <1>8, <2>1, <2>2 DEF Accounting
  <2> QED BY <1>8, <2>6, <2>7 DEF Accounting
<1>14. Checked' = Checked /\ ReadPage \notin Checked
  <2>1. ASSUME NEW d \in Cell PROVE ~ (d[2] < 1) /\ d[1] \in {0, 1}
    BY Sizes DEF Cell, Plane
  <2>2. ReadPage[1] = PlaneAt(n_at)
    BY DEF ReadPage
  <2>3. CASE n_at \in {2, 3, 7, 12}
    BY <1>3, <2>1, <2>3 DEF Checked, ReadAt
  <2>4. CASE n_at = 9
    <3>1. SizeAt(9) = Unit /\ SizeAt(10) = Unit /\ PlaneAt(9) = 1
      BY DEF SizeAt, EraseAt, PlaneAt
    <3> QED BY <1>3, <2>1, <2>2, <2>4, <3>1 DEF Checked, ReadAt
  <2>5. CASE n_at = 14
    <3>1. SizeAt(14) = SlcUnit /\ SizeAt(15) = SlcUnit /\ PlaneAt(14) = 1
      BY DEF SizeAt, EraseAt, PlaneAt
    <3> QED BY <1>3, <2>1, <2>2, <2>5, <3>1 DEF Checked, ReadAt
  <2> QED BY <1>1, <2>3, <2>4, <2>5
<1>15. Verified'
  <2>1. TestAt(n_at') = TestAt(n_at)
    BY <1>1, <1>3 DEF TestAt
  <2>2. \A d \in Checked' : cell'[d] = Data(TestAt(n_at'), d)
    BY <1>0, <1>2, <1>14, <2>1 DEF Verified
  <2>3. \A k \in 1 .. Len(cmdq') :
          /\ cmdq'[k].op = "program" => cmdq'[k].cell \notin Checked'
          /\ cmdq'[k].op = "erase" => Checked' = {}
    BY <1>0, <1>6, <1>8, <1>9, <1>14 DEF Verified
  <2>4. \A t \in Tests : n_at' # 5 * t + 1
    BY <1>11 DEF Tests
  <2> QED BY <2>2, <2>3, <2>4 DEF Verified
<1> QED BY <1>10, <1>12, <1>13, <1>15 DEF NandInv

LEMMA PostFetchKeeps == NandInv /\ PostFetch => NandInv'
<1> SUFFICES ASSUME NandInv, PostFetch PROVE NandInv'
  OBVIOUS
<1> DEFINE b == Allocated
           c == [op |-> "read", cell |-> ThisPage, buf |-> b]
<1>0. NandTypes /\ Reading /\ Accounting /\ Verified /\ ~ NandDone
  BY DEF NandInv, PostFetch
<1>1. /\ n_at \in ReadAt /\ n_at \notin EraseAt
      /\ ThisPage = ReadPage /\ ReadPage \in Cell
  BY <1>0, ThisLineIs DEF PostFetch, EraseAt, ReadAt
<1>2. /\ free' = free \ {b} /\ cmdq' = Append(cmdq, c) /\ t_buff' = b /\ t_buff = 0
      /\ UNCHANGED <<n_at, n_i, sram, cell, errq, smrdq, n_ret, failures>>
  BY DEF PostFetch
<1>5. b \in free /\ b \in Buf
  BY <1>0, <1>1, <1>2, RoomLeft
<1> HIDE DEF b
<1>6. c \in NCommand /\ c.op = "read" /\ c = [op |-> "read", cell |-> ReadPage, buf |-> b]
  BY <1>1, <1>5 DEF NCommand
<1> HIDE DEF c
<1>7. cmdq \in Seq(NCommand) /\ Apart(cmdq) /\ b \notin InHand(cmdq) /\ Len(cmdq) \in Nat
  BY <1>0, <1>5 DEF NandTypes, Accounting
<1>8. /\ cmdq' \in Seq(NCommand) /\ cmdq' # <<>>
      /\ Len(cmdq') = Len(cmdq) + 1 /\ cmdq'[Len(cmdq) + 1] = c
      /\ \A k \in 1 .. Len(cmdq) : cmdq'[k] = cmdq[k]
      /\ InHand(cmdq') = InHand(cmdq) /\ Apart(cmdq')
  BY <1>2, <1>6, <1>7, QueueAppend
<1>9. \A k \in 1 .. Len(cmdq') : k \in 1 .. Len(cmdq) \/ cmdq'[k] = c
  BY <1>7, <1>8
<1>4. b # 0 /\ b \in 0 .. Buffers
  BY <1>5, Sizes DEF Buf
<1>10. NandTypes'
  BY <1>0, <1>2, <1>4, <1>8 DEF NandTypes
<1>11. Reading'
  <2>1. Awaited'
    <3>1. ReadPage' = ReadPage
      BY <1>2 DEF ReadPage
    <3>2. ~ errq' /\ ~ smrdq' /\ \A k \in 1 .. Len(cmdq) : cmdq[k].op # "read"
      BY <1>0, <1>2 DEF Reading
    <3>3. Len(cmdq') - 1 = Len(cmdq)
      BY <1>7, <1>8
    <3> QED BY <1>2, <1>6, <1>8, <3>1, <3>2, <3>3 DEF Awaited
  <2>2. n_at' \in ReadAt /\ n_at' \notin {6, 11, 16} /\ t_buff' # 0
    BY <1>1, <1>2, <1>4 DEF ReadAt
  <2> QED BY <2>1, <2>2 DEF Reading
<1>12. Accounting'
  <2>1. AllBuffers' = AllBuffers
    BY <1>2, <1>4, <1>5, <1>8 DEF AllBuffers, Held
  <2> QED BY <1>0, <1>2, <1>7, <1>8, <2>1 DEF Accounting
<1>13. Verified'
  <2>1. Checked' = Checked
    BY <1>2 DEF Checked
  <2>2. \A k \in 1 .. Len(cmdq') :
          /\ cmdq'[k].op = "program" => cmdq'[k].cell \notin Checked'
          /\ cmdq'[k].op = "erase" => Checked' = {}
    BY <1>0, <1>6, <1>8, <1>9, <2>1 DEF Verified
  <2>3. \A d \in Checked' : cell'[d] = Data(TestAt(n_at'), d)
    BY <1>0, <1>2, <2>1 DEF Verified
  <2>4. \A t \in Tests : n_at' # 5 * t + 1
    BY <1>1, <1>2 DEF Tests, ReadAt
  <2> QED BY <2>2, <2>3, <2>4 DEF Verified
<1> QED BY <1>10, <1>11, <1>12, <1>13 DEF NandInv

(* The program has its answer: the queue is empty.                         *)
LEMMA AnswerFacts ==
  ASSUME NandInv, t_buff # 0, errq \/ smrdq
  PROVE  /\ ~ NandDone /\ n_at \in ReadAt /\ n_at \notin EraseAt
         /\ cmdq = <<>> /\ errq # smrdq
         /\ smrdq => sram[t_buff] = cell[ReadPage]
         /\ t_buff \in Buf /\ InHand(cmdq) = {} /\ Apart(cmdq)
         /\ cmdq \in Seq(NCommand) /\ Len(cmdq) = 0
         /\ AllBuffers = free \cup {t_buff} /\ t_buff \notin free /\ IsFiniteSet(free)
<1>1. NandTypes /\ Reading /\ Accounting
  BY DEF NandInv
<1>2. n_at \in ReadAt /\ Answered
  BY <1>1 DEF Reading, Awaited
<1>3. ~ NandDone /\ n_at \notin EraseAt
  BY <1>2, NandLines DEF NandDone, ReadAt, EraseAt
<1>4. t_buff \in Buf
  BY <1>1, Sizes DEF NandTypes, Buf
<1>5. cmdq = <<>> /\ errq # smrdq /\ (smrdq => sram[t_buff] = cell[ReadPage])
  BY <1>2 DEF Answered
<1>6. Posts(cmdq) = {} /\ InHand(cmdq) = {} /\ Apart(cmdq) /\ Len(cmdq) = 0
      /\ cmdq \in Seq(NCommand)
  BY <1>5 DEF Posts, InHand, Apart
<1>7. AllBuffers = free \cup {t_buff} /\ t_buff \notin free
  BY <1>1, <1>6 DEF AllBuffers, Held, Accounting
<1>8. IsFiniteSet(free)
  <2>1. free \subseteq Buf
    BY <1>1 DEF NandTypes
  <2>2. IsFiniteSet(Buf)
    BY Sizes, FS_Interval DEF Buf
  <2> QED BY <2>1, <2>2, FS_Subset
<1> QED BY <1>2, <1>3, <1>4, <1>5, <1>6, <1>7, <1>8

(* Out of the test, with the queue empty.                                  *)
LEMMA AbandonKeeps ==
  ASSUME NandTypes, ~ NandDone, n_at \in ReadAt, Abandon,
         n_ret' = [n_ret EXCEPT ![ThisLine.test] = "fail"]
  PROVE  /\ n_at' = IF n_at <= 5 THEN 6 ELSE IF n_at <= 10 THEN 11 ELSE 16
         /\ n_at' \in {6, 11, 16} /\ n_i' = 1 /\ n_i' \in 1 .. SizeAt(n_at') /\ n_at' \in 1 .. 16
         /\ n_ret' \in [Tests -> {"none", "pass", "fail"}]
         /\ Checked' = {} /\ Posted(n_at', n_i') = 0 /\ Lost(n_at') = Lost(n_at) + 1
         /\ \A t \in Tests : n_at' = 5 * t + 1 => n_ret'[t] = "fail"
<1>1. /\ n_at' = IF n_at <= 5 THEN 6 ELSE IF n_at <= 10 THEN 11 ELSE 16
      /\ n_i' = 1
  BY ThisLineIs DEF Abandon
<1>2. n_at' \in {6, 11, 16} /\ n_i' \in 1 .. SizeAt(n_at') /\ n_at' \in 1 .. 16
  BY <1>1, Sizes
<1>3. n_ret' \in [Tests -> {"none", "pass", "fail"}]
  BY DEF NandTypes
<1>4. Checked' = {}
  BY <1>2 DEF Checked, ReadAt
<1>5. Posted(n_at', n_i') = 0
  BY <1>2 DEF Posted, ReadAt
<1>6. Lost(n_at') = Lost(n_at) + 1
  BY <1>1 DEF Lost, ReadAt
<1>7. ASSUME NEW t \in Tests, n_at' = 5 * t + 1 PROVE n_ret'[t] = "fail"
  <2>1. ThisLine.test = t
    BY <1>1, <1>7, ThisLineIs DEF TestAt, Tests, ReadAt
  <2> QED BY <2>1 DEF NandTypes
<1> QED BY <1>1, <1>2, <1>3, <1>4, <1>5, <1>6, <1>7

LEMMA ReadFailedKeeps == NandInv /\ ReadFailed => NandInv'
<1> SUFFICES ASSUME NandInv, ReadFailed PROVE NandInv'
  OBVIOUS
<1>0. NandTypes /\ Reading /\ Accounting /\ Verified
  BY DEF NandInv
<1>1. /\ ~ NandDone /\ n_at \in ReadAt /\ cmdq = <<>> /\ ~ smrdq /\ t_buff \in Buf
      /\ InHand(cmdq) = {} /\ Apart(cmdq) /\ Len(cmdq) = 0
      /\ AllBuffers = free \cup {t_buff} /\ t_buff \notin free /\ IsFiniteSet(free)
  BY AnswerFacts DEF ReadFailed
<1>2. /\ errq' = FALSE /\ failures' = failures + 1 /\ t_buff' = 0 /\ Abandon
      /\ n_ret' = [n_ret EXCEPT ![ThisLine.test] = "fail"]
      /\ UNCHANGED <<free, sram, cmdq, cell, smrdq>>
  BY DEF ReadFailed
<1>3. /\ n_at' \in {6, 11, 16} /\ n_i' \in 1 .. SizeAt(n_at') /\ n_at' \in 1 .. 16
      /\ n_ret' \in [Tests -> {"none", "pass", "fail"}]
      /\ Checked' = {} /\ Posted(n_at', n_i') = 0 /\ Lost(n_at') = Lost(n_at) + 1
      /\ \A t \in Tests : n_at' = 5 * t + 1 => n_ret'[t] = "fail"
  BY <1>0, <1>1, <1>2, AbandonKeeps
<1>4. NandTypes'
  <2>1. t_buff' \in 0 .. Buffers /\ failures' \in Nat /\ errq' \in BOOLEAN
    <3>1. t_buff' = 0 /\ errq' = FALSE /\ failures' = failures + 1 /\ failures \in Nat
      BY <1>0, <1>2 DEF NandTypes
    <3>2. 0 \in 0 .. Buffers /\ failures + 1 \in Nat
      BY <3>1, Sizes
    <3> QED BY <3>1, <3>2, Zenon
  <2> QED BY <1>0, <1>2, <1>3, <2>1 DEF NandTypes
<1>5. Reading'
  BY <1>1, <1>2 DEF Reading
<1>6. Accounting'
  <2>1. AllBuffers' = free
    BY <1>1, <1>2 DEF AllBuffers, Held
  <2>2. Cardinality(free \cup {t_buff}) = Cardinality(free) + 1 /\ Cardinality(free) \in Nat
    BY <1>1, FS_AddElement, FS_CardinalityType
  <2>3. Cardinality(free) = Buffers - Reserved - failures'
    <3>1. Cardinality(free) + 1 = Buffers - Reserved - failures /\ failures \in Nat
      BY <1>0, <1>1, <2>2 DEF Accounting, NandTypes
    <3> QED BY <1>2, <2>2, <3>1, Sizes
  <2>4. Cardinality(InHand(cmdq)) = 0
    BY <1>1, FS_EmptySet
  <2>5. failures' <= Lost(n_at')
    <3>1. failures <= Lost(n_at) /\ failures \in Nat /\ Lost(n_at) \in Nat
      BY <1>0 DEF Accounting, NandTypes, Lost
    <3> QED BY <1>2, <1>3, <3>1
  <2>6. t_buff' \notin free'
    BY <1>0, <1>2 DEF NandTypes, Buf
  <2> QED BY <1>1, <1>2, <1>3, <2>1, <2>3, <2>4, <2>5, <2>6 DEF Accounting
<1>7. Verified'
  BY <1>1, <1>2, <1>3 DEF Verified
<1> QED BY <1>4, <1>5, <1>6, <1>7 DEF NandInv

LEMMA ReadOkKeeps == NandInv /\ ReadOk => NandInv'
<1> SUFFICES ASSUME NandInv, ReadOk PROVE NandInv'
  OBVIOUS
<1> DEFINE equal == sram[t_buff] = Data(ThisLine.test, ThisPage)
<1>0. NandTypes /\ Reading /\ Accounting /\ Verified
  BY DEF NandInv
<1>1. /\ ~ NandDone /\ n_at \in ReadAt /\ n_at \notin EraseAt /\ cmdq = <<>> /\ ~ errq /\ t_buff \in Buf
      /\ sram[t_buff] = cell[ReadPage]
      /\ InHand(cmdq) = {} /\ Apart(cmdq) /\ Len(cmdq) = 0
      /\ AllBuffers = free \cup {t_buff} /\ t_buff \notin free /\ IsFiniteSet(free)
  BY AnswerFacts DEF ReadOk
<1>2. /\ smrdq' = FALSE /\ free' = free \cup {t_buff} /\ t_buff' = 0 /\ Verdict(equal)
      /\ UNCHANGED <<sram, cmdq, cell, errq, failures>>
  BY DEF ReadOk
<1> HIDE DEF equal
<1>3. Reading'
  BY <1>1, <1>2 DEF Reading
<1>4. AllBuffers' = AllBuffers
  BY <1>1, <1>2 DEF AllBuffers, Held
<1>5. Accounting'
  <2>1. n_at' \in 1 .. 16 /\ n_i' \in 1 .. SizeAt(n_at') /\ n_at' >= n_at /\ n_at \in 1 .. 15
    BY <1>0, <1>1, <1>2, PositionKept, ThisLineIs DEF Verdict
  <2>2. Lost(n_at') >= Lost(n_at) /\ Lost(n_at') \in Nat /\ Lost(n_at) \in Nat
    BY <2>1 DEF Lost
  <2>3. Posted(n_at', n_i') >= 0
    <3>1. CASE n_at' = 16
      BY <3>1 DEF Posted, ReadAt
    <3>2. CASE n_at' \in 1 .. 15
      BY <2>1, <3>2, PostedBound
    <3> QED BY <2>1, <3>1, <3>2
  <2>4. Cardinality(InHand(cmdq)) = 0
    BY <1>1, FS_EmptySet
  <2>5. failures' <= Lost(n_at')
    <3>1. failures <= Lost(n_at) /\ failures \in Nat
      BY <1>0 DEF Accounting, NandTypes
    <3> QED BY <1>2, <2>2, <3>1
  <2>6. t_buff' \notin free'
    BY <1>0, <1>1, <1>2 DEF NandTypes, Buf
  <2> QED BY <1>0, <1>1, <1>2, <1>4, <2>3, <2>4, <2>5, <2>6 DEF Accounting
<1>6. CASE ~ equal
  <2>0. Abandon /\ n_ret' = [n_ret EXCEPT ![ThisLine.test] = "fail"]
    BY <1>2, <1>6 DEF Verdict
  <2>1. /\ n_at' \in {6, 11, 16} /\ n_i' \in 1 .. SizeAt(n_at') /\ n_at' \in 1 .. 16
        /\ n_ret' \in [Tests -> {"none", "pass", "fail"}] /\ Checked' = {}
        /\ \A t \in Tests : n_at' = 5 * t + 1 => n_ret'[t] = "fail"
    BY <1>0, <1>1, <2>0, AbandonKeeps
  <2>2. NandTypes'
    <3>1. free' \subseteq Buf
      BY <1>0, <1>1, <1>2 DEF NandTypes
    <3>2. t_buff' \in 0 .. Buffers /\ smrdq' \in BOOLEAN
      <4>1. t_buff' = 0 /\ smrdq' = FALSE
        BY <1>2
      <4>2. 0 \in 0 .. Buffers
        BY Sizes
      <4> QED BY <4>1, <4>2, Zenon
    <3> QED BY <1>0, <1>2, <2>1, <3>1, <3>2 DEF NandTypes
  <2>3. Verified'
    BY <1>1, <1>2, <2>1 DEF Verified
  <2> QED BY <1>3, <1>5, <2>2, <2>3 DEF NandInv
<1>7. CASE equal
  <2>0. /\ NextPage
        /\ n_ret' = IF n_at' = 5 * ThisLine.test + 1
                    THEN [n_ret EXCEPT ![ThisLine.test] = "pass"] ELSE n_ret
    BY <1>2, <1>7 DEF Verdict
  <2>1. /\ n_at \in 1 .. 15 /\ n_i \in 1 .. SizeAt(n_at) /\ ThisLine.test = TestAt(n_at)
        /\ ThisPage = ReadPage /\ ReadPage \in Cell
    BY <1>0, <1>1, ThisLineIs
  <2>2. \/ n_i < SizeAt(n_at) /\ n_i' = n_i + 1 /\ n_at' = n_at
        \/ n_i = SizeAt(n_at) /\ n_i' = 1 /\ n_at' = n_at + 1
    BY <1>0, <1>1, <2>0, NextPageIs
  <2>3. cell'[ReadPage] = Data(TestAt(n_at), ReadPage) /\ cell' = cell
    BY <1>1, <1>2, <1>7, <2>1 DEF equal
  <2>4. NandTypes'
    <3>1. free' \subseteq Buf
      BY <1>0, <1>1, <1>2 DEF NandTypes
    <3>2. n_ret' \in [Tests -> {"none", "pass", "fail"}]
      BY <1>0, <2>0 DEF NandTypes
    <3>3. n_at' \in 1 .. 16 /\ n_i' \in 1 .. SizeAt(n_at')
      BY <1>0, <1>1, <2>0, PositionKept
    <3>4. t_buff' \in 0 .. Buffers /\ smrdq' \in BOOLEAN
      <4>1. t_buff' = 0 /\ smrdq' = FALSE
        BY <1>2
      <4>2. 0 \in 0 .. Buffers
        BY Sizes
      <4> QED BY <4>1, <4>2, Zenon
    <3> QED BY <1>0, <1>2, <3>1, <3>2, <3>3, <3>4 DEF NandTypes
  <2>5. \A d \in Checked \cup {ReadPage} : cell'[d] = Data(TestAt(n_at), d)
    BY <1>0, <2>3 DEF Verified
  <2>6. \A d \in Cell : /\ d[1] \in {0, 1} /\ d[2] \in 1 .. Unit /\ d[2] \in Nat /\ ~ (d[2] < 1)
                        /\ (d = ReadPage <=> d[1] = PlaneAt(n_at) /\ d[2] = n_i)
    <3> SUFFICES ASSUME NEW d \in Cell
                 PROVE  /\ d[1] \in {0, 1} /\ d[2] \in 1 .. Unit /\ d[2] \in Nat /\ ~ (d[2] < 1)
                        /\ (d = ReadPage <=> d[1] = PlaneAt(n_at) /\ d[2] = n_i)
      OBVIOUS
    <3>1. d = <<d[1], d[2]>> /\ d[1] \in {0, 1} /\ d[2] \in 1 .. Unit
      BY DEF Cell, Plane
    <3> QED BY <3>1, Sizes DEF ReadPage
  <2>7. Checked' \subseteq Checked \cup {ReadPage} /\ (Checked' # {} => TestAt(n_at') = TestAt(n_at))
    <3>0. n_i \in Nat /\ SizeAt(n_at) \in Nat
      BY <2>1, Sizes
    <3>1. CASE n_i' = n_i + 1 /\ n_at' = n_at
      <4>1. ASSUME NEW d \in Checked' PROVE d \in Checked \cup {ReadPage}
        BY <2>6, <3>0, <3>1, <4>1 DEF Checked
      <4> QED BY <3>1, <4>1
    <3>2. CASE n_i = SizeAt(n_at) /\ n_i' = 1 /\ n_at' = n_at + 1
      <4>1. CASE n_at \in {5, 10, 15}
        <5>1. Checked' = {}
          BY <3>2, <4>1 DEF Checked, ReadAt
        <5> QED BY <5>1
      <4>2. CASE n_at \in {8, 13}
        <5>1. SizeAt(n_at') = SizeAt(n_at) /\ PlaneAt(n_at) = 0 /\ TestAt(n_at') = TestAt(n_at)
              /\ n_at' \in {9, 14} /\ n_at' \notin ReadAt
          BY <3>2, <4>2 DEF SizeAt, EraseAt, PlaneAt, TestAt, ReadAt
        <5>2. ASSUME NEW d \in Checked' PROVE d \in Checked \cup {ReadPage}
          <6>1. d \in Cell /\ d[1] = 0 /\ d[2] <= SizeAt(n_at)
            BY <5>1, <5>2 DEF Checked
          <6>2. d[2] < n_i \/ d[2] = n_i
            BY <2>6, <3>0, <3>2, <6>1
          <6> QED BY <1>1, <2>6, <5>1, <6>1, <6>2 DEF Checked
        <5> QED BY <5>1, <5>2
      <4> QED BY <1>1, <4>1, <4>2 DEF ReadAt
    <3> QED BY <2>2, <3>1, <3>2
  <2>8. ASSUME NEW t \in Tests, n_at' = 5 * t + 1 PROVE Compared(t) \subseteq Checked \cup {ReadPage} /\ TestAt(n_at) = t
    <3>1. n_i = SizeAt(n_at) /\ n_at = 5 * t /\ n_i \in Nat
      <4>1. n_at \in {5, 8, 10, 13, 15} /\ t \in {1, 2, 3}
        BY <1>1 DEF ReadAt, Tests
      <4>2. n_at' # n_at
        BY <2>8, <4>1
      <4>3. n_i = SizeAt(n_at) /\ n_at' = n_at + 1
        BY <2>2, <4>2
      <4> QED BY <2>1, <2>8, <4>1, <4>3, Sizes
    <3>2. TestAt(n_at) = t /\ PlaneAt(n_at) = (IF t = 1 THEN 0 ELSE 1) /\ (t # 1 => n_at \in {9, 10, 14, 15})
      BY <3>1 DEF TestAt, PlaneAt, Tests
    <3>3. ASSUME NEW d \in Compared(t) PROVE d \in Checked \cup {ReadPage}
      <4>1. d \in Cell /\ d[2] <= SizeAt(n_at) /\ (t = 1 => d[1] = 0)
        BY <3>1 DEF Compared
      <4>2. d[2] < n_i \/ d[2] = n_i
        BY <2>6, <3>1, <4>1
      <4>3. CASE d[1] = PlaneAt(n_at)
        BY <1>1, <2>6, <4>1, <4>2, <4>3 DEF Checked
      <4>4. CASE d[1] # PlaneAt(n_at)
        BY <2>6, <3>2, <4>1, <4>4 DEF Checked
      <4> QED BY <4>3, <4>4
    <3> QED BY <3>2, <3>3
  <2>9. Verified'
    <3>1. \A d \in Checked' : cell'[d] = Data(TestAt(n_at'), d)
      BY <2>5, <2>7
    <3>2. \A t \in Tests : n_at' = 5 * t + 1 => \A d \in Compared(t) : cell'[d] = Data(t, d)
      BY <2>5, <2>8
    <3>3. Len(cmdq') = 0
      BY <1>1, <1>2
    <3> QED BY <3>1, <3>2, <3>3 DEF Verified, Compared
  <2> QED BY <1>3, <1>5, <2>4, <2>9 DEF NandInv
<1> QED BY <1>6, <1>7

-----------------------------------------------------------------------------
(* The controller.                                                         *)

(* What is so while the controller has a command, and what is left.        *)
LEMMA QueuedFacts ==
  ASSUME NandInv, cmdq # <<>>
  PROVE  /\ n_at \notin {6, 11, 16} /\ ~ errq /\ ~ smrdq
         /\ Head(cmdq) \in NCommand /\ Head(cmdq) = cmdq[1] /\ 1 \in 1 .. Len(cmdq)
         /\ Tail(cmdq) \in Seq(NCommand) /\ Apart(Tail(cmdq))
         /\ InHand(Tail(cmdq)) = IF Head(cmdq).op = "program"
                                 THEN InHand(cmdq) \ {Head(cmdq).buf} ELSE InHand(cmdq)
         /\ Cardinality(InHand(Tail(cmdq))) <= Posted(n_at, n_i)
         /\ \A k \in 1 .. Len(Tail(cmdq)) : /\ k + 1 \in 1 .. Len(cmdq) /\ k + 1 # 1
                                           /\ Tail(cmdq)[k] = cmdq[k + 1]
<1>1. NandTypes /\ Reading /\ Accounting
  BY DEF NandInv
<1>2. n_at \notin {6, 11, 16} /\ ~ errq /\ ~ smrdq
  BY <1>1 DEF Reading, Answered, Awaited
<1>3. cmdq \in Seq(NCommand) /\ Apart(cmdq)
  BY <1>1 DEF NandTypes, Accounting
<1>4. /\ Head(cmdq) \in NCommand /\ Head(cmdq) = cmdq[1]
      /\ Tail(cmdq) \in Seq(NCommand) /\ Apart(Tail(cmdq))
      /\ Len(Tail(cmdq)) = Len(cmdq) - 1 /\ Len(cmdq) \in Nat \ {0}
      /\ \A k \in 1 .. Len(cmdq) - 1 : Tail(cmdq)[k] = cmdq[k + 1]
      /\ InHand(Tail(cmdq)) = IF Head(cmdq).op = "program"
                              THEN InHand(cmdq) \ {Head(cmdq).buf} ELSE InHand(cmdq)
  BY <1>3, QueueTail
<1>5. \A k \in 1 .. Len(Tail(cmdq)) : /\ k + 1 \in 1 .. Len(cmdq) /\ k + 1 # 1
                                      /\ Tail(cmdq)[k] = cmdq[k + 1]
  BY <1>4
<1>6. Cardinality(InHand(Tail(cmdq))) <= Posted(n_at, n_i)
  <2>1. InHand(Tail(cmdq)) \in SUBSET InHand(cmdq) /\ IsFiniteSet(InHand(cmdq))
    BY <1>3, <1>4, QueueCount
  <2>2. IsFiniteSet(InHand(Tail(cmdq)))
        /\ Cardinality(InHand(Tail(cmdq))) <= Cardinality(InHand(cmdq))
    BY <2>1, FS_Subset
  <2>3. Cardinality(InHand(Tail(cmdq))) \in Nat /\ Cardinality(InHand(cmdq)) \in Nat
    BY <2>1, <2>2, FS_CardinalityType
  <2>4. Cardinality(InHand(cmdq)) <= Posted(n_at, n_i) /\ Posted(n_at, n_i) \in Nat
    <3>1. n_at \in 1 .. 15 /\ n_i \in 1 .. SizeAt(n_at)
      BY <1>1, <1>2 DEF NandTypes
    <3> QED BY <1>1, <3>1, PostedBound DEF Accounting
  <2> QED BY <2>2, <2>3, <2>4
<1>7. 1 \in 1 .. Len(cmdq)
  BY <1>4
<1> QED BY <1>2, <1>4, <1>5, <1>6, <1>7

(* A command that is not a read leaves the one that is awaited.            *)
LEMMA ReadingKept ==
  ASSUME NandInv, cmdq # <<>>, Head(cmdq).op # "read", cmdq' = Tail(cmdq),
         UNCHANGED <<n_at, n_i, t_buff, errq, smrdq>>
  PROVE  Reading'
<1>1. Reading /\ cmdq \in Seq(NCommand)
  BY DEF NandInv, NandTypes
<1>2. /\ n_at \notin {6, 11, 16} /\ ~ errq /\ ~ smrdq /\ Head(cmdq) = cmdq[1]
      /\ \A k \in 1 .. Len(Tail(cmdq)) : k + 1 \in 1 .. Len(cmdq) /\ Tail(cmdq)[k] = cmdq[k + 1]
  BY QueuedFacts
<1>3. Len(Tail(cmdq)) = Len(cmdq) - 1 /\ Len(cmdq) \in Nat \ {0} /\ Tail(cmdq) \in Seq(NCommand)
  BY <1>1, QueueTail
<1>4. CASE t_buff = 0
  BY <1>1, <1>2, <1>4 DEF Reading
<1>5. CASE t_buff # 0
  <2>1. n_at \in ReadAt /\ Awaited
    BY <1>1, <1>5 DEF Reading, Answered
  <2>2. Len(cmdq) # 1
    BY <1>2, <2>1 DEF Awaited
  <2>3. Len(Tail(cmdq)) \in 1 .. Len(Tail(cmdq)) /\ Tail(cmdq) # <<>>
        /\ Len(Tail(cmdq)) + 1 = Len(cmdq)
    <3>1. Len(Tail(cmdq)) \in 1 .. Len(Tail(cmdq)) /\ Len(Tail(cmdq)) + 1 = Len(cmdq)
      BY <1>3, <2>2
    <3>2. Tail(cmdq) # <<>>
      BY <1>3, <3>1, EmptySeq
    <3> QED BY <3>1, <3>2
  <2>4. Tail(cmdq)[Len(Tail(cmdq))] = cmdq[Len(cmdq)]
    BY <1>2, <2>3
  <2>5. ASSUME NEW k \in 1 .. Len(Tail(cmdq)) - 1 PROVE Tail(cmdq)[k].op # "read"
    <3>1. k \in 1 .. Len(Tail(cmdq)) /\ k + 1 \in 1 .. Len(cmdq) - 1
      BY <1>3
    <3> QED BY <1>2, <2>1, <3>1 DEF Awaited
  <2>6. ReadPage' = ReadPage
    BY DEF ReadPage
  <2>7. Awaited'
    BY <1>2, <2>1, <2>3, <2>4, <2>5, <2>6 DEF Awaited
  <2> QED BY <1>2, <1>5, <2>1, <2>7 DEF Reading
<1> QED BY <1>4, <1>5

(* No command touches a page that has been compared.                       *)
LEMMA VerifiedKept ==
  ASSUME NandInv, cmdq # <<>>, cmdq' = Tail(cmdq), UNCHANGED <<n_at, n_i>>,
         \A d \in Checked : cell'[d] = cell[d]
  PROVE  Verified'
<1>1. Verified
  BY DEF NandInv
<1>2. /\ n_at \notin {6, 11, 16}
      /\ \A k \in 1 .. Len(Tail(cmdq)) : k + 1 \in 1 .. Len(cmdq) /\ Tail(cmdq)[k] = cmdq[k + 1]
  BY QueuedFacts
<1>3. Checked' = Checked
  BY DEF Checked
<1>4. \A t \in Tests : n_at' # 5 * t + 1
  BY <1>2 DEF Tests
<1> QED BY <1>1, <1>2, <1>3, <1>4 DEF Verified

LEMMA NandDeviceKeeps == NandInv /\ NandDevice => NandInv'
<1> SUFFICES ASSUME NandInv, NandDevice PROVE NandInv'
  OBVIOUS
<1> DEFINE c == Head(cmdq)
<1>0. NandTypes /\ Reading /\ Accounting /\ Verified
  BY DEF NandInv
<1>1. /\ cmdq # <<>> /\ cmdq' = Tail(cmdq) /\ UNCHANGED <<n_at, n_i, t_buff, n_ret, failures>>
      /\ ExecErase(c) \/ ExecProgram(c) \/ ExecRead(c)
  BY DEF NandDevice
<1>2. /\ n_at \notin {6, 11, 16} /\ ~ errq /\ ~ smrdq
      /\ c \in NCommand /\ c = cmdq[1] /\ 1 \in 1 .. Len(cmdq)
      /\ Tail(cmdq) \in Seq(NCommand) /\ Apart(Tail(cmdq))
      /\ InHand(Tail(cmdq)) = IF c.op = "program" THEN InHand(cmdq) \ {c.buf} ELSE InHand(cmdq)
      /\ Cardinality(InHand(Tail(cmdq))) <= Posted(n_at, n_i)
  BY <1>1, QueuedFacts
<1> HIDE DEF c
<1>3. CASE ExecErase(c)
  <2>1. /\ c.op = "erase" /\ UNCHANGED <<free, sram, errq, smrdq>>
        /\ cell' \in {cell, [k \in Cell |-> IF k[1] \in c.planes THEN Erased ELSE cell[k]]}
    BY <1>3 DEF ExecErase
  <2>2. cell' \in [Cell -> NData]
    <3>1. Erased \in NData /\ cell \in [Cell -> NData]
      BY <1>0 DEF NData, NandTypes
    <3> QED BY <2>1, <3>1
  <2>3. NandTypes'
    BY <1>0, <1>1, <1>2, <2>1, <2>2 DEF NandTypes
  <2>4. Reading'
    BY <1>1, <2>1, ReadingKept DEF c
  <2>5. AllBuffers' = AllBuffers
    BY <1>1, <1>2, <2>1 DEF AllBuffers, Held
  <2>6. Accounting'
    BY <1>0, <1>1, <1>2, <2>1, <2>5 DEF Accounting
  <2>7. Verified'
    <3>1. Checked = {}
      BY <1>0, <1>2, <2>1 DEF Verified
    <3> QED BY <1>1, <3>1, VerifiedKept
  <2> QED BY <2>3, <2>4, <2>6, <2>7 DEF NandInv
<1>4. CASE ExecProgram(c)
  <2>1. /\ c.op = "program" /\ free' = free \cup {c.buf} /\ UNCHANGED <<sram, errq, smrdq>>
        /\ \E v \in {Bad} \cup (IF cell[c.cell] = Erased THEN {sram[c.buf]} ELSE {}) :
              cell' = [cell EXCEPT ![c.cell] = v]
    BY <1>4 DEF ExecProgram
  <2>2. c.cell \in Cell /\ c.buf \in Buf
    BY <1>2, <2>1 DEF NCommand
  <2>3. PICK v \in NData : cell' = [cell EXCEPT ![c.cell] = v]
    <3>1. sram[c.buf] \in NData /\ Bad \in NData
      BY <1>0, <2>2 DEF NandTypes, NData
    <3> QED BY <2>1, <3>1
  <2>4. c.buf \in InHand(cmdq)
    BY <1>2, <2>1 DEF InHand, Posts
  <2>5. NandTypes'
    <3>1. free' \subseteq Buf /\ cell' \in [Cell -> NData]
      BY <1>0, <2>1, <2>2, <2>3 DEF NandTypes
    <3> QED BY <1>0, <1>1, <1>2, <2>1, <3>1 DEF NandTypes
  <2>6. Reading'
    BY <1>1, <2>1, ReadingKept DEF c
  <2>7. AllBuffers' = AllBuffers
    BY <1>1, <1>2, <2>1, <2>4 DEF AllBuffers, Held
  <2>8. Accounting'
    <3>1. /\ free' \cap InHand(cmdq') = {} /\ t_buff' \notin free' /\ t_buff' \notin InHand(cmdq')
      BY <1>0, <1>1, <1>2, <2>1, <2>4 DEF Accounting
    <3> QED BY <1>0, <1>1, <1>2, <2>7, <3>1 DEF Accounting
  <2>9. Verified'
    <3>1. c.cell \notin Checked
      BY <1>0, <1>2, <2>1 DEF Verified
    <3>2. \A d \in Checked : cell'[d] = cell[d]
      <4>1. Checked \subseteq Cell /\ cell \in [Cell -> NData]
        BY <1>0 DEF Checked, NandTypes
      <4> QED BY <2>3, <3>1, <4>1
    <3> QED BY <1>1, <3>2, VerifiedKept
  <2> QED BY <2>5, <2>6, <2>8, <2>9 DEF NandInv
<1>5. CASE ExecRead(c)
  <2>1. /\ c.op = "read" /\ UNCHANGED <<free, cell>>
        /\ \/ sram' = [sram EXCEPT ![c.buf] = cell[c.cell]] /\ smrdq' = TRUE /\ UNCHANGED errq
           \/ errq' = TRUE /\ UNCHANGED <<sram, smrdq>>
    BY <1>5 DEF ExecRead
  <2>2. c.cell \in Cell /\ c.buf \in Buf
    BY <1>2, <2>1 DEF NCommand
  <2>3. n_at \in ReadAt /\ t_buff # 0 /\ Awaited
    BY <1>0, <1>1, <1>2, <2>1 DEF Reading, Answered
  <2>4. Len(cmdq) = 1 /\ c.cell = ReadPage /\ c.buf = t_buff
    <3>1. Len(cmdq) \in Nat
      BY <1>0 DEF NandTypes
    <3>2. Len(cmdq) = 1
      <4>1. \A k \in 1 .. Len(cmdq) - 1 : cmdq[k].op # "read"
        BY <2>3 DEF Awaited
      <4>2. 1 \notin 1 .. Len(cmdq) - 1
        BY <1>2, <2>1, <4>1
      <4>3. \A n \in Nat : 1 \in 1 .. n /\ 1 \notin 1 .. n - 1 => n = 1
        OBVIOUS
      <4>4. 1 \in 1 .. Len(cmdq)
        BY <1>2
      <4> HIDE DEF c
      <4> QED BY <3>1, <4>2, <4>3, <4>4
    <3> QED BY <1>2, <2>3, <3>2 DEF Awaited
  <2>5. cmdq' = <<>>
    <3>1. cmdq \in Seq(NCommand) /\ Len(Tail(cmdq)) = 0 /\ Tail(cmdq) \in Seq(NCommand)
      BY <1>0, <1>1, <2>4, QueueTail DEF NandTypes
    <3> QED BY <1>1, <3>1, EmptySeq
  <2>6. NandTypes'
    <3>1. sram' \in [Buf -> NData]
      BY <1>0, <2>1, <2>2 DEF NandTypes
    <3>2. errq' \in BOOLEAN /\ smrdq' \in BOOLEAN
      BY <1>0, <2>1 DEF NandTypes
    <3> QED BY <1>0, <1>1, <1>2, <2>1, <3>1, <3>2 DEF NandTypes
  <2>7. Reading'
    <3>1. ReadPage' = ReadPage
      BY <1>1 DEF ReadPage
    <3>2. smrdq' => sram'[t_buff] = cell'[ReadPage]
      BY <1>0, <1>2, <2>1, <2>2, <2>4 DEF NandTypes
    <3>3. Answered'
      BY <1>0, <1>1, <1>2, <2>1, <2>5, <3>1, <3>2 DEF Answered, NandTypes
    <3> QED BY <1>1, <1>2, <2>3, <3>3 DEF Reading
  <2>8. AllBuffers' = AllBuffers
    BY <1>1, <1>2, <2>1 DEF AllBuffers, Held
  <2>9. Accounting'
    BY <1>0, <1>1, <1>2, <2>1, <2>8 DEF Accounting
  <2>10. Verified'
    BY <1>1, <2>1, VerifiedKept
  <2> QED BY <2>6, <2>7, <2>9, <2>10 DEF NandInv
<1> QED BY <1>1, <1>3, <1>4, <1>5

-----------------------------------------------------------------------------
(* A step of the firmware is one of the tests, of the controller, or       *)
(* leaves both alone.                                                      *)
LEMMA NandSteps ==
  [FwNext]_fwVars => NandMain \/ BmuAnswers \/ NandDevice \/ UNCHANGED nandVars
<1>1. Main => NandMain \/ UNCHANGED nandVars
  BY DEF Main, Only
<1>2. Interrupts \/ I2c \/ Spi \/ SpiFifo \/ Blocks \/ Console => UNCHANGED nandVars
  BY DEF Interrupts, I2c, Spi, SpiFifo, Blocks, Console, Only
<1>3. (Nand => NandDevice) /\ (Bmu => BmuAnswers)
  BY DEF Nand, Bmu
<1>4. UNCHANGED fwVars => UNCHANGED nandVars
  BY DEF fwVars
<1> QED
  BY <1>1, <1>2, <1>3, <1>4 DEF FwNext

(* The invariant holds whatever the controller answers.                    *)
THEOREM NandInductive == FwSpec => []NandInv
<1>1. FwInit => NandInv
  BY NandInitInv DEF FwInit
<1>2. ASSUME NandInv,
             UNCHANGED <<n_at, n_i, t_buff, free, sram, cmdq, cell, errq, smrdq, n_ret, failures>>
      PROVE  NandInv'
  <2>1. ReadPage' = ReadPage /\ AllBuffers' = AllBuffers /\ Checked' = Checked
    BY <1>2 DEF ReadPage, AllBuffers, Held, Checked
  <2>2. NandTypes' /\ Reading'
    BY <1>2, <2>1 DEF NandInv, NandTypes, Reading, Answered, Awaited
  <2>3. Accounting' /\ Verified'
    BY <1>2, <2>1 DEF NandInv, Accounting, Verified
  <2> QED BY <2>2, <2>3 DEF NandInv
<1>a. Ask \/ UNCHANGED nandVars =>
        UNCHANGED <<n_at, n_i, t_buff, free, sram, cmdq, cell, errq, smrdq, n_ret, failures>>
  BY DEF Ask, nandVars
<1>3. NandInv /\ [FwNext]_fwVars => NandInv'
  BY <1>2, <1>a, NandSteps, PostEraseKeeps, PostProgramKeeps, PostFetchKeeps, ReadFailedKeeps,
     ReadOkKeeps, NandDeviceKeeps DEF NandMain, BmuAnswers
<1> QED BY <1>1, <1>3, PTL DEF FwSpec

(* No buffer is in two hands, and only a failed read loses one             *)
(* (test/test_nand.c:1336), for every number of buffers and every size of  *)
(* a unit.                                                                 *)
THEOREM BuffersKept == FwSpec => []BuffersAccounted
<1>1. NandInv => BuffersAccounted
  <2> SUFFICES ASSUME NandInv PROVE BuffersAccounted
    OBVIOUS
  <2>1. NandTypes /\ Accounting
    BY DEF NandInv
  <2>2. Programming = InHand(cmdq) /\ Queued = Posts(cmdq)
    BY DEF Programming, Queued, InHand, Posts
  <2>3. Cardinality(InHand(cmdq)) = Cardinality(Posts(cmdq))
    BY <2>1, QueueCount DEF NandTypes, Accounting
  <2>4. (free \cup Programming) \cup ({t_buff} \ {0}) = AllBuffers
    BY <2>2 DEF AllBuffers, Held
  <2> QED BY <2>1, <2>2, <2>3, <2>4 DEF BuffersAccounted, Accounting
<1> QED BY <1>1, NandInductive, PTL

(* A test that passes has compared the pages it names and they hold its    *)
(* data, though programs and reads are executed long after they were       *)
(* posted and may fail (test/test_nand.c:1295).                            *)
THEOREM PassMeansProgrammed == FwSpec => []NandVerdict
<1>1. NandInv => NandVerdict
  <2> SUFFICES ASSUME NandInv, NEW t \in Tests, n_ret[t] = "pass", n_at = 5 * t + 1,
                      NEW k \in Cell, k[2] <= NandScript[5 * t].size, t = 1 => k[1] = 0
               PROVE  cell[k] = Data(t, k)
    BY DEF NandVerdict
  <2>1. 5 * t \in 1 .. 15
    BY DEF Tests
  <2>2. k \in Compared(t)
    BY <2>1, NandLines DEF Compared
  <2> QED BY <2>2 DEF NandInv, Verified
<1> QED BY <1>1, NandInductive, PTL

-----------------------------------------------------------------------------
(* The receive ring of the UART, for every size and every alphabet: its    *)
(* invariant is inductive, and it implements the bounded FIFO.             *)

(* The indices of the ring go round.                                       *)
LEMMA SuccWraps ==
  ASSUME NEW i \in 0 .. Size - 1
  PROVE  Succ(i) = IF i = Size - 1 THEN 0 ELSE i + 1
<1>1. CASE i = Size - 1
  <2>1. Size % Size = 0
    BY SizeAssumption
  <2> QED BY <1>1, <2>1, SizeAssumption DEF Succ
<1>2. CASE i # Size - 1
  <2>1. i + 1 \in 0 .. Size - 1
    BY <1>2, SizeAssumption
  <2>2. (i + 1) % Size = i + 1
    BY <2>1, SizeAssumption
  <2> QED BY <1>2, <2>2 DEF Succ
<1> QED BY <1>1, <1>2

-----------------------------------------------------------------------------
LEMMA Starts == RingInit => RingInv
  BY SizeAssumption, ZeroAssumption
     DEF RingInit, RingInv, RingType, CountBehind, Used, InPop

(* Pushing a byte adds one to what is in the ring, and to recv_count.      *)
LEMMA PushKeeps ==
  ASSUME RingInv, NEW b \in Byte, Push(b)
  PROVE  RingInv' /\ Used' = Used + 1
<1> USE SizeAssumption DEF RingInv, RingType
<1>1. Succ(tail) = IF tail = Size - 1 THEN 0 ELSE tail + 1
  BY SuccWraps
<1>2. RingType'
  BY <1>1 DEF Push
<1>3. Used' = Used + 1
  BY <1>1 DEF Push, Used
<1>4. CountBehind'
  BY <1>3 DEF Push, CountBehind, InPop, Used
<1> QED BY <1>2, <1>3, <1>4

(* Popping a byte takes one from what is in the ring; the ring cannot be   *)
(* empty, since recv_count was not.                                        *)
LEMMA TakeKeeps ==
  ASSUME RingInv, Take
  PROVE  RingInv' /\ head # tail /\ Used' = Used - 1
<1> USE SizeAssumption DEF RingInv, RingType
<1>1. head # tail
  BY DEF Take, CountBehind, InPop, Used
<1>2. Succ(head) = IF head = Size - 1 THEN 0 ELSE head + 1
  BY SuccWraps
<1>3. RingType'
  BY <1>1, <1>2 DEF Take
<1>4. Used' = Used - 1
  BY <1>1, <1>2 DEF Take, Used
<1>5. CountBehind'
  BY <1>1, <1>4 DEF Take, CountBehind, InPop, Used
<1> QED BY <1>1, <1>3, <1>4, <1>5

(* The steps that only touch recv_count.                                   *)
LEMMA CountKeeps ==
  ASSUME RingInv, Begin \/ LoadCount \/ StoreCount
  PROVE  RingInv'
<1> USE SizeAssumption DEF RingInv, RingType, CountBehind, InPop, Used
<1>1. CASE Begin
  BY <1>1 DEF Begin
<1>2. CASE LoadCount
  BY <1>2 DEF LoadCount
<1>3. CASE StoreCount
  BY <1>3 DEF StoreCount
<1> QED BY <1>1, <1>2, <1>3

(* A step of the firmware is one of the ring or leaves it alone.           *)
LEMMA RingSteps == [FwNext]_fwVars => [RingNext]_ringVars
<1>1. Main \/ Interrupts \/ I2c \/ Spi \/ SpiFifo \/ Nand \/ Bmu \/ Blocks => UNCHANGED ringVars
  BY DEF Main, Interrupts, I2c, Spi, SpiFifo, Nand, Bmu, Blocks, Only
<1>2. Console => RingNext
  BY DEF Console
<1>3. UNCHANGED fwVars => UNCHANGED ringVars
  BY DEF fwVars
<1> QED
  BY <1>1, <1>2, <1>3 DEF FwNext

(* recv_count never exceeds the bytes in the ring, however the handler     *)
(* interrupts the decrement (drv/uart.c:67): the program never pops an     *)
(* empty ring, and recv_count never wraps below zero.                      *)
THEOREM RingInductive == FwSpec => []RingInv
<1>1. ASSUME RingInv, [RingNext]_ringVars PROVE RingInv'
  <2>1. CASE Take
    BY <1>1, <2>1, TakeKeeps
  <2>2. CASE Begin \/ LoadCount \/ StoreCount
    BY <1>1, <2>2, CountKeeps
  <2>3. ASSUME NEW b \in Byte, Push(b) PROVE RingInv'
    BY <1>1, <2>3, PushKeeps
  <2>4. CASE UNCHANGED ringVars
    BY <1>1, <2>4 DEF ringVars, RingInv, RingType, CountBehind, InPop, Used
  <2> QED BY <1>1, <2>1, <2>2, <2>3, <2>4 DEF RingNext, Pop
<1>2. FwInit => RingInit
  BY DEF FwInit
<1> QED BY <1>1, <1>2, Starts, RingSteps, PTL DEF FwSpec

-----------------------------------------------------------------------------
(* The contents of the ring as a sequence.                                 *)
LEMMA ContentsType ==
  ASSUME RingType
  PROVE  /\ Used \in 0 .. Size - 1
         /\ \A k \in 1 .. Used : Slot(k) \in 0 .. Size - 1
         /\ Contents \in Seq(Byte)
         /\ Len(Contents) = Used
<1> USE SizeAssumption DEF RingType
<1>1. Used \in 0 .. Size - 1
  BY DEF Used
<1>2. ASSUME NEW k \in 1 .. Used PROVE Slot(k) \in 0 .. Size - 1
  BY <1>1 DEF Slot
<1>3. Contents \in [1 .. Used -> Byte]
  BY <1>1, <1>2 DEF Contents
<1>4. Contents \in Seq(Byte) /\ Len(Contents) = Used
  BY <1>1, <1>3
<1> QED BY <1>1, <1>2, <1>4

(* The same as an implication, which holds of the next state as well.      *)
LEMMA ContentsSeq == RingType => Contents \in Seq(Byte) /\ Len(Contents) = Used
  BY ContentsType

LEMMA PushAppends ==
  ASSUME RingInv, NEW b \in Byte, Push(b)
  PROVE  Contents' = Append(Contents, b) /\ Len(Contents) < Size - 1
<1> USE SizeAssumption DEF RingInv, RingType
<1>1. Succ(tail) = IF tail = Size - 1 THEN 0 ELSE tail + 1
  BY SuccWraps
<1>2. RingType' /\ Used' = Used + 1
  BY PushKeeps
<1>3. Used \in 0 .. Size - 1 /\ Len(Contents) = Used /\ Contents \in Seq(Byte)
  BY ContentsType
<1>4. Used < Size - 1
  BY <1>1 DEF Push, Used
<1>5. ASSUME NEW k \in 1 .. Used
      PROVE  Contents'[k] = Contents[k]
  <2>1. Slot(k)' = Slot(k) /\ Slot(k) \in 0 .. Size - 1
    BY <1>3, ContentsType DEF Push, Slot
  <2>2. Slot(k) # tail
    BY <1>3 DEF Slot, Used
  <2>3. k \in 1 .. Used'
    BY <1>2, <1>3
  <2> QED BY <2>1, <2>2, <2>3 DEF Push, Contents
<1>6. ASSUME NEW k, k = Used + 1
      PROVE  Contents'[k] = b
  <2>1. Slot(k)' = tail
    BY <1>3, <1>4, <1>6 DEF Push, Slot, Used
  <2>2. k \in 1 .. Used'
    BY <1>2, <1>3, <1>6
  <2> QED BY <2>1, <2>2 DEF Push, Contents
<1>7. Contents' \in Seq(Byte) /\ Len(Contents)' = Used + 1
  <2>1. (RingType => Contents \in Seq(Byte) /\ Len(Contents) = Used)'
    BY ContentsSeq, PTL
  <2> QED BY <1>2, <2>1
<1>8. /\ Append(Contents, b) \in Seq(Byte)
      /\ Len(Append(Contents, b)) = Used + 1
      /\ \A k \in 1 .. Used : Append(Contents, b)[k] = Contents[k]
      /\ Append(Contents, b)[Used + 1] = b
  BY <1>3, AppendProperties
<1>9. ASSUME NEW k \in 1 .. Used + 1
      PROVE  Contents'[k] = Append(Contents, b)[k]
  <2>1. CASE k = Used + 1
    BY <2>1, <1>6, <1>8
  <2>2. CASE k # Used + 1
    BY <2>2, <1>3, <1>5, <1>8
  <2> QED BY <2>1, <2>2
<1>10. Contents' = Append(Contents, b)
  BY <1>7, <1>8, <1>9, SeqEqual
<1> QED BY <1>3, <1>4, <1>10

LEMMA TakeTakesHead ==
  ASSUME RingInv, Take
  PROVE  /\ Contents # <<>>
         /\ data' = Head(Contents)
         /\ Contents' = Tail(Contents)
<1> USE SizeAssumption DEF RingInv, RingType
<1>1. head # tail /\ Used' = Used - 1
  BY TakeKeeps
<1>2. Succ(head) = IF head = Size - 1 THEN 0 ELSE head + 1
  BY SuccWraps
<1>3. Used \in 1 .. Size - 1 /\ Len(Contents) = Used /\ Contents \in Seq(Byte)
  BY <1>1, ContentsType DEF Used
<1>4. Contents # <<>>
  BY <1>3
<1>5. data' = Head(Contents)
  <2>1. Head(Contents) = Contents[1]
    BY <1>3
  <2>2. Slot(1) = head
    BY DEF Slot
  <2> QED BY <1>1, <1>3, <2>1, <2>2 DEF Take, Contents
<1>6. ASSUME NEW k \in 1 .. Used - 1
      PROVE  Contents'[k] = Contents[k + 1]
  <2>1. Slot(k)' = Slot(k + 1)
    BY <1>1, <1>2, <1>3 DEF Take, Slot
  <2>2. k + 1 \in 1 .. Used /\ k \in 1 .. Used'
    BY <1>1, <1>3
  <2> QED BY <2>1, <2>2 DEF Take, Contents
<1>7. Contents' \in Seq(Byte) /\ Len(Contents)' = Used - 1
  <2>1. RingType'
    BY TakeKeeps
  <2>2. (RingType => Contents \in Seq(Byte) /\ Len(Contents) = Used)'
    BY ContentsSeq, PTL
  <2> QED BY <1>1, <2>1, <2>2
<1>8. /\ Tail(Contents) \in Seq(Byte)
      /\ Len(Tail(Contents)) = Used - 1
      /\ \A k \in 1 .. Used - 1 : Tail(Contents)[k] = Contents[k + 1]
  BY <1>3, <1>4, HeadTailProperties
<1>9. Contents' = Tail(Contents)
  BY <1>6, <1>7, <1>8, SeqEqual
<1> QED BY <1>4, <1>5, <1>9

(* What the driver does with head, tail and recv_count is a first-in       *)
(* first-out buffer of Size - 1 bytes.                                     *)
THEOREM RingRefinesFifo == FwSpec => RingImplementsFifo
<1>1. RingInit => Fifo!Init
  <2> SUFFICES ASSUME RingInit PROVE Fifo!Init
    OBVIOUS
  <2>1. RingType /\ Used = 0
    BY Starts DEF RingInit, RingInv, Used
  <2>2. Contents \in Seq(Byte) /\ Len(Contents) = 0
    BY <2>1, ContentsType
  <2>3. Contents = <<>>
    BY <2>2
  <2> QED BY <2>3 DEF RingInit, Fifo!Init
<1>2. ASSUME RingInv, [RingNext]_ringVars PROVE [Fifo!Next]_Fifo!vars
  <2> USE DEF Fifo!Next, Fifo!vars
  <2>1. CASE Take
    BY <1>2, <2>1, TakeTakesHead DEF Fifo!Get
  <2>2. ASSUME NEW b \in Byte, Push(b) PROVE Fifo!Next
    <3>1. Contents' = Append(Contents, b) /\ Len(Contents) < Size - 1
      BY <1>2, <2>2, PushAppends
    <3>2. data' = data
      BY <2>2 DEF Push
    <3>3. Fifo!Put(b)
      BY <3>1, <3>2 DEF Fifo!Put
    <3> QED BY <3>3
  <2>3. CASE Begin \/ LoadCount \/ StoreCount \/ UNCHANGED ringVars
    <3>1. head' = head /\ tail' = tail /\ recv_data' = recv_data /\ data' = data
      BY <2>3 DEF Begin, LoadCount, StoreCount, ringVars
    <3>2. Contents' = Contents
      BY <3>1 DEF Contents, Used, Slot
    <3> QED BY <3>1, <3>2
  <2> QED BY <1>2, <2>1, <2>2, <2>3 DEF RingNext, Pop
<1>3. FwInit => RingInit
  BY DEF FwInit
<1> QED BY <1>1, <1>2, <1>3, RingInductive, RingSteps, PTL
        DEF FwSpec, RingImplementsFifo, Fifo!Spec

-----------------------------------------------------------------------------
(* The lists of blocks that fv_ers_build makes.                            *)

(* The blocks seen so far that are flist, and the others.                   *)
FreeBlocks == {b \in 1 .. blk - 1 : blk_type[b] = "FREE_BLK"}
Others == (1 .. blk - 1) \ FreeBlocks
NumOthers == blk - 1 - fblk_num

(* A list: f are its blocks, those of S, in ascending order.               *)
Rising(f, n, S) ==
  /\ n \in Nat /\ f \in [1 .. n -> S]
  /\ \A i, j \in 1 .. n : i < j => f[i] < f[j]
  /\ \A s \in S : \E k \in 1 .. n : f[k] = s

Linked(next, f, n, start, end) ==
  /\ \A k \in 2 .. n : next[f[k - 1]] = f[k]
  /\ n > 0 => start = f[1] /\ end = f[n]
  /\ n = 0 => start = DBLK_INVLD

IsList(next, n, S, start, end) == \E f : Rising(f, n, S) /\ Linked(next, f, n, start, end)

(* The types: the block after the last free one is skipped.                *)
TypesInv ==
  /\ \A b \in blk .. RBLK_QNTY : blk_type[b] # "FREE_BLK"
  /\ \A b \in 1 .. RBLK_QNTY :
       blk_type[b] = "BAD_BLK" <=>
         \/ b \in Others /\ (fblk_num = VBLK_QNTY => b # fblk_end + 1)
         \/ fblk_num = VBLK_QNTY /\ b = blk /\ b > fblk_end + 1

Pointers == [0 .. RBLK_QNTY - 1 -> Nat \cup {DBLK_INVLD}]

BlockType ==
  /\ blk \in 1 .. RBLK_QNTY
  /\ fblk_num \in 0 .. VBLK_QNTY
  /\ next_ptr \in Pointers
  /\ blk_type \in [1 .. RBLK_QNTY -> {"none", "FREE_BLK", "BAD_BLK"}]

BlockInv ==
  /\ BlockType
  /\ IsList(next_ptr, fblk_num, FreeBlocks, fblk_str, fblk_end)
  /\ IsList(next_ptr, NumOthers, Others, bblk_str, bblk_end)
  /\ NumOthers > 0 => next_ptr[bblk_end] = DBLK_INVLD
  /\ TypesInv
  /\ FreeBlocks \subseteq good /\ good \subseteq 1 .. blk - 1
  /\ blk > 1 => sts_fail = {}
  /\ fblk_num < VBLK_QNTY => good \ FreeBlocks \subseteq {1}

LEMMA BlockInitInv == BlockInit => BlockInv
<1> SUFFICES ASSUME BlockInit PROVE BlockInv
  OBVIOUS
<1> USE BlockAssumption DEF BlockInit
<1>1. FreeBlocks = {} /\ Others = {} /\ NumOthers = 0
  BY DEF FreeBlocks, Others, NumOthers
<1>2. Rising(<<>>, 0, {})
  BY DEF Rising
<1>3. Linked(next_ptr, <<>>, 0, fblk_str, fblk_end) /\ Linked(next_ptr, <<>>, 0, bblk_str, bblk_end)
  BY DEF Linked
<1>4. BlockType
  BY DEF BlockType, Pointers
<1>5. TypesInv
  BY <1>1 DEF TypesInv
<1> QED BY <1>1, <1>2, <1>3, <1>4, <1>5 DEF BlockInv, IsList

(* A list grows at its end.                                                *)
Longer(f, n, b) == [k \in 1 .. n + 1 |-> IF k = n + 1 THEN b ELSE f[k]]

LEMMA ListGrows ==
  ASSUME NEW n, NEW S, NEW f, NEW b \in Nat, Rising(f, n, S), \A s \in S : s \in Nat /\ s < b
  PROVE  Rising(Longer(f, n, b), n + 1, S \cup {b})
<1> DEFINE g == Longer(f, n, b)
<1>1. \A k \in 1 .. n : g[k] = f[k] /\ k # n + 1 /\ k \in 1 .. n + 1
  BY DEF Longer, Rising
<1>2. g[n + 1] = b /\ n + 1 \in 1 .. n + 1
  BY DEF Longer, Rising
<1>3. \A k \in 1 .. n + 1 : k \in 1 .. n \/ k = n + 1
  BY DEF Rising
<1>4. g \in [1 .. n + 1 -> S \cup {b}]
  BY DEF Longer, Rising
<1> HIDE DEF g
<1>5. ASSUME NEW i \in 1 .. n + 1, NEW j \in 1 .. n + 1, i < j PROVE g[i] < g[j]
  <2>1. i \in 1 .. n
    BY <1>5 DEF Rising
  <2>2. CASE j \in 1 .. n
    BY <2>1, <2>2, <1>1, <1>5 DEF Rising
  <2>3. CASE j = n + 1
    <3>1. f[i] \in S
      BY <2>1 DEF Rising
    <3> QED BY <2>1, <2>3, <3>1, <1>1, <1>2
  <2> QED BY <1>3, <2>2, <2>3
<1>6. ASSUME NEW s \in S \cup {b} PROVE \E k \in 1 .. n + 1 : g[k] = s
  <2>1. CASE s = b
    BY <2>1, <1>2
  <2>2. CASE s \in S
    BY <2>2, <1>1 DEF Rising
  <2> QED BY <2>1, <2>2
<1>7. n + 1 \in Nat
  BY DEF Rising
<1> QED BY <1>4, <1>5, <1>6, <1>7 DEF Rising, g

(* What is in the lists at any time.                                       *)
LEMMA ListFacts ==
  ASSUME NEW next, NEW n, NEW S, NEW f, NEW start, NEW end, \A s \in S : s \in 0 .. RBLK_QNTY /\ s \in Nat,
         Rising(f, n, S), Linked(next, f, n, start, end)
  PROVE  /\ n > 0 => end \in S /\ \A k \in 1 .. n - 1 : f[k] # end
         /\ start = DBLK_INVLD <=> n = 0
<1>1. CASE n = 0
  BY <1>1 DEF Rising, Linked
<1>2. CASE n > 0
  <2>1. n \in 1 .. n /\ 1 \in 1 .. n /\ n \in Nat
    BY <1>2 DEF Rising
  <2>2. end = f[n] /\ start = f[1] /\ f[n] \in S /\ f[1] \in S
    BY <1>2, <2>1 DEF Rising, Linked
  <2>3. ASSUME NEW k \in 1 .. n - 1 PROVE f[k] # end
    <3>1. k \in 1 .. n /\ k < n
      BY <2>1
    <3>2. f[k] < f[n] /\ f[k] \in S
      BY <2>1, <3>1 DEF Rising
    <3>3. f[k] \in Nat /\ f[n] \in Nat
      BY <2>2, <3>2, BlockAssumption
    <3> QED BY <2>2, <3>2, <3>3
  <2>4. start # DBLK_INVLD
    BY <2>2, BlockAssumption
  <2> QED BY <1>2, <2>2, <2>3, <2>4
<1> QED BY <1>1, <1>2 DEF Rising

(* A list that is not touched stays.                                       *)
LEMMA ListStays ==
  ASSUME NEW next, NEW later, NEW n, NEW S, NEW start, NEW end,
         IsList(next, n, S, start, end), \A s \in S : later[s] = next[s]
  PROVE  IsList(later, n, S, start, end)
<1>1. PICK f : Rising(f, n, S) /\ Linked(next, f, n, start, end)
  BY DEF IsList
<1>2. ASSUME NEW k \in 2 .. n PROVE later[f[k - 1]] = f[k]
  <2>1. k - 1 \in 1 .. n
    BY <1>1 DEF Rising
  <2>2. f[k - 1] \in S
    BY <1>1, <2>1 DEF Rising
  <2> QED BY <1>1, <2>2 DEF Linked
<1>3. Linked(later, f, n, start, end)
  BY <1>1, <1>2 DEF Linked
<1> QED BY <1>1, <1>3 DEF IsList

(* A block after all others is linked to the end of a list.                *)
LEMMA ListLinked ==
  ASSUME NEW next, NEW later, NEW n, NEW S, NEW start, NEW end, NEW b \in Nat,
         \A s \in S : s \in 0 .. RBLK_QNTY /\ s \in Nat, \A s \in S : s < b,
         IsList(next, n, S, start, end),
         \A s \in S : later[s] = IF s = end THEN b ELSE next[s]
  PROVE  IsList(later, n + 1, S \cup {b}, IF start = DBLK_INVLD THEN b ELSE start, b)
<1>1. PICK f : Rising(f, n, S) /\ Linked(next, f, n, start, end)
  BY DEF IsList
<1> DEFINE g == Longer(f, n, b)
           first == IF start = DBLK_INVLD THEN b ELSE start
<1>2. Rising(g, n + 1, S \cup {b})
  BY <1>1, ListGrows, BlockAssumption
<1>3. n \in Nat /\ \A k \in 1 .. n : f[k] \in S
  BY <1>1 DEF Rising
<1>4. /\ n > 0 => end \in S /\ f[n] = end /\ \A k \in 1 .. n - 1 : f[k] # end
      /\ start = DBLK_INVLD <=> n = 0
      /\ n > 0 => start = f[1]
  <2>1. /\ n > 0 => end \in S /\ \A k \in 1 .. n - 1 : f[k] # end
        /\ start = DBLK_INVLD <=> n = 0
    BY <1>1, ListFacts
  <2> QED BY <1>1, <2>1 DEF Linked
<1>5. \A k \in 1 .. n : g[k] = f[k]
  BY <1>3 DEF Longer
<1>6. g[n + 1] = b
  BY <1>3 DEF Longer
<1> HIDE DEF g
<1>7. ASSUME NEW k \in 2 .. n + 1 PROVE later[g[k - 1]] = g[k]
  <2>1. k - 1 \in 1 .. n /\ (k - 1 = n => k = n + 1)
    BY <1>3
  <2>2. g[k - 1] = f[k - 1] /\ f[k - 1] \in S
    BY <1>3, <1>5, <2>1
  <2>3. CASE k - 1 = n
    <3>1. f[k - 1] = end /\ g[k] = b
      BY <1>3, <1>4, <1>6, <2>1, <2>3
    <3> QED BY <2>2, <3>1
  <2>4. CASE k - 1 # n
    <3>1. k - 1 \in 1 .. n - 1 /\ k \in 2 .. n /\ k \in 1 .. n /\ n > 0
      BY <1>3, <2>1, <2>4
    <3>2. f[k - 1] # end /\ g[k] = f[k] /\ next[f[k - 1]] = f[k]
      BY <1>1, <1>4, <1>5, <3>1 DEF Linked
    <3> QED BY <2>2, <3>2
  <2> QED BY <2>3, <2>4
<1>8. n + 1 > 0 /\ n + 1 # 0 /\ 1 \in 1 .. n + 1
  BY <1>3
<1>9. first = g[1]
  <2>1. CASE n = 0
    BY <2>1, <1>4, <1>6
  <2>2. CASE n # 0
    BY <2>2, <1>3, <1>4, <1>5
  <2> QED BY <2>1, <2>2
<1>10. Linked(later, g, n + 1, first, b)
  BY <1>6, <1>7, <1>8, <1>9 DEF Linked
<1> QED BY <1>2, <1>10 DEF IsList

(* The free blocks, the others and their lists, before a step.             *)
LEMMA Lists ==
  ASSUME BlockInv
  PROVE  /\ blk \in 1 .. RBLK_QNTY /\ blk \in Nat /\ fblk_num \in Nat
         /\ \A s \in FreeBlocks : s \in 0 .. RBLK_QNTY /\ s \in Nat /\ s < blk
         /\ \A s \in Others : s \in 0 .. RBLK_QNTY /\ s \in Nat /\ s < blk
         /\ fblk_num > 0 => fblk_end \in FreeBlocks
         /\ NumOthers > 0 => bblk_end \in Others
         /\ fblk_str = DBLK_INVLD <=> fblk_num = 0
         /\ bblk_str = DBLK_INVLD <=> NumOthers = 0
         /\ NumOthers \in Nat
<1>1. blk \in 1 .. RBLK_QNTY /\ blk \in Nat /\ fblk_num \in Nat
  BY BlockAssumption DEF BlockInv, BlockType
<1>2. \A s \in FreeBlocks : s \in 0 .. RBLK_QNTY /\ s \in Nat /\ s < blk
  BY <1>1, BlockAssumption DEF FreeBlocks
<1>3. \A s \in Others : s \in 0 .. RBLK_QNTY /\ s \in Nat /\ s < blk
  BY <1>1, BlockAssumption DEF Others
<1>4. PICK f : Rising(f, fblk_num, FreeBlocks) /\ Linked(next_ptr, f, fblk_num, fblk_str, fblk_end)
  BY DEF BlockInv, IsList
<1>5. PICK g : Rising(g, NumOthers, Others) /\ Linked(next_ptr, g, NumOthers, bblk_str, bblk_end)
  BY DEF BlockInv, IsList
<1>6. /\ fblk_num > 0 => fblk_end \in FreeBlocks
      /\ fblk_str = DBLK_INVLD <=> fblk_num = 0
  BY <1>2, <1>4, ListFacts
<1>7. /\ NumOthers > 0 => bblk_end \in Others
      /\ bblk_str = DBLK_INVLD <=> NumOthers = 0
  BY <1>3, <1>5, ListFacts
<1>8. NumOthers \in Nat
  BY <1>5 DEF Rising
<1> QED BY <1>1, <1>2, <1>3, <1>6, <1>7, <1>8

(* The block is linked to the list of bad blocks.                          *)
LEMMA LinkBadKeeps ==
  ASSUME BlockInv, blk < RBLK_QNTY, LinkBad,
         UNCHANGED <<fblk_str, fblk_end, fblk_num>>
  PROVE  /\ next_ptr' \in Pointers
         /\ IsList(next_ptr', fblk_num, FreeBlocks, fblk_str, fblk_end)
         /\ IsList(next_ptr', NumOthers + 1, Others \cup {blk}, bblk_str', bblk_end')
         /\ next_ptr'[bblk_end'] = DBLK_INVLD
<1>1. /\ blk \in 1 .. RBLK_QNTY - 1 /\ DOMAIN next_ptr = 0 .. RBLK_QNTY - 1
      /\ \A s \in FreeBlocks \cup Others : s \in DOMAIN next_ptr /\ s # blk
      /\ blk \in DOMAIN next_ptr /\ blk \in Nat
  BY Lists, BlockAssumption DEF BlockInv, BlockType, Pointers
<1>2. next_ptr' \in Pointers /\ next_ptr'[blk] = DBLK_INVLD
  <2>0. next_ptr \in Pointers
    BY DEF BlockInv, BlockType
  <2> DEFINE Next(b) == CASE b = blk -> DBLK_INVLD
                          [] b = bblk_end /\ bblk_str # DBLK_INVLD -> blk
                          [] OTHER -> next_ptr[b]
  <2>1. next_ptr' = [b \in 0 .. RBLK_QNTY - 1 |-> Next(b)]
    BY <1>1 DEF LinkBad
  <2>2. ASSUME NEW b \in 0 .. RBLK_QNTY - 1 PROVE Next(b) \in Nat \cup {DBLK_INVLD}
    BY <1>1, <2>0 DEF Pointers
  <2>3. Next(blk) = DBLK_INVLD
    <3>1. ~ (blk = bblk_end /\ bblk_str # DBLK_INVLD)
      BY <1>1, Lists
    <3> QED BY <3>1
  <2> HIDE DEF Next
  <2> QED BY <1>1, <2>1, <2>2, <2>3 DEF Pointers
<1>3. bblk_str # DBLK_INVLD => bblk_end \in Others
  BY Lists
<1>4. FreeBlocks \cap Others = {}
  BY DEF Others
<1>5. ASSUME NEW s \in FreeBlocks PROVE next_ptr'[s] = next_ptr[s]
  BY <1>1, <1>3, <1>4 DEF LinkBad
<1>6. ASSUME NEW s \in Others PROVE next_ptr'[s] = IF s = bblk_end THEN blk ELSE next_ptr[s]
  <2>1. bblk_str # DBLK_INVLD
    <3>1. PICK g : Rising(g, NumOthers, Others)
      BY DEF BlockInv, IsList
    <3>2. PICK k \in 1 .. NumOthers : g[k] = s
      BY <3>1 DEF Rising
    <3>3. NumOthers # 0
      BY <3>2, Lists
    <3> QED BY <3>3, Lists
  <2> QED BY <1>1, <2>1 DEF LinkBad
<1>7. IsList(next_ptr', fblk_num, FreeBlocks, fblk_str, fblk_end)
  BY <1>5, ListStays DEF BlockInv
<1>8. IsList(next_ptr', NumOthers + 1, Others \cup {blk}, bblk_str', bblk_end')
  <2>1. bblk_str' = (IF bblk_str = DBLK_INVLD THEN blk ELSE bblk_str) /\ bblk_end' = blk
    BY DEF LinkBad
  <2>2. IsList(next_ptr, NumOthers, Others, bblk_str, bblk_end)
    BY DEF BlockInv
  <2>3. blk \in Nat /\ \A s \in Others : s \in 0 .. RBLK_QNTY /\ s \in Nat /\ s < blk
    BY Lists
  <2>4. IsList(next_ptr', NumOthers + 1, Others \cup {blk},
               IF bblk_str = DBLK_INVLD THEN blk ELSE bblk_str, blk)
    BY <1>6, <2>2, <2>3, ListLinked
  <2> QED BY <2>1, <2>4
<1>9. bblk_end' = blk
  BY DEF LinkBad
<1> QED BY <1>2, <1>7, <1>8, <1>9

(* The block is linked to the list of free blocks.                         *)
LEMMA LinkFreeKeeps ==
  ASSUME BlockInv, blk < RBLK_QNTY, LinkFree,
         UNCHANGED <<bblk_str, bblk_end>>
  PROVE  /\ next_ptr' \in Pointers
         /\ IsList(next_ptr', NumOthers, Others, bblk_str, bblk_end)
         /\ IsList(next_ptr', fblk_num + 1, FreeBlocks \cup {blk}, fblk_str', fblk_end')
         /\ NumOthers > 0 => next_ptr'[bblk_end] = DBLK_INVLD
<1>1. /\ blk \in 1 .. RBLK_QNTY - 1 /\ DOMAIN next_ptr = 0 .. RBLK_QNTY - 1
      /\ \A s \in FreeBlocks \cup Others : s \in DOMAIN next_ptr /\ s # blk
      /\ blk \in DOMAIN next_ptr /\ blk \in Nat
  BY Lists, BlockAssumption DEF BlockInv, BlockType, Pointers
<1>2. next_ptr' \in Pointers
  <2>0. next_ptr \in Pointers
    BY DEF BlockInv, BlockType, Pointers
  <2> QED BY <1>1, <2>0 DEF LinkFree, Pointers
<1>3. fblk_str # DBLK_INVLD => fblk_end \in FreeBlocks
  BY Lists
<1>4. FreeBlocks \cap Others = {}
  BY DEF Others
<1>5. ASSUME NEW s \in Others PROVE next_ptr'[s] = next_ptr[s]
  <2>0. next_ptr \in Pointers
    BY DEF BlockInv, BlockType, Pointers
  <2> QED BY <2>0, <1>1, <1>3, <1>4 DEF LinkFree, Pointers
<1>6. ASSUME NEW s \in FreeBlocks PROVE next_ptr'[s] = IF s = fblk_end THEN blk ELSE next_ptr[s]
  <2>0. next_ptr \in Pointers
    BY DEF BlockInv, BlockType
  <2>1. fblk_str # DBLK_INVLD
    <3>1. PICK g : Rising(g, fblk_num, FreeBlocks)
      BY DEF BlockInv, IsList
    <3>2. PICK k \in 1 .. fblk_num : g[k] = s
      BY <3>1 DEF Rising
    <3>3. fblk_num # 0
      BY <3>2, Lists
    <3> QED BY <3>3, Lists
  <2> QED BY <1>1, <2>0, <2>1 DEF LinkFree, Pointers
<1>7. IsList(next_ptr', NumOthers, Others, bblk_str, bblk_end)
  BY <1>5, ListStays DEF BlockInv
<1>8. IsList(next_ptr', fblk_num + 1, FreeBlocks \cup {blk}, fblk_str', fblk_end')
  <2>1. fblk_str' = (IF fblk_str = DBLK_INVLD THEN blk ELSE fblk_str) /\ fblk_end' = blk
    BY DEF LinkFree
  <2>2. IsList(next_ptr, fblk_num, FreeBlocks, fblk_str, fblk_end)
    BY DEF BlockInv
  <2>3. blk \in Nat /\ \A s \in FreeBlocks : s \in 0 .. RBLK_QNTY /\ s \in Nat /\ s < blk
    BY Lists
  <2>4. IsList(next_ptr', fblk_num + 1, FreeBlocks \cup {blk},
               IF fblk_str = DBLK_INVLD THEN blk ELSE fblk_str, blk)
    BY <1>6, <2>2, <2>3, ListLinked
  <2> QED BY <2>1, <2>4
<1>9. NumOthers > 0 => next_ptr'[bblk_end] = DBLK_INVLD
  BY <1>5, Lists DEF BlockInv
<1> QED BY <1>2, <1>7, <1>8, <1>9

(* A step that takes the next block.                                       *)
LEMMA BuildKeeps == BlockInv /\ Build => BlockInv'
<1> SUFFICES ASSUME BlockInv, Build PROVE BlockInv'
  OBVIOUS
<1>0. PICK failed \in SUBSET Die :
        IF failed \cup sts_fail = {}
        THEN /\ LinkFree
             /\ blk_type' = [blk_type EXCEPT ![blk] = "FREE_BLK"]
             /\ good' = good \cup {blk}
             /\ UNCHANGED <<bblk_str, bblk_end>>
        ELSE /\ LinkBad
             /\ blk_type' = [blk_type EXCEPT ![blk] = "BAD_BLK"]
             /\ good' = IF failed = {} THEN good \cup {blk} ELSE good
             /\ UNCHANGED <<fblk_str, fblk_end, fblk_num>>
  BY DEF Build
<1>1. /\ blk \in 1 .. RBLK_QNTY - 1 /\ blk \in Nat /\ fblk_num \in 0 .. VBLK_QNTY - 1
      /\ RBLK_QNTY \in Nat /\ VBLK_QNTY \in Nat /\ fblk_num \in Nat /\ VBLK_QNTY > 0
      /\ blk' = blk + 1 /\ sts_fail' = {} /\ blk' \in 1 .. RBLK_QNTY /\ blk' > 1
  BY BlockAssumption DEF Build, BlocksDone, BlockInv, BlockType
<1>2. /\ blk_type \in [1 .. RBLK_QNTY -> {"none", "FREE_BLK", "BAD_BLK"}]
      /\ \A b \in blk .. RBLK_QNTY : blk_type[b] # "FREE_BLK"
      /\ \A b \in 1 .. RBLK_QNTY : blk_type[b] = "BAD_BLK" <=> b \in Others
  BY <1>1 DEF BlockInv, BlockType, TypesInv
<1>3. CASE failed \cup sts_fail = {}
  <2>1. /\ LinkFree
        /\ blk_type' = [blk_type EXCEPT ![blk] = "FREE_BLK"]
        /\ good' = good \cup {blk}
        /\ UNCHANGED <<bblk_str, bblk_end>>
    BY <1>0, <1>3
  <2>2. /\ next_ptr' \in Pointers
        /\ IsList(next_ptr', NumOthers, Others, bblk_str, bblk_end)
        /\ IsList(next_ptr', fblk_num + 1, FreeBlocks \cup {blk}, fblk_str', fblk_end')
        /\ NumOthers > 0 => next_ptr'[bblk_end] = DBLK_INVLD
    BY <1>1, <2>1, LinkFreeKeeps
  <2>3. fblk_num' = fblk_num + 1 /\ fblk_end' = blk
    BY <2>1 DEF LinkFree
  <2>4. FreeBlocks' = FreeBlocks \cup {blk} /\ Others' = Others /\ NumOthers' = NumOthers
    <3>1. FreeBlocks' = FreeBlocks \cup {blk}
      BY <1>1, <1>2, <2>1 DEF FreeBlocks
    <3> QED BY <1>1, <2>3, <3>1 DEF FreeBlocks, Others, NumOthers
  <2>5. BlockType'
    BY <1>1, <1>2, <2>1, <2>2, <2>3 DEF BlockType
  <2>6. TypesInv'
    <3>1. ASSUME NEW b \in blk' .. RBLK_QNTY PROVE blk_type'[b] # "FREE_BLK"
      BY <1>1, <1>2, <2>1
    <3>2. ASSUME NEW b \in 1 .. RBLK_QNTY PROVE blk_type'[b] = "BAD_BLK" <=> b \in Others
      BY <1>1, <1>2, <2>1 DEF Others
    <3>3. \A b \in Others : b < blk
      BY Lists
    <3> QED BY <1>1, <2>3, <2>4, <3>1, <3>2, <3>3 DEF TypesInv
  <2>7. FreeBlocks' \subseteq good' /\ good' \subseteq 1 .. blk' - 1
    BY <1>1, <2>1, <2>4 DEF BlockInv
  <2>8. good' \ FreeBlocks' \subseteq {1}
    BY <1>1, <2>1, <2>4 DEF BlockInv
  <2> QED BY <1>1, <2>1, <2>2, <2>3, <2>4, <2>5, <2>6, <2>7, <2>8 DEF BlockInv
<1>4. CASE failed \cup sts_fail # {}
  <2>1. /\ LinkBad
        /\ blk_type' = [blk_type EXCEPT ![blk] = "BAD_BLK"]
        /\ good' = IF failed = {} THEN good \cup {blk} ELSE good
        /\ UNCHANGED <<fblk_str, fblk_end, fblk_num>>
    BY <1>0, <1>4
  <2>2. /\ next_ptr' \in Pointers
        /\ IsList(next_ptr', fblk_num, FreeBlocks, fblk_str, fblk_end)
        /\ IsList(next_ptr', NumOthers + 1, Others \cup {blk}, bblk_str', bblk_end')
        /\ next_ptr'[bblk_end'] = DBLK_INVLD
    BY <1>1, <2>1, LinkBadKeeps
  <2>3. FreeBlocks' = FreeBlocks /\ Others' = Others \cup {blk} /\ NumOthers' = NumOthers + 1
    <3>1. FreeBlocks' = FreeBlocks
      BY <1>1, <1>2, <2>1 DEF FreeBlocks
    <3>2. blk \notin FreeBlocks
      BY <1>1 DEF FreeBlocks
    <3> QED BY <1>1, <2>1, <3>1, <3>2 DEF Others, NumOthers
  <2>4. BlockType'
    BY <1>1, <1>2, <2>1, <2>2 DEF BlockType
  <2>5. TypesInv'
    <3>1. ASSUME NEW b \in blk' .. RBLK_QNTY PROVE blk_type'[b] # "FREE_BLK"
      BY <1>1, <1>2, <2>1
    <3>2. ASSUME NEW b \in 1 .. RBLK_QNTY
          PROVE blk_type'[b] = "BAD_BLK" <=> b \in Others \cup {blk}
      BY <1>1, <1>2, <2>1
    <3> QED BY <1>1, <2>1, <2>3, <3>1, <3>2 DEF TypesInv
  <2>6. FreeBlocks' \subseteq good' /\ good' \subseteq 1 .. blk' - 1
    BY <1>1, <2>1, <2>3 DEF BlockInv
  <2>7. good' \ FreeBlocks' \subseteq {1}
    <3>1. CASE failed = {}
      <4>1. sts_fail # {}
        BY <1>4, <3>1
      <4>2. blk = 1
        BY <1>1, <4>1 DEF BlockInv
      <4> QED BY <1>1, <2>1, <2>3, <4>2 DEF BlockInv
    <3>2. CASE failed # {}
      BY <1>1, <2>1, <2>3, <3>2 DEF BlockInv
    <3> QED BY <3>1, <3>2
  <2> QED BY <1>1, <2>1, <2>2, <2>3, <2>4, <2>5, <2>6, <2>7 DEF BlockInv
<1> QED BY <1>3, <1>4

(* There are enough free blocks.                                           *)
LEMMA LeftoverKeeps == BlockInv /\ Leftover => BlockInv'
<1> SUFFICES ASSUME BlockInv, Leftover PROVE BlockInv'
  OBVIOUS
<1>1. /\ blk \in 1 .. RBLK_QNTY - 1 /\ blk \in Nat /\ fblk_num = VBLK_QNTY
      /\ RBLK_QNTY \in Nat /\ VBLK_QNTY \in Nat /\ VBLK_QNTY > 0
      /\ blk' = blk + 1 /\ blk' \in 1 .. RBLK_QNTY /\ blk' > 1
      /\ LinkBad /\ blk_type' = [blk_type EXCEPT ![blk + 1] = "BAD_BLK"]
      /\ UNCHANGED <<fblk_str, fblk_end, fblk_num, sts_fail, good>>
  BY BlockAssumption DEF Leftover, BlocksDone, BlockInv, BlockType
<1>2. /\ blk_type \in [1 .. RBLK_QNTY -> {"none", "FREE_BLK", "BAD_BLK"}]
      /\ \A b \in blk .. RBLK_QNTY : blk_type[b] # "FREE_BLK"
      /\ \A b \in 1 .. RBLK_QNTY :
           blk_type[b] = "BAD_BLK" <=>
             (b \in Others /\ b # fblk_end + 1) \/ (b = blk /\ b > fblk_end + 1)
  <2>1. TypesInv
    BY DEF BlockInv
  <2>2. blk_type \in [1 .. RBLK_QNTY -> {"none", "FREE_BLK", "BAD_BLK"}]
    BY DEF BlockInv, BlockType
  <2>3. ASSUME NEW b \in 1 .. RBLK_QNTY
        PROVE  blk_type[b] = "BAD_BLK" <=>
                 (b \in Others /\ b # fblk_end + 1) \/ (b = blk /\ b > fblk_end + 1)
    BY <1>1, <2>1 DEF TypesInv
  <2>4. \A b \in blk .. RBLK_QNTY : blk_type[b] # "FREE_BLK"
    BY <2>1 DEF TypesInv
  <2> QED BY <2>2, <2>3, <2>4
<1>3. /\ next_ptr' \in Pointers
      /\ IsList(next_ptr', fblk_num, FreeBlocks, fblk_str, fblk_end)
      /\ IsList(next_ptr', NumOthers + 1, Others \cup {blk}, bblk_str', bblk_end')
      /\ next_ptr'[bblk_end'] = DBLK_INVLD
  BY <1>1, LinkBadKeeps
<1>4. FreeBlocks' = FreeBlocks /\ Others' = Others \cup {blk} /\ NumOthers' = NumOthers + 1
  <2>1. FreeBlocks' = FreeBlocks
    BY <1>1, <1>2 DEF FreeBlocks
  <2>2. blk \notin FreeBlocks
    BY <1>1 DEF FreeBlocks
  <2> QED BY <1>1, <2>1, <2>2 DEF Others, NumOthers
<1>5. BlockType'
  BY <1>1, <1>2, <1>3 DEF BlockType, BlockInv
<1>6. TypesInv'
  <2>0. fblk_end \in FreeBlocks /\ fblk_end \in Nat /\ fblk_end < blk
    BY <1>1, Lists
  <2>1. ASSUME NEW b \in blk' .. RBLK_QNTY PROVE blk_type'[b] # "FREE_BLK"
    BY <1>1, <1>2
  <2>2. ASSUME NEW b \in 1 .. RBLK_QNTY
        PROVE  blk_type'[b] = "BAD_BLK" <=>
                 \/ b \in Others \cup {blk} /\ b # fblk_end + 1
                 \/ b = blk + 1 /\ b > fblk_end + 1
    <3>1. CASE b = blk + 1
      BY <1>1, <1>2, <2>0, <3>1
    <3>2. CASE b # blk + 1
      BY <1>1, <1>2, <2>0, <3>2
    <3> QED BY <3>1, <3>2
  <2>3. fblk_num' = VBLK_QNTY /\ fblk_end' = fblk_end /\ blk' = blk + 1
        /\ Others' = Others \cup {blk}
    BY <1>1, <1>4
  <2>4. ASSUME NEW b \in 1 .. RBLK_QNTY
        PROVE  blk_type'[b] = "BAD_BLK" <=>
                 \/ b \in Others' /\ (fblk_num' = VBLK_QNTY => b # fblk_end' + 1)
                 \/ fblk_num' = VBLK_QNTY /\ b = blk' /\ b > fblk_end' + 1
    BY <2>2, <2>3
  <2> QED BY <2>1, <2>4 DEF TypesInv
<1>7. FreeBlocks' \subseteq good' /\ good' \subseteq 1 .. blk' - 1
  BY <1>1, <1>4 DEF BlockInv
<1>8. sts_fail' = {}
  <2>1. fblk_end \in FreeBlocks
    BY <1>1, Lists
  <2>2. blk > 1
    BY <1>1, <2>1 DEF FreeBlocks
  <2> QED BY <1>1, <2>2 DEF BlockInv
<1> QED BY <1>1, <1>3, <1>4, <1>5, <1>6, <1>7, <1>8 DEF BlockInv

(* Following the pointers from the start of a list gives its blocks.       *)
IsNth(b, n, h) == h = [k \in 1 .. n |-> IF k = 1 THEN b ELSE next_ptr[h[k - 1]]]
NthOf(b, n) == CHOOSE h : IsNth(b, n, h)

LEMMA NthIs ==
  ASSUME NEW n, NEW f, NEW S, NEW start, NEW end,
         Rising(f, n, S), Linked(next_ptr, f, n, start, end)
  PROVE  Nth(start, n) = f
<1>1. n \in Nat /\ f = [k \in 1 .. n |-> f[k]]
  BY DEF Rising
<1>2. \A k \in 1 .. n : f[k] = IF k = 1 THEN start ELSE next_ptr[f[k - 1]]
  BY <1>1 DEF Linked
<1>3. IsNth(start, n, f)
  BY <1>1, <1>2 DEF IsNth
<1>4. ASSUME NEW h, IsNth(start, n, h) PROVE h = f
  <2> DEFINE T == {m \in Nat : m + 1 \in 1 .. n => h[m + 1] = f[m + 1]}
  <2>1. /\ h = [k \in 1 .. n |-> h[k]]
        /\ \A k \in 1 .. n : h[k] = IF k = 1 THEN start ELSE next_ptr[h[k - 1]]
    BY <1>4 DEF IsNth
  <2>2. 0 \in T
    BY <1>2, <2>1
  <2>3. ASSUME NEW m \in T PROVE m + 1 \in T
    <3> SUFFICES ASSUME (m + 1) + 1 \in 1 .. n PROVE h[(m + 1) + 1] = f[(m + 1) + 1]
      OBVIOUS
    <3>1. m + 1 \in 1 .. n /\ (m + 1) + 1 # 1 /\ ((m + 1) + 1) - 1 = m + 1
      BY <1>1
    <3>2. h[m + 1] = f[m + 1]
      BY <3>1
    <3>3. h[(m + 1) + 1] = next_ptr[h[m + 1]] /\ f[(m + 1) + 1] = next_ptr[f[m + 1]]
      BY <1>2, <2>1, <3>1
    <3> QED BY <3>2, <3>3
  <2>4. T = Nat
    <3> HIDE DEF T
    <3>1. T \in SUBSET Nat
      BY DEF T
    <3> QED BY <2>2, <2>3, <3>1, Induct
  <2>5. ASSUME NEW k \in 1 .. n PROVE h[k] = f[k]
    <3>1. k - 1 \in Nat /\ (k - 1) + 1 = k
      BY <1>1
    <3> QED BY <2>4, <3>1
  <2> QED BY <1>1, <2>1, <2>5
<1>5. NthOf(start, n) = f
  <2>1. IsNth(start, n, NthOf(start, n))
    BY <1>3, Zenon DEF NthOf
  <2> QED BY <1>4, <2>1
<1>6. Nth(start, n) = NthOf(start, n)
  BY DEF Nth, NthOf, IsNth
<1> QED BY <1>5, <1>6

LEMMA ListsRight == BlockInv => BlockLists
<1> SUFFICES ASSUME BlockInv, BlocksDone PROVE BlockLists
  BY DEF BlockLists
<1> DEFINE flist == Nth(fblk_str, fblk_num)
           blist == Nth(bblk_str, RBLK_QNTY - 1 - fblk_num)
<1>1. /\ blk = RBLK_QNTY /\ RBLK_QNTY \in Nat /\ RBLK_QNTY > 1 /\ VBLK_QNTY \in Nat
      /\ NumOthers = RBLK_QNTY - 1 - fblk_num /\ NumOthers \in Nat /\ fblk_num \in Nat
      /\ VBLK_QNTY > 0 /\ fblk_num <= VBLK_QNTY
  BY Lists, BlockAssumption DEF BlocksDone, NumOthers, BlockInv, BlockType
<1>2. /\ Rising(flist, fblk_num, FreeBlocks)
      /\ Linked(next_ptr, flist, fblk_num, fblk_str, fblk_end)
  BY NthIs DEF BlockInv, IsList
<1>3. /\ Rising(blist, NumOthers, Others)
      /\ Linked(next_ptr, blist, NumOthers, bblk_str, bblk_end)
  BY <1>1, NthIs DEF BlockInv, IsList
<1>4. Listed(fblk_str, fblk_num) = FreeBlocks
  <2>1. Listed(fblk_str, fblk_num) = {flist[k] : k \in 1 .. fblk_num}
    BY DEF Listed
  <2> QED BY <1>2, <2>1 DEF Rising
<1>5. Listed(bblk_str, RBLK_QNTY - 1 - fblk_num) = Others
  <2>1. Listed(bblk_str, RBLK_QNTY - 1 - fblk_num) = {blist[k] : k \in 1 .. NumOthers}
    BY <1>1 DEF Listed
  <2> QED BY <1>3, <2>1 DEF Rising
<1> HIDE DEF flist, blist
<1>6. fblk_num > 0 => flist[fblk_num] = fblk_end
  BY <1>2 DEF Linked
<1>7. NumOthers > 0 => blist[NumOthers] = bblk_end /\ next_ptr[bblk_end] = DBLK_INVLD
  BY <1>3 DEF Linked, BlockInv
<1>8. ASSUME NEW k \in 1 .. fblk_num - 1 PROVE flist[k] < flist[k + 1]
  <2>1. k \in 1 .. fblk_num /\ k + 1 \in 1 .. fblk_num /\ k < k + 1
    BY <1>1
  <2> QED BY <1>2, <2>1 DEF Rising
<1>9. ASSUME NEW k \in 1 .. NumOthers - 1 PROVE blist[k] < blist[k + 1]
  <2>1. k \in 1 .. NumOthers /\ k + 1 \in 1 .. NumOthers /\ k < k + 1
    BY <1>1
  <2> QED BY <1>3, <2>1 DEF Rising
<1>10. FreeBlocks \cup Others = Block
  BY <1>1 DEF FreeBlocks, Others, Block
<1>11. FreeBlocks = Typed("FREE_BLK")
  BY <1>1 DEF FreeBlocks, Typed, Block
<1>12. FreeBlocks \subseteq good
  BY DEF BlockInv
<1>13. fblk_num < VBLK_QNTY => good \ FreeBlocks \subseteq {1}
  BY DEF BlockInv
<1>14. Typed("BAD_BLK") = Others \ (IF fblk_num = VBLK_QNTY THEN {fblk_end + 1} ELSE {})
  <2>1. ASSUME NEW b \in Block
        PROVE  blk_type[b] = "BAD_BLK" <=>
                 b \in Others /\ (fblk_num = VBLK_QNTY => b # fblk_end + 1)
    <3>1. b \in 1 .. RBLK_QNTY /\ b # blk
      BY <1>1 DEF Block
    <3> QED BY <3>1 DEF BlockInv, TypesInv
  <2>2. Others \subseteq Block
    BY <1>1 DEF Others, Block
  <2> QED BY <2>1, <2>2 DEF Typed
<1> QED
  BY <1>1, <1>4, <1>5, <1>6, <1>7, <1>8, <1>9, <1>10, <1>11, <1>12, <1>13, <1>14
     DEF BlockLists, flist, blist

LEMMA BlockSteps == [FwNext]_fwVars => BlockMain \/ UNCHANGED blockVars
<1>1. Main \/ Interrupts \/ I2c \/ Spi \/ SpiFifo \/ Nand \/ Bmu \/ Console => UNCHANGED blockVars
  BY DEF Main, Interrupts, I2c, Spi, SpiFifo, Nand, Bmu, Console, Only
<1>2. Blocks => BlockMain
  BY DEF Blocks
<1>3. UNCHANGED fwVars => UNCHANGED blockVars
  BY DEF fwVars
<1> QED
  BY <1>1, <1>2, <1>3 DEF FwNext

(* Once the table of blocks is built, for every number of blocks and every *)
(* pattern of failures, the free blocks and the others are in lists of     *)
(* their own, in ascending order, each with its end, and no block is lost  *)
(* (sys/ftl_init.c:89).                                                    *)
THEOREM ListsComplete == FwSpec => []BlockLists
<1>1. FwInit => BlockInv
  BY BlockInitInv DEF FwInit
<1>2. BlockInv /\ [FwNext]_fwVars => BlockInv'
  <2>1. ASSUME BlockInv, UNCHANGED blockVars PROVE BlockInv'
    <3>1. FreeBlocks' = FreeBlocks /\ Others' = Others /\ NumOthers' = NumOthers
      BY <2>1 DEF FreeBlocks, Others, NumOthers, blockVars
    <3>2. BlockType' /\ TypesInv'
      BY <2>1, <3>1 DEF BlockInv, BlockType, TypesInv, blockVars
    <3> QED BY <2>1, <3>1, <3>2 DEF BlockInv, blockVars
  <2> QED BY <2>1, BlockSteps, BuildKeeps, LeftoverKeeps DEF BlockMain
<1> QED BY <1>1, <1>2, ListsRight, PTL DEF FwSpec
=============================================================================
