------------------------------- MODULE SpiTest -------------------------------
(***************************************************************************)
(* hal/hal_spi.c and the test of the NOR flash (test/test_misc.c): erase,  *)
(* write, read back, erase, read back.  Every command is followed by a     *)
(* wait for the flash, but not for ever: after the time-out the driver     *)
(* goes on, and the flash ignores commands while it is busy.  Before that, *)
(* the bytes of a page go through the FIFOs of the SPI controller, and for *)
(* these the driver waits without a time-out.                              *)
(***************************************************************************)
EXTENDS Naturals, Sequences

CONSTANTS
  Pages      (* pages of 256 bytes that are written, 64 in the code *)

ASSUME PagesAssumption == Pages \in Nat \ {0}

Page == 1 .. Pages

VARIABLES
  spi_at,    (* command of Commands that is next *)
  waiting,   (* it has been sent, and hal_spi_falsh_wait_busy waits *)
  moving,    (* its bytes are still on their way through a FIFO *)
  flash,     (* what each page of the flash holds: "ff", "data" or "old" *)
  job,       (* what the flash is busy with *)
  wel,       (* its write enable latch *)
  ram,       (* what hal_spi_read has read of each page *)
  spi_ret,
  written    (* history: the flash held the data when the test had read it back *)

spiVars == <<spi_at, waiting, moving, flash, job, wel, ram, spi_ret, written>>

Enable == [op |-> "wren"]
Idle == [op |-> "none"]
Erase == [op |-> "erase"]

Programs == [k \in 1 .. 2 * Pages |->
               IF k % 2 = 1 THEN Enable ELSE [op |-> "program", page |-> k \div 2]]
Reads == [p \in Page |-> [op |-> "read", page |-> p]]
Check(want) == <<[op |-> "check", want |-> want]>>

(* hal_spi_test: hal_spi_chip_erase, hal_spi_write, hal_spi_read, ...      *)
Commands ==
  <<Enable, Erase>> \o Programs \o Reads \o Check("data")
    \o <<Enable, Erase>> \o Reads \o Check("ff")

(* A reset of the controller alone may come while the flash is erasing.    *)
SpiInit ==
  /\ spi_at = 1 /\ waiting = FALSE /\ moving = FALSE
  /\ flash \in [Page -> {"ff", "data", "old"}]
  /\ job \in {Idle, Erase} /\ wel = (job = Erase)
  /\ ram = [p \in Page |-> "old"]
  /\ spi_ret = "none" /\ written = FALSE

SpiDone == spi_ret # "none"

Command == Commands[spi_at]

-----------------------------------------------------------------------------
(* The flash takes the command when it is not busy, and erases and         *)
(* programs only after a write enable; a busy flash reads as all ones      *)
(* (external: the flash).                                                  *)
Taken(c) ==
  /\ wel' = (wel \/ (job = Idle /\ c.op = "wren"))
  /\ job' = IF job = Idle /\ wel /\ c.op \in {"erase", "program"} THEN c ELSE job
  /\ ram' = IF c.op # "read" THEN ram
            ELSE [ram EXCEPT ![c.page] = IF job = Idle THEN flash[c.page] ELSE "ff"]

(* hal_spi_tx_cmd, hal_spi_addr_erase: a command of a few bytes goes out.  *)
Send ==
  /\ ~ SpiDone /\ ~ waiting /\ Command.op \in {"wren", "erase"}
  /\ waiting' = TRUE
  /\ Taken(Command)
  /\ UNCHANGED <<spi_at, moving, flash, spi_ret, written>>

(* hal_spi_page_program and hal_spi_byte_read wait until there is room for *)
(* each byte in the transmit FIFO, and until it is empty; or for each byte *)
(* in the receive FIFO.                                                    *)
StartTransfer ==
  /\ ~ SpiDone /\ ~ waiting /\ Command.op \in {"program", "read"}
  /\ waiting' = TRUE /\ moving' = TRUE
  /\ UNCHANGED <<spi_at, flash, job, wel, ram, spi_ret, written>>

(* The bytes have passed, and the flash has seen the command (external:    *)
(* the SPI controller).                                                    *)
SpiMoves ==
  /\ moving
  /\ moving' = FALSE
  /\ Taken(Command)
  /\ UNCHANGED <<spi_at, waiting, flash, spi_ret, written>>

(* hal_spi_falsh_wait_busy: the flash is ready, or time is up.             *)
SpiWaited ==
  /\ waiting /\ ~ moving
  /\ waiting' = FALSE
  /\ spi_at' = spi_at + 1
  /\ UNCHANGED <<moving, flash, job, wel, ram, spi_ret, written>>

(* Mutant: only the first page is compared.                                *)
MatchesFirst(want) == ram[1] = want

Matches(want) == \A p \in Page : ram[p] = want

(* The two loops that compare what was read.                               *)
Compare ==
  /\ ~ SpiDone /\ ~ waiting /\ Command.op = "check"
  /\ spi_at' = spi_at + 1
  /\ spi_ret' = IF ~ Matches(Command.want) THEN "fail"
                ELSE IF spi_at = Len(Commands) THEN "pass" ELSE "none"
  /\ written' = (written \/ flash = [p \in Page |-> "data"])
  /\ UNCHANGED <<waiting, moving, flash, job, wel, ram>>

SpiMain == Send \/ StartTransfer \/ SpiWaited \/ Compare

(* Programming clears bits: it gives the data on an erased page only, or   *)
(* on one that holds the same data already (external: the flash).          *)
SpiDevice ==
  /\ job # Idle
  /\ flash' = IF job.op = "erase" THEN [p \in Page |-> "ff"]
              ELSE [flash EXCEPT ![job.page] = IF @ = "old" THEN "old" ELSE "data"]
  /\ job' = Idle /\ wel' = FALSE
  /\ UNCHANGED <<spi_at, waiting, moving, ram, spi_ret, written>>

-----------------------------------------------------------------------------
(* Although no time-out is reported, a pass means what it says: the flash  *)
(* did hold the data when it was compared, and has been erased since or is *)
(* being erased.                                                           *)
SpiVerdict ==
  spi_ret = "pass" =>
    /\ written
    /\ job = Erase \/ flash = [p \in Page |-> "ff"]
=============================================================================
