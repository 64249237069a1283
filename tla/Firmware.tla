------------------------------- MODULE Firmware -------------------------------
(***************************************************************************)
(* The firmware of the SSD controller (apps/firmware), composed of its     *)
(* parts.  main calls test_ut_main, which runs the hardware tests that are *)
(* compiled in, one after the other (test/test_entry.c), while the devices *)
(* and the interrupt handlers of all of them go on.                        *)
(*                                                                         *)
(* Two parts of the firmware have no caller in the repository; they run in *)
(* builds of their own: fv_ers_build, which fv_ftl_init calls ("blocks"),  *)
(* and the receiving side of the UART driver ("console").                  *)
(***************************************************************************)
EXTENDS IrqTests, I2cTest, SpiTest, NandTest, BlockTable, UartRing

CONSTANTS
  Builds     (* sets of parts that may be compiled in *)

(* The order of the calls in test_ut_main.                                 *)
Order == <<"timer", "i2c", "spi", "gpio", "nand">>

ASSUME BuildsAssumption ==
  \A b \in Builds : b \subseteq {"blocks", "console"} \cup {Order[k] : k \in 1 .. 5}

VARIABLES build

fwVars == <<build, irqVars, i2cVars, spiVars, nandVars, blockVars, ringVars>>

(* The state a part starts in does not matter when the part does not run:  *)
(* one is enough.                                                          *)
Fixed ==
  /\ build \cap Test = {} => ~ hoisted
  /\ "i2c" \notin build =>
       i2c_cur = "id" /\ regs = [r \in I2cReg |-> ChipId] /\ save_value = ChipId
  /\ "spi" \notin build => flash = [p \in Page |-> "old"] /\ job = Idle
  /\ "blocks" \notin build => sts_fail = {}

FwInit ==
  /\ build \in Builds
  /\ IrqInit /\ I2cInit /\ SpiInit /\ NandInit /\ BlockInit /\ RingInit
  /\ Fixed

-----------------------------------------------------------------------------
(* The test of Order[k] is over, or is not compiled in.                    *)
Over(k) ==
  LET t == Order[k] IN
    t \in build =>
      CASE t \in Test -> IrqDone(t)
        [] t = "i2c" -> I2cDone
        [] t = "spi" -> SpiDone
        [] t = "nand" -> NandDone

(* The call of Order[k].                                                   *)
Running(k) == Order[k] \in build /\ \A j \in 1 .. k - 1 : Over(j)

(* A step of a part leaves the others alone.                               *)
Only(v) ==
  /\ v # "irq" => UNCHANGED irqVars
  /\ v # "i2c" => UNCHANGED i2cVars
  /\ v # "spi" => UNCHANGED spiVars
  /\ v # "nand" => UNCHANGED nandVars
  /\ v # "blocks" => UNCHANGED blockVars
  /\ v # "console" => UNCHANGED ringVars
  /\ UNCHANGED build

(* test_ut_main runs the program's side of the test that is on, with the   *)
(* interrupts served first.                                                *)
Main ==
  \/ Running(1) /\ IrqMain("timer") /\ Only("irq")
  \/ Running(2) /\ ~ IrqPending /\ I2cMain /\ Only("i2c")
  \/ Running(3) /\ ~ IrqPending /\ SpiMain /\ Only("spi")
  \/ Running(4) /\ IrqMain("gpio") /\ Only("irq")
  \/ Running(5) /\ ~ IrqPending /\ NandMain /\ Only("nand")

(* The hardware and the interrupt handlers, and the two waits of the       *)
(* program that only the hardware can end.                                 *)
Interrupts == IrqDevice /\ Only("irq")
I2c == I2cDevice /\ Only("i2c")
Spi == SpiDevice /\ Only("spi")
SpiFifo == Running(3) /\ ~ IrqPending /\ SpiMoves /\ Only("spi")
Nand == NandDevice /\ Only("nand")
Bmu == Running(5) /\ ~ IrqPending /\ BmuAnswers /\ Only("nand")

Blocks == "blocks" \in build /\ BlockMain /\ Only("blocks")

Console == "console" \in build /\ RingNext /\ Only("console")

FwNext == Main \/ Interrupts \/ I2c \/ Spi \/ SpiFifo \/ Nand \/ Bmu \/ Blocks \/ Console

(* The processor executes, and a pending interrupt is taken.  The devices  *)
(* that the program waits for without a time-out are taken to answer: the  *)
(* timers (rd_timers_eol), the FIFOs of the SPI controller, the BMU, and   *)
(* the NAND controller.  Nothing is assumed of the others.                 *)
FwFairness ==
  /\ WF_fwVars(Main)
  /\ WF_fwVars(Serve /\ Only("irq"))
  /\ WF_fwVars(EolZero /\ Only("irq"))
  /\ WF_fwVars(SpiFifo)
  /\ WF_fwVars(Bmu)
  /\ WF_fwVars(Nand)

FwSpec == FwInit /\ [][FwNext]_fwVars /\ FwFairness

-----------------------------------------------------------------------------
(* The byte of a late read is in the receive FIFO, and the next read waits *)
(* for it to go (hal/hal_i2c.c:66).                                        *)
I2cBlocked == i2c_late /\ i2c_phase = "cmd" /\ i2c_rx # <<>>

(* If the four devices above answer, test_ut_main gets to its last line,   *)
(* although an interrupt may never come, a flash may stay busy, and a      *)
(* transfer on the I2C bus may never end: no test waits for ever and no    *)
(* interrupt keeps the processor to itself.  It does so if and only if no  *)
(* late byte ever blocks the I2C driver: nothing else hangs the firmware,  *)
(* and that does, for good.                                                *)
TestEnds ==
  /\ <>(I2cBlocked \/ \A k \in 1 .. Len(Order) : Over(k))
  /\ [](I2cBlocked => []I2cBlocked)
=============================================================================
