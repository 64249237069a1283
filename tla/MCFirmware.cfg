SPECIFICATION FwSpec
CONSTANTS
  Builds <- MCBuilds
  Polls = 2
  RegValue = {"33", "37", "3f", "orig"}
  ChipId = "33"
  Mark1 = "37"
  Mark2 = "3f"
  Pages = 2
  Buffers = 6
  Reserved = 1
  Unit = 2
  SlcUnit = 1
  RBLK_QNTY = 7
  VBLK_QNTY = 3
  Die = {d1, d2}
  DBLK_INVLD = 99
  Size = 4
  Byte = {0, 1}
  Zero = 0
INVARIANTS
  ServedOnce
  RegulatorRestored
  SpiVerdict
  BuffersAccounted
  NandVerdict
  BlockLists
  RingInv
PROPERTIES
  RingImplementsFifo
  TestEnds
CHECK_DEADLOCK FALSE
