SPECIFICATION Spec
CONSTANTS
  CPU = {h0, h1, h2}
  Ncpu = 3
  Rounds = 2
  InOrder = FALSE
PROPERTY EverybodyReturns
CHECK_DEADLOCK FALSE
