SPECIFICATION Spec
CONSTANTS
  CPU = {h0, h1, h2}
  Ncpu = 3
  Rounds = 3
  InOrder = TRUE
INVARIANT TypeOK
INVARIANT NobodyLeavesEarly
INVARIANT IInv
PROPERTY ResetLosesNoArrival
PROPERTY ImplementsContract
PROPERTY EverybodyReturns
