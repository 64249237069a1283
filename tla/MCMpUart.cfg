SPECIFICATION Spec
CONSTANTS
  Iters = 3
  NextByte = {"other", "digit"}
INVARIANT NothingLost
