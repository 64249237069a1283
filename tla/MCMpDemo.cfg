SPECIFICATION Spec
CONSTANTS
  Iters = 3
  NextByte = {"other", "digit"}
INVARIANT TypeOK
INVARIANT PrintExclusive
INVARIANT SumsAsDocumented
INVARIANT SumAtLeastTwo
INVARIANT HartsPrintTheSame
PROPERTY BothFinish
