SPECIFICATION Spec
CONSTANTS
  Source = {s1, s2}
  MAX_RAND_ITER = 2
  Claims = 3
  Burst = 2
  None = none
INVARIANT TypeOK
INVARIANT TestPasses
INVARIANT QuietBetweenRounds
PROPERTY ExternalServed
PROPERTY TestFinishes
