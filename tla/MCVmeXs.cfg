SPECIFICATION Spec
CONSTANTS
  User = {u1, u2}
  Kernel = kas
  RootIdx = {1, 2, 3}
  LeafIdx = {1, 2}
  Segments <- XsSegments
  KernelExtra <- Extra
  UserArea <- UserPages
  Table = {t1, t2, t3, t4}
  Frame = {f1, f2}
  None = none

SYMMETRY Interchangeable
PROPERTY UserMappingsPrivate
