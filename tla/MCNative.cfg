SPECIFICATION NatSpec
CONSTANTS
  SbufSize = 4
  Chunk = 2
  Len0 = 1
  Samples = 7
  KEY_QUEUE_LEN = 4
  Presses = 11
  p1 = p1
  p2 = p2
  v1 = v1
  v2 = v2
  f1 = f1
  f2 = f2
  Proc = {p1, p2}
  VA = {v1, v2}
  PA = {f1, f2}
  Boot = boot
  Nil = nil
  Anchor = anchor
  Requests <- MCRequests
  MaxDepth = 2
INVARIANTS
  AudioCountInRange
  AudioInOrder
  KeysInOrder
  NativeIsolation
  MapListsEnd
PROPERTIES
  AudioFinishes
CHECK_DEADLOCK FALSE
