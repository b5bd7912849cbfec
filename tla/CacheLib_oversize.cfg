SPECIFICATION Spec
CONSTANTS
  EmptyKey = EmptyKey
  NoSet = NoSet
  Keys = {k1, k2}
  Sizes = {1, 2, 3}
  Buffers = {b1, b2, b3}
  MaxMem = 2
  IntMax = 15
  Policies = {"LRU"}
  MaxQueue = 0
INVARIANTS
  NoAssertionFails
CHECK_DEADLOCK FALSE
