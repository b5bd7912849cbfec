SPECIFICATION Spec
CONSTANTS
  EmptyKey = EmptyKey
  NoSet = NoSet
  Keys = {k1, k2}
  Sizes = {1, 3, 6}
  Buffers = {b1, b2, b3}
  MaxMem = 6
  IntMax = 7
  Policies = {"LRU"}
  MaxQueue = 0
INVARIANTS
  NoAssertionFails
CHECK_DEADLOCK FALSE
