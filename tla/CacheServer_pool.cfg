SPECIFICATION ServerFairSpec
CONSTANTS
  EmptyKey = EmptyKey
  NoSet = NoSet
  Keys = {k1, k2}
  Sizes = {1, 2, 5}
  Buffers = {b1, b2, b3, b4}
  MaxMem = 2
  IntMax = 7
  Policies = {"LRU"}
  MaxQueue = 0
  Workers = {w1, w2}
  NoBuf = NoBuf
INVARIANTS
  ServerTypeOK
  OneHolder
  OneThreadIsSafe
PROPERTIES
  SomeWorkerReplies
