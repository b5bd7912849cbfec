SPECIFICATION FairSpec
CONSTANTS
  EmptyKey = EmptyKey
  NoSet = NoSet
  Keys = {k1, k2, k3}
  Sizes = {1, 2, 7}
  Buffers = {b1, b2, b3, b4}
  MaxMem = 3
  IntMax = 15
  Policies = {"LRU"}
  MaxQueue = 0
PROPERTIES
  ImplementsLRUCache
  CallsReturn
