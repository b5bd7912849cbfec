SPECIFICATION Spec
CONSTANTS
  EmptyKey = EmptyKey
  NoSet = NoSet
  Keys = {k1, k2, k3}
  Sizes = {0, 1, 2, 3, 4, 9}
  Buffers = {b1, b2, b3, b4, b5}
  MaxMem = 4
  IntMax = 15
  Policies = {"LRU", "FIFO", "none"}
  MaxQueue = 5
SYMMETRY Symmetry
INVARIANTS
  TypeOK
  Accounting
  WithinMaxMem
  SizeChangeExact
  NoAssertionFails
  HeapSound
  EvictorCoversTable
  OneNodePerKey
  RefusesExactlyUnfit
PROPERTIES
  OnlyRefusalsLeak
  ResetLeavesNothing
