SPECIFICATION Spec
CONSTANTS
  Numbers = {0, 1, 3, 4}
  Malformed = Malformed
  Address = Address
  Dotted = Dotted
  NoArgument = NoArgument
  MaxOptions = 2
  IntMax = 3
  PortMod = 2
  MaxSessions = 2
INVARIANTS
  LifecycleTypeOK
  ConfiguredAsAsked
  WholePool
  DestroyedUnused
PROPERTIES
  RunEndsOnlyInSession
CHECK_DEADLOCK FALSE
