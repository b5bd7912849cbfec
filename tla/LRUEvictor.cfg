SPECIFICATION Spec
CONSTANTS
  Keys = {k1, k2, k3, k4}
  Nodes = {n1, n2, n3, n4}
  Null = Null
  EmptyKey = EmptyKey
SYMMETRY NodeSymmetry
INVARIANTS
  TypeOK
  AssertionsHold
  DoublyLinked
  IndexExact
PROPERTIES
  ImplementsEvictor
