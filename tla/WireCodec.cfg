SPECIFICATION Spec
CONSTANTS
  KeyTexts <- MCKeyTexts
  ValueTexts <- MCValueTexts
  MaxMem = 3
  MaxTarget = 12
INVARIANTS
  ReadsExactlyReadable
  OrdinaryCallsAreServed
PROPERTIES
  SetsExactlyItsKey
