CONSTANTS
  Missing = Missing
  NULL = NULL
  Messages <- AllMessages
  Cases <- AllCases
SPECIFICATION Spec
INVARIANTS
  
  EveryHostServed
  TransactionalSet
  FaultsKnown
  OwnedOnce
  OffsetsInOrder
