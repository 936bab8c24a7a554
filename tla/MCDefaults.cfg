CONSTANTS
  Missing = Missing
  NULL = NULL
  Messages <- AllMessages
  Cases <- AllCases
SPECIFICATION Spec
INVARIANT DefaultsSeen
