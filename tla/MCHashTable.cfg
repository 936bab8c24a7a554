SPECIFICATION Spec
CONSTANTS
  Keys <- MCKeys
  Hashings <- SomeHashings
  MIN_HTABLE_SIZE = 2
  MaxValues = 6
INVARIANTS TableRight FreedOnce
PROPERTIES IsDictionary
CHECK_DEADLOCK FALSE
