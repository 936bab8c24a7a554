SPECIFICATION Spec
CONSTANTS
  Setups <- AllSetups
  Docs <- AllDocs
  Strstr <- Substrings
INVARIANTS ConfigRight RowRight TimestampExact MetadataRight
PROPERTIES LeaksKnown
CHECK_DEADLOCK FALSE
