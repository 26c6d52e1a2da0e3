CONSTANTS
  PathCap = 1
  QueryCap = 9
  HeaderCap = 27
  BodyCap = 3
  NameCap = 2
  KeyCap = 2
  MaxEntries = 4
  Asks <- MCBrace
  File <- MCFile
SPECIFICATION Spec
INVARIANT SameQuestion
CHECK_DEADLOCK FALSE
