CONSTANTS
  PathCap = 1
  QueryCap = 9
  HeaderCap = 27
  BodyCap = 3
  NameCap = 2
  KeyCap = 2
  MaxEntries = 4
  Asks <- MCAsks
  File <- MCFile
SPECIFICATION Spec
INVARIANTS FramingExact HandledWhole SameQuestion RightValue
CHECK_DEADLOCK FALSE
