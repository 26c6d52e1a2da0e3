CONSTANTS
  PathCap = 1
  QueryCap = 9
  HeaderCap = 27
  BodyCap = 3
  NameCap = 2
  KeyCap = 2
  MaxEntries = 4
  Asks <- MCLong
  File <- MCFile
SPECIFICATION Spec
INVARIANT SameQuestionLong
CHECK_DEADLOCK FALSE
