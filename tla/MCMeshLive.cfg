CONSTANTS
  f1 = f1  f2 = f2  i1 = i1  a1 = a1  c1 = c1  c2 = c2  c3 = c3
  Client = {c1, c2}
  Worker = {f1, f2, i1}
  ServiceOf <- MCServiceOf
  PodId <- MCPodId
  Asks <- MCOneBad
  IdKeys = {}
  AttendKeys = {c1}
  NumSlots = 2
  MaxDescriptors = 4
  MaxPending = 4
  PipeCap = 2
  TimeoutMayFire = FALSE
  Free = Free
  Nil = Nil
SPECIFICATION FairSpec
PROPERTIES ImplementsLookup Answered
CHECK_DEADLOCK FALSE
