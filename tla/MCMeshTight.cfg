CONSTANTS
  f1 = f1  f2 = f2  i1 = i1  a1 = a1  c1 = c1  c2 = c2  c3 = c3
  Client = {c1, c2}
  Worker = {f1, i1}
  ServiceOf <- MCServiceOf
  PodId <- MCPodId
  Asks <- MCOneBad
  IdKeys = {}
  AttendKeys = {}
  NumSlots = 2
  MaxDescriptors = 1
  MaxPending = 1
  PipeCap = 1
  TimeoutMayFire = TRUE
  Free = Free
  Nil = Nil
SPECIFICATION TimedSpec
INVARIANTS TypeOK ExclusiveBuffers
PROPERTY Answered
CHECK_DEADLOCK FALSE
