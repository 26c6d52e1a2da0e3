CONSTANTS
  f1 = f1  f2 = f2  i1 = i1  a1 = a1  c1 = c1  c2 = c2  c3 = c3
  Client = {c1, c2, c3}
  Worker = {f1, i1}
  ServiceOf <- MCServiceOf
  PodId <- MCPodId
  Asks <- MCThree
  IdKeys = {c1}
  AttendKeys = {c1}
  NumSlots = 1
  MaxDescriptors = 2
  MaxPending = 6
  PipeCap = 1
  TimeoutMayFire = FALSE
  Free = Free
  Nil = Nil
SPECIFICATION Spec
INVARIANTS ExclusiveBuffers NoLeak ResponseToCaller HeaderRoomAfterBody QueuesNeverFull
CHECK_DEADLOCK FALSE
