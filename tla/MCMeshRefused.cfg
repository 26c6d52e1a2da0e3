CONSTANTS
  f1 = f1  f2 = f2  i1 = i1  a1 = a1  c1 = c1  c2 = c2  c3 = c3
  Client = {c1, c2, c3}
  Worker = {f1, i1, a1}
  ServiceOf <- MCServiceOf
  PodId <- MCPodId
  Asks <- MCRefused
  IdKeys = {c3}
  AttendKeys = {c3}
  NumSlots = 1
  MaxDescriptors = 2
  MaxPending = 4
  PipeCap = 1
  TimeoutMayFire = TRUE
  Free = Free
  Nil = Nil
SPECIFICATION Spec
INVARIANTS NoLeak BridgeEntries
PROPERTY ImplementsLookup
