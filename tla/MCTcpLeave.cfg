CONSTANTS
  c1 = c1  c2 = c2  c3 = c3  Nil = Nil
  Client = {c1, c2}
  Asks <- MCNoName
  IdKeys = {c1}
  AttendKeys = {c1}
  ReqLen = 2
  ResLen = 2
  BufLen = 3
  Window = 1
  ClientsLeave = TRUE
  ClientsSendMore = TRUE
  UpstreamFails = FALSE
SPECIFICATION Spec
INVARIANT CtxOwned
