CONSTANTS
  c1 = c1  c2 = c2  c3 = c3  Nil = Nil
  Client = {c1}
  Asks <- MCLookups
  IdKeys = {c1}
  AttendKeys = {c1}
  ReqLen = 2
  ResLen = 2
  BufLen = 3
  Window = 2
  ClientsLeave = TRUE
  ClientsSendMore = FALSE
  UpstreamFails = FALSE
SPECIFICATION Spec
INVARIANT NoUseAfterFree
