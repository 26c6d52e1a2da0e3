CONSTANTS
  c1 = c1  c2 = c2  c3 = c3  Nil = Nil
  Client = {c1, c2, c3}
  Asks <- MCLong
  IdKeys = {c1}
  AttendKeys = {c1, c2}
  ReqLen = 2
  ResLen = 2
  BufLen = 2
  Window = 1
  ClientsLeave = FALSE
  ClientsSendMore = FALSE
  UpstreamFails = TRUE
SPECIFICATION FairSpec
INVARIANTS TypeOK NoUseAfterFree WaitingHasCall WholeAnswer
PROPERTIES ImplementsLookup Served
CHECK_DEADLOCK FALSE
