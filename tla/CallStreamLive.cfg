SPECIFICATION FairSpec
CONSTANTS
  Half = 4
  FirstReq = 7
  Threads = {t1}
  Kinds = {"async", "call"}
  MayFail = FALSE
  MayRestart = TRUE
  UnackedCap = 2
  MaxReq = 2
  MaxConns = 3
  MaxSessions = 1
PROPERTIES
  CallsReturn
  GoneIsFinal
CHECK_DEADLOCK FALSE
