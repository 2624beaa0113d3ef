\* Two threads whose calls may fail, on two connections.
SPECIFICATION Spec
CONSTANTS
  Half = 5
  FirstReq = 9
  Threads = {t1, t2}
  Kinds = {"async", "call", "observe"}
  MayFail = TRUE
  MayRestart = FALSE
  UnackedCap = 3
  MaxReq = 3
  MaxConns = 2
  MaxSessions = 1
INVARIANTS
  AnswersAreTrue
  ReportedOnce
  NoFailureForgotten
CHECK_DEADLOCK FALSE
