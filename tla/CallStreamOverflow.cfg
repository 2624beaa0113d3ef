\* A replay buffer of one frame: it overflows, and the session goes on.
SPECIFICATION Spec
CONSTANTS
  Half = 5
  FirstReq = 9
  Threads = {t1}
  Kinds = {"async", "call"}
  MayFail = FALSE
  MayRestart = FALSE
  UnackedCap = 1
  MaxReq = 3
  MaxConns = 2
  MaxSessions = 1
INVARIANTS
  NothingSkipped
CHECK_DEADLOCK FALSE
