\* One thread and no driver failures: every interleaving of breaks, reconnects,
\* late hand-overs and expiry, with ids that wrap and a replay buffer that may
\* overflow.
SPECIFICATION Spec
CONSTANTS
  Half = 6
  FirstReq = 10
  Threads = {t1}
  Kinds = {"async", "call"}
  MayFail = FALSE
  MayRestart = TRUE
  UnackedCap = 3
  MaxReq = 4
  MaxConns = 3
  MaxSessions = 2
INVARIANTS
  TypeOK
  RunsInOrder
  OneSession
  NothingSkippedWhileReplayable
  RepliesMatch
  GivenUpIsNotSentAgain
CHECK_DEADLOCK FALSE
