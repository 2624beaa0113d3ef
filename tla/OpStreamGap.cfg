SPECIFICATION Spec
CONSTANTS
  Kinds = {"post", "wait"}
  FlushOps = 1
  AckAt = 2
  MaxUnacked = 3
  MayRestart = FALSE
  MaxSeq = 3
  MaxConns = 2
  MaxSessions = 1
INVARIANTS
  AppliedAfterEverythingBefore
CHECK_DEADLOCK FALSE
