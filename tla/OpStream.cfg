SPECIFICATION Spec
CONSTANTS
  Kinds = {"bad", "big", "wait"}
  FlushOps = 2
  AckAt = 2
  MaxUnacked = 3
  MayRestart = TRUE
  MaxSeq = 3
  MaxConns = 3
  MaxSessions = 2
INVARIANTS
  RunsInOrder
  NothingSkipped
  AnswersAreTrue
  NeverWaitsInVain
  ServedIsAttached
  LostIsTrue
CHECK_DEADLOCK FALSE
