SPECIFICATION Spec
CONSTANTS
  Threads = {t1, t2}
  Addrs = {p, a}
  Primary = p
  NoCtx = NoCtx
  Modes = {"global", "relaxed"}
  DefaultMode = "global"
  MaxStack = 2
  Settings <- BothSettings
  RetiredSlots = 1
  MaxCtxs = 3
INVARIANTS
  OwnContextOrNone
  NothingStale
  BelievesTheDriver
PROPERTIES
  ThreadsOfTheirOwn
CHECK_DEADLOCK FALSE
