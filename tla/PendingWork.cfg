SPECIFICATION Spec
CONSTANTS
  c = c
  d = d
  s = s
  Threads = {t1, t2}
  Contexts <- TheContexts
  Streams <- TheStreams
  HomeOf <- TheHome
  Modes = {"after uploads"}
  MaxWork = 2
SYMMETRY Alike
INVARIANTS
  MarksCover
  SynchronizeWaits
CHECK_DEADLOCK FALSE
