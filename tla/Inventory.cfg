SPECIFICATION Spec
CONSTANTS
  Sessions = {s1, s2}
  Handles = {h1, h2}
  CtxAddrs = {c}
  Primary = p
  NoCtx = NoCtx
  NoHandle = NoHandle
  Nobody = Nobody
  Made = {"bound", "free"}
  MaxGen = 3
  Bounds <- EachBound
  MaxRetains = 1
SYMMETRY Alike
INVARIANTS
  FreesItsOwn
  LeavesNothing
  RetainsAreCounted
  IndexIsExact
PROPERTIES
  OthersTakeNothing
CHECK_DEADLOCK FALSE
