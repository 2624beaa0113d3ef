\* No call fails.
SPECIFICATION Spec
CONSTANTS
  Threads = {t1, t2}
  Devices = {d1, d2}
  Addrs = {a}
  Kernels = {k, l}
  Fns = {f, g}
  Programs <- Allocating
  MayFail = FALSE
  MaxLife = 2
  MaxRetains = 2
  MaxRegs = 2
  Values = {v, w}
  MaxMint = 2
  Sizes = {0, 1, 2}
  MaxFrames = 2
SYMMETRY Alike
INVARIANTS
  HandedOutIsAlwaysKnown
CHECK_DEADLOCK FALSE
