SPECIFICATION Spec
CONSTANTS
  Names = {n1}
  Procs = {p1, p2}
  Threads = {t1, t2}
  Ops = {"load", "unload"}
  None = None
  MayHang = FALSE
  MayMissDeps = FALSE
SYMMETRY Symmetry
INVARIANTS
  ReadyReachable
CHECK_DEADLOCK FALSE
