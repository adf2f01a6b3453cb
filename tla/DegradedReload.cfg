SPECIFICATION Spec
CONSTANTS
  Names = {n1}
  Procs = {p1, p2}
  Threads = {t1}
  Ops = {"load", "unload"}
  None = None
  MayHang = FALSE
  MayMissDeps = TRUE
SYMMETRY Symmetry
INVARIANTS
  OneProcessPerModel
CHECK_DEADLOCK FALSE
