SPECIFICATION FairSpec
CONSTANTS
  Names = {n1}
  Procs = {p1}
  Threads = {t1}
  Ops = {"load", "unload"}
  None = None
  MayHang = FALSE
  MayMissDeps = FALSE
PROPERTIES
  UnloadOfFailedReturns
CHECK_DEADLOCK FALSE
