SPECIFICATION FairSpec
CONSTANTS
  Names = {n1}
  Procs = {p1, p2}
  Threads = {t1, t2}
  Ops = {"load", "unload", "predict", "list"}
  None = None
  MayHang = TRUE
  MayMissDeps = FALSE
PROPERTIES
  LoadReturns
  LockObtained
  UnloadReturns
  PredictReturns
CHECK_DEADLOCK FALSE
