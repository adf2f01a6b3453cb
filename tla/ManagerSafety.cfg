SPECIFICATION Spec
CONSTANTS
  Names = {n1, n2}
  Procs = {p1, p2}
  Threads = {t1, t2, t3}
  Ops = {"load", "unload", "describe"}
  None = None
  MayHang = FALSE
  MayMissDeps = TRUE
SYMMETRY Symmetry
INVARIANTS
  TypeOK
  IndInv
  ListedStates
  HealthFromOwnWorker
  PeerRunsNamedModel
  SoleReceiver
  ExitStatusKept
  OnlyDegradedEscape
  DeadStatesAreDead
PROPERTIES
  ImplementsLifecycle
CHECK_DEADLOCK FALSE
