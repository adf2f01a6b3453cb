SPECIFICATION FairDaemon
CONSTANTS
  Names = {n1}
  Procs = {p1, p2}
  Threads = {main, t1}
  Main = main
  Ops = {"load", "unload"}
  None = None
  MayHang = TRUE
  MayMissDeps = FALSE
  MaxBoot = 1
INVARIANTS
  DaemonInv
  SnapshotStopped
  OnlyLateBindersIntrude
PROPERTIES
  DaemonLifecycle
  ShutdownEnds
CHECK_DEADLOCK FALSE
