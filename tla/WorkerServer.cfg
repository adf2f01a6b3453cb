SPECIFICATION FairSpec
CONSTANTS
  Callers = {c1, c2}
  Kinds = {"health", "describe", "predict", "shutdown"}
  None = None
INVARIANTS
  IndInv
  HealthMeansLoaded
  RunsOnce
  RepliesClean
PROPERTIES
  NothingAfterShutdown
  ShutdownObeyed
  Served
  ImplementsProcess
