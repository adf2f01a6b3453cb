SPECIFICATION Spec
CONSTANTS
  Callers = {c1}
  Kinds = {"health", "predict"}
  None = None
INVARIANTS
  StartupBeforeHealth
