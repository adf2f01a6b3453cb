SPECIFICATION Spec
CONSTANTS
  n1 = n1
  s1 = s1
  s2 = s2
  a = a
  b = b
  Names = {n1}
  Sources = {s1}
  SegOf <- OwnSegs
  Wants <- OneWant
  Broken <- SecondBroken
  Threads = {t1, t2}
  None = None
  MaxRev = 3
  MaxMishaps = 1
  Disciplined = TRUE
SYMMETRY Symmetry
INVARIANTS
  IndInv
  RegisteredLoads
  RegisteredComplete
  RunningHasBundle
  NothingHalfDone
PROPERTIES
  ImplementsStore
