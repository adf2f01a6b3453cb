SPECIFICATION Spec
CONSTANTS
  n1 = n1
  s1 = s1
  s2 = s2
  a = a
  b = b
  Names = {n1}
  Sources = {s1, s2}
  SegOf <- OwnSegs
  Wants <- OneNameWants
  Broken <- NoneBroken
  Threads = {t1}
  None = None
  MaxRev = 1
  MaxMishaps = 1
  Disciplined = TRUE
INVARIANTS
  CompleteAfterCrash
