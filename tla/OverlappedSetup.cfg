SPECIFICATION Spec
CONSTANTS
  x = x
  y = y
  good = good
  fine = fine
  junk = junk
  Threads = {t1, t2}
  MaxBoot = 0
  N = 2
  Dests = {x, y}
  Contents = {good, fine, junk}
  None = None
  DestOf <- TwoDests
  SumOf <- TwoSums
  Packed = {}
  MaxSdk = 2
  HasReqs = TRUE
  OneSetup = FALSE
INVARIANT SettledVenv
