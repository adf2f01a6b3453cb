SPECIFICATION Spec
CONSTANTS
  x = x
  y = y
  good = good
  fine = fine
  junk = junk
  Threads = {t1, t2}
  MaxBoot = 1
  N = 3
  Dests = {x, y}
  Contents = {good, fine, junk}
  None = None
  DestOf <- MCDests
  SumOf <- MCSums
  Packed = {}
  MaxSdk = 2
  HasReqs = TRUE
  OneSetup = TRUE
SYMMETRY Symmetry
INVARIANTS
  IndInv
  FetchedMatch
  NoLitter
  UpToDateIsComplete
  DoneIsReady
  PulledStaysLoadable
PROPERTIES
  ValidFilesStay
