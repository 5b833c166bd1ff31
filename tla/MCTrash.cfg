CONSTANTS
  Ids = {i1, i2}
  NoId = none
  Threads = {p1, tk}
  Ticker = tk
  MaxVer = 2
  MaxCrash = 1
SPECIFICATION FairSpec
INVARIANTS
  TypeOK
  HeldHasSnapshot
PROPERTIES
  DeletesOnlyWhatItKept
  ClaimedAndUsedOnce
  ExpiredLeaves
CHECK_DEADLOCK TRUE
