CONSTANTS
  Events = {1, 2}
  Keys = {"k1"}
  Threshold = 2
  Limit = 1
  Lookback = 2
  Around = 3
  Dedupe = 0
  Floor = TRUE
  SameMs = FALSE
  MaxCycle = 1
  MaxNow = 3
  MaxDays = 1
  MaxCrash = 1
SPECIFICATION FairSpec
INVARIANTS
  NoneLeftBehind
  ReplayedOnce
PROPERTIES
  EveryFailureSeen
CHECK_DEADLOCK TRUE
