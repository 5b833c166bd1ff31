CONSTANTS
  Requests = {q1, q2}
  MaxSaves = 2
  MaxEdits = 1
  MaxGen = 4
  MaxFail = 1
  MaxCrash = 1
  Caps = {1}
  Patience = {TRUE, FALSE}
SPECIFICATION FairSpec
INVARIANTS
  TypeOK
  LiveCopiesAgree
  HostHasWhatRuns
PROPERTIES
  EndsAtHost
CHECK_DEADLOCK FALSE
