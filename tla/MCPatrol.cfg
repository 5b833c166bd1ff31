CONSTANTS
  Accounts = {a1}
  Concurrency = 1
  Batch = 1
  Settle = 1
  Burst = 700
  MaxReports = 1
  MaxJobs = 2
  MaxGen = 2
  NoOne = none
SPECIFICATION FairSpec
INVARIANTS
  TypeOK
  OneJob
PROPERTIES
  
  
  SettleRespected
  EveryJobEnds
CHECK_DEADLOCK FALSE
