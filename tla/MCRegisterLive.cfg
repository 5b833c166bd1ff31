CONSTANTS
  MaxJobs = 2
  MaxBatches = 1
  MaxEpoch = 1
  MaxHistory = 2
  Window = 2
  MinSamples = 1
  WarnPercent = 60
  Pause = 1
  Interval = 1
  PollRounds = 1
  Enabled = {}
  PauseOnLow = FALSE
  DryRuns = {FALSE}
  HistPath = TRUE
SPECIFICATION FairSpec
PROPERTIES
  EveryJobEnds
CHECK_DEADLOCK FALSE
