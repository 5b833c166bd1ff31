CONSTANTS
  StreakBound = 3
  RungBound = 3
SPECIFICATION Spec
INVARIANTS
  LoopFindsStrongest
  VetoHolds
PROPERTIES
  EscalationNeverWeakens
CHECK_DEADLOCK FALSE
