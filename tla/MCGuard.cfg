CONSTANTS
  Keys <- MCKeys
  MaxStreak = 2
  AgeCap = 2
  Auth = {a1}
  Plan <- MCPlan
  Sw <- MCSw
  Cards <- MCCards
  TotalKeys = {}
  Errors <- MCErrors
  Hints <- ResetHints
  ReopenForeign = TRUE
  Relogin = FALSE
  MaxReset = 2
  Day = 3
  PermissionCooldown = 2
  Auth401Cooldown = 1
  ReloginCap = 1
  Dedupe = 0
  Settle = 1
  Grace = 2
  HealCooldown = 2
  PendingTTL = 2
  HealStuckAfter = 2
  VerifyFuse = 2
  MaxRecoverPerTick = 1
SPECIFICATION HSpec
INVARIANTS
  TypeOK
  OwnershipCoherent
  LadderRunConsecutive
PROPERTIES
  OwnedNeverAutoOpened
  TickKeepsOperatorLock
  NoSameTickFight
  DeadlineNotStretched
CHECK_DEADLOCK TRUE
