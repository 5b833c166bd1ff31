CONSTANTS
  Keys <- MCKeys
  MaxStreak = 1
  AgeCap = 1
  Auth = {a1, a2}
  Plan <- MCPlan
  Sw <- MCSw
  Cards <- MCCards
  TotalKeys = {}
  Errors <- PairErrors
  Hints <- PairHints
  ReopenForeign = FALSE
  Relogin = FALSE
  MaxReset = 1
  Day = 3
  PermissionCooldown = 1
  Auth401Cooldown = 1
  ReloginCap = 1
  Dedupe = 0
  Settle = 1
  Grace = 1
  HealCooldown = 1
  PendingTTL = 1
  HealStuckAfter = 1
  VerifyFuse = 2
  MaxRecoverPerTick = 1
SPECIFICATION PairSpec
PROPERTY EventuallySettled
CHECK_DEADLOCK TRUE
