SPECIFICATION FairSpec
CONSTANTS
  WATCHDOG_RESPAWN_BUDGET = 2
  WATCHDOG_RESPAWN_WINDOW_MS = 1
  MaxDaemons = 5
  MaxAttempts = 2
  MaxCrashes = 2
  MaxRestarts = 1
  MaxTime = 2
CHECK_DEADLOCK FALSE
INVARIANTS RespawnsApart OneChild PidFileNamesDaemon
PROPERTY Repaired
