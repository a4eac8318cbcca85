SPECIFICATION Spec
CONSTANTS
  c1 = c1
  c2 = c2
  Calls <- MCCalls
  DaemonModes = {TRUE, FALSE}
  AUTO_RESTART_ENABLED = TRUE
  MAX_RESTARTS = 1
  MaxProcs = 2
  MaxStreams = 2
  MaxLosses = 1
  MaxRestarts = 1
SYMMETRY MCSymmetry
INVARIANTS
  CrashTimerMeansOffline
  LossIsWatched
  OnePty
  StopReaches
CHECK_DEADLOCK FALSE
