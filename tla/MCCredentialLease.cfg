SPECIFICATION Spec
CONSTANTS
  Agents = {a1}
  Drivers = {d1, d2}
  Tokens = {t1, t2, t3}
  MaxStarts = 1
  PathA = {a1}
  TOKEN_TTL_MS = 2
  JTI_EVICTION_MS = 3
  AGGREGATE_MINT_WINDOW_MS = 2
  AGGREGATE_MINT_LIMIT = 2
  RATE_WINDOW_MS = 2
  RATE_MAX = 1
  BUSY_STALE_MS = 1
SYMMETRY Symmetry
INVARIANTS TokenUsedOnce MintsApart LeasesApart LockKept
