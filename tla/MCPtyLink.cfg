SPECIFICATION FairSpec
CONSTANTS
  INITIAL_CREDIT = 3
  PENDING_QUEUE_BOUND = 2
  MAX_HEALTH_FAILURES = 2
  MaxChunk = 2
  MaxLate = 1
  MaxRead = 7
  MaxLosses = 2
  MaxRestarts = 1
INVARIANTS
  CreditConserved
  AcksCovered
  StreamIntact
PROPERTIES
  StallsEnd
  ReconnectsInTheEnd
CHECK_DEADLOCK FALSE
