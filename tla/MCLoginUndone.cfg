CONSTANTS
  Agents = 3
  PathA = {1}
  ApiKey = {2}
  MaxCalls = 2
  MAX_RETRIES = 2
  MaxHours = 1
  MaxSelf = 0
  MaxLogins = 1
  MaxFaults = 0
SPECIFICATION Spec
INVARIANT LoginNotUndone
CHECK_DEADLOCK FALSE
