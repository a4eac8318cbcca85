CONSTANTS
  Agents = 3
  PathA = {1}
  ApiKey = {2}
  MaxCalls = 2
  MAX_RETRIES = 2
  MaxHours = 1
  MaxSelf = 1
  MaxLogins = 1
  MaxFaults = 2
SPECIFICATION Spec
INVARIANTS NoTokenSpentTwice LoginReallyRequired RefreshTokensInPlace NoneLeftBehind LoginKept
PROPERTIES RefreshedInTheEnd
CHECK_DEADLOCK FALSE
