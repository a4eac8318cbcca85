SPECIFICATION Spec
CONSTANTS
  Clients = {c1, c2}
  Requests = {r1, r2}
  Approvals = {a1, a2}
  RETRY_MAX_ATTEMPTS = 2
  None = None
PROPERTY KeepsPromise AnsweredInTheEnd
CHECK_DEADLOCK FALSE
