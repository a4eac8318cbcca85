SPECIFICATION DeliverySpec
CONSTANTS
  ann = ann
  bob = bob
  cas = cas
  Members <- MCPair
  Direct = TRUE
  BatchModes = {TRUE, FALSE}
  MaxBatch = 2
  SummaryThreshold = 2
  DetailLimit = 1
  RecentLimit = 1
  FetchLimit = 2
  MentionLimit = 1
  MaxPushes = 2
  Senders <- MCPair
  UrgentSenders <- MCOne
  Listeners <- MCOther
  Mentionable <- MCOther
  Pullers <- MCOther
  MaxStreams = 2
  MaxMsgs = 3
  MaxRestarts = 1
INVARIANTS
  ReadMeansReceived
