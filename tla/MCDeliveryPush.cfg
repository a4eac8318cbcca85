SPECIFICATION FairSpec
CONSTANTS
  ann = ann
  bob = bob
  cas = cas
  Members <- MCTrio
  Direct = FALSE
  BatchModes = {TRUE, FALSE}
  MaxBatch = 2
  SummaryThreshold = 2
  DetailLimit = 2
  RecentLimit = 1
  FetchLimit = 2
  MentionLimit = 1
  MaxPushes = 0
  Senders <- MCOne
  UrgentSenders <- MCOne
  Listeners <- MCListeners
  Mentionable <- MCListeners
  Pullers = {}
  MaxStreams = 1
  MaxMsgs = 2
  MaxRestarts = 0
PROPERTIES
  PushesNotDropped
  DeliveredInTheEnd
