SPECIFICATION FairSpec
CONSTANTS
  TaskOf <- MCTaskOf
  MaxLogins = 2
  MaxMail = 1
  MaxFaults = 1
  MaxRestarts = 1
INVARIANTS SentOnce DeliveredWasSent HandledOnce
PROPERTIES NotifiedInTheEnd
