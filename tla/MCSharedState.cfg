SPECIFICATION Spec
CONSTANTS
  ceo = ceo
  chairman = chairman
  alice = alice
  NULL = NULL
  System = System
  Projects = {p1}
  Fields = {f1, f2}
  Values = {v1}
  Agents <- MCAgents
  StateAdmins <- MCStateAdmins
  CEO = ceo
  Chairman = chairman
  Profiled <- MCProfiled
  Owners <- MCOwners
  Approvers = {}
  PermProject = p1
  MaxLog = 4
  MaxApprovals = 1
SYMMETRY MCSymmetry
INVARIANTS
  LogReplaysToState
  ApprovalsAppliedOnce
  OptimisticWritesHold
  ChangesAnnounced
PROPERTIES
  AuditTrailGrows
