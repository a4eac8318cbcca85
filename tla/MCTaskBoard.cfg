SPECIFICATION TaskSpec
CONSTANTS
  Tasks = {t1, t2}
  Messages = {m1}
  Sources = {m1}
  Team = {pm, ann}
  MANAGERS = {pm}
  Creators = {ann}
  Assignees = {"nobody", ann}
  Statuses = {"todo", "done"}
  Metadata = {"plain"}
  Requests = {r1, r2}
  MaxUpdates = 2
SYMMETRY Symmetry
INVARIANTS HistoryReplays MessageNamesTask ClosedMeansDone
