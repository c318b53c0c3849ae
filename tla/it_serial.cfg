SPECIFICATION Spec
CONSTANTS
  parent = parent
  kid = kid
  twin = twin
  NoIssue = NoIssue
  Requests = {r1, r2, r3}
  Issues = {parent, kid}
  Parent <- FamilyOfOne
  Born = {parent}
  Statuses <- MCStatuses
  Initial = "Backlog"
  Done = "Done"
  Edges <- MCEdges
  Terminal = {"Done"}
  CancelTo = "none"
  Gates <- MCGates
  Required = 1
  Deletable = {parent, kid}
  Reviewed = {parent}
  Approvers = {a1, a2}
  Eligible = {a1}
  AutoRules <- MCNoPairs
  OutOfBand = {}
  Overlap = FALSE
  MaxNow = 1
SYMMETRY Symmetry
INVARIANT HistoryTellsStatus
PROPERTY MovesSound
CHECK_DEADLOCK FALSE
