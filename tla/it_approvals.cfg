SPECIFICATION Spec
CONSTANTS
  parent = parent
  kid = kid
  twin = twin
  NoIssue = NoIssue
  Requests = {r1, r2}
  Issues = {parent}
  Parent <- Alone
  Born = {parent}
  Statuses <- MCTwoStatuses
  Initial = "Review"
  Done = "Done"
  Edges <- MCNoPairs
  Terminal = {}
  CancelTo = "none"
  Gates <- MCGates
  Required = 2
  Deletable = {}
  Reviewed = {parent}
  Approvers = {a1, a2}
  Eligible = {a1, a2}
  AutoRules <- MCNoPairs
  OutOfBand = {}
  Overlap = TRUE
  MaxNow = 1
SYMMETRY Symmetry
PROPERTIES QuorumBacks RejectionBlocks
CHECK_DEADLOCK FALSE
