SPECIFICATION FairSpec
CONSTANTS
  parent = parent
  kid = kid
  twin = twin
  NoIssue = NoIssue
  Requests = {r1, r2}
  Issues = {parent, kid, twin}
  Parent <- FamilyOfTwo
  Born = {parent, kid}
  Statuses <- MCTwoStatuses
  Initial = "Review"
  Done = "Done"
  Edges <- MCNoPairs
  Terminal = {}
  CancelTo = "none"
  Gates <- MCNoPairs
  Required = 1
  Deletable = {parent, kid}
  Reviewed = {}
  Approvers = {}
  Eligible = {}
  AutoRules <- MCAutoReopen
  OutOfBand = {"Review"}
  Overlap = TRUE
  MaxNow = 0
INVARIANT TypeOK
PROPERTIES OpenSubtaskBlocks RequestsEnd
CHECK_DEADLOCK FALSE
