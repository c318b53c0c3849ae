SPECIFICATION Spec
CONSTANTS
  p = p
  q = q
  i = i
  k = k
  Null = Null
  Projects = {p, q}
  Sprints = {1}
  Legacy = {}
  Issues = {i, k}
  ProjectOf <- OfOne
  Born = {i, k}
  Admins = {a1, a2}
  Movers = {m1}
  Statuses = {"Backlog", "Done"}
  MaxRows = 1
  Opting = {}
  Overlap = TRUE
SYMMETRY FullSymmetry
INVARIANTS TypeOK OwnSprintsFit BaselineCovers
CHECK_DEADLOCK FALSE
