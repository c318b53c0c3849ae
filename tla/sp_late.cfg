SPECIFICATION Spec
CONSTANTS
  p = p
  q = q
  i = i
  k = k
  Null = Null
  Projects = {p, q}
  Sprints = {1, 2}
  Legacy = {1}
  Issues = {i, k}
  ProjectOf <- OfBoth
  Born = {i}
  Admins = {a1}
  Movers = {m1}
  Statuses = {"Backlog", "Done"}
  MaxRows = 1
  Opting = {q}
  Overlap = FALSE
INVARIANT CommittedBaseline
CHECK_DEADLOCK FALSE
