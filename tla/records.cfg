SPECIFICATION Spec
CONSTANTS
  Addresses = {a, b}
  Requests = {r1, r2}
  Roles = {"Admin", "Viewer"}
  Policies = {"open", "invite_only"}
  MaxRows = 3
  MaxInvites = 2
  MaxRequests = 4
  MaxOverlap = 3
  Jtis = {1, 2}
  Clients = {c1, c2}
  Secrets = {"s1", "s2"}
  Resets = {1, 2, 3}
  Forgetful = {c1, c2}
  Pages = {1, 2}
  Authors = {u1, u2}
  Texts = {x, y}
  Editors = {e1, e2}
  MaxHops = 2
  MaxSaves = 3
  MaxSavesAtOnce = 3
  Askers = {k1, k2}
  MaxProjects = 2
  Names = {"A", "PROJ"}
  MaxAsks = 3
  MaxAsksAtOnce = 3
  Operators = {o1, o2}
  Changes = 3
  ChangesAtOnce = 2
  Docs = {1, 2}
  Folders = {1, 2}
  FileNames = {"x", "y"}
  Sizes = {1}
  Quota = 2
  MaxLift = 3
  Uploaders = {p1, p2}
  MaxDocAsks = 4
  MaxDocAsksAtOnce = 3
  MaxHalts = 1
  Nodes = {1, 2, 3}
  LinkTypes = {"blocks", "is blocked by"}
  Linkers = {l1, l2}
  MaxLinkAsks = 3
  MaxLinkAsksAtOnce = 2
  Cases = {1}
  Stages = {"In Progress", "Done"}
  Shifters = {1, 2}
  DayLength = 2
  LastInstant = 2
  MaxCaseMoves = 3
SYMMETRY Symmetry
INVARIANTS RecordsTypeOK OneReset WikiSound IssuesSound ConfigSound DependenciesSound ReportsSound
PROPERTIES MembershipSound SessionsSound ReadersUndisturbed DocumentsSound
CHECK_DEADLOCK FALSE
