SPECIFICATION WorkspaceSpec
CONSTANTS
  Events = {e1, e2, e3}
  Retentions = {q1, q2}
  Verifies = {v1}
  Overlap = FALSE
  Spares = FALSE
  MaxClock = 2
  People = {m1, m2}
  WsRoles = {"Viewer", "Member", "Admin"}
  ProjectRoles = {"Viewer", "Member", "Admin", "Lead"}
  Nobody = Nobody
  Callers = {1, 2}
  MaxCalls = 4
  MaxCallsAtOnce = 3
  Folk = {n1, n2}
  Hands = {1, 2}
  MAX_TEAM_LINKS = 1
  MaxTurns = 5
  MaxTurnsAtOnce = 3
  Null = Null
  MaxClauses = 3
  MaxFiltered = 2
SYMMETRY Symmetry
INVARIANTS TypeOK Anchored WorkspaceTypeOK Fits AccessAgrees Searched
PROPERTIES SeqAdvances LinksVerify SprintRules AccessHeld TeamsSound
CHECK_DEADLOCK FALSE
