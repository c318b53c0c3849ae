SPECIFICATION AccessSpec
CONSTANTS
  People = {m1, m2}
  WsRoles = {"Viewer", "Member", "Admin"}
  ProjectRoles = {"Viewer", "Member", "Admin", "Lead"}
  Nobody = Nobody
  Callers = {1}
  MaxCalls = 4
  MaxCallsAtOnce = 4
INVARIANT BulkAsStrict
CHECK_DEADLOCK FALSE
