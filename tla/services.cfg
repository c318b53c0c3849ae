SPECIFICATION Spec
CONSTANTS
  Hooks = {h1, h2}
  Fires = {f1}
  Replays = {p1}
  MAX_RETRIES = 2
  MaxEdits = 1
  Users = {u1}
  Modes = {"off", "daily"}
  Notes = {1, 2}
  Ticks = {t1, t2}
  Rejects = FALSE
  MaxUpsets = 1
  Rules = {r1, r2}
  Matching = {i1}
  Runs = {k1, k2}
  Intervals = {1, 2}
  RuleUpsets = 1
  Attempts = {a1, a2, a3}
  MaxAttempts = 2
  Window = 2
  Lockout = 3
  Allowance = 3
  MaxTyped = 2
  MaxFailures = 1
  Tabs = {t1, t2}
  Issues = {i1, i2}
  Nowhere = Nowhere
  MaxTurns = 3
INVARIANTS ServicesTypeOK Throttled
PROPERTIES WebhooksSound DigestsSound RulesSound EditorSound Converges
CHECK_DEADLOCK FALSE
