SPECIFICATION DigestSpec
CONSTANTS
  Users = {u1}
  Modes = {"off", "daily"}
  Notes = {1, 2}
  Ticks = {t1}
  Rejects = TRUE
  MaxUpsets = 0
INVARIANTS WatermarkMailed
CHECK_DEADLOCK FALSE
