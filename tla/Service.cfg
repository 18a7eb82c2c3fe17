CONSTANTS
  Sources = {sa, sb}
  Runs = {i1, i2, i3}
  Foreign = Foreign
  NoSession = Nobody
  Nobody = Nobody
  Idle = Idle
  Capacity = 1
  Requests = {"cancel", "upkeep", "stop", "revoke", "settings", "foreign", "elsewhere"}
  Touched = {sa}
  Takeovers = {t1, t2}
  TakenRuns = {r1}
  Sessions = {o1}
SPECIFICATION MCSpec
CHECK_DEADLOCK FALSE
INVARIANTS RunsContained
PROPERTIES RequestsEnd RequestSettles
