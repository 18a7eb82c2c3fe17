SPECIFICATION MCSpec
CONSTANTS
  p1 = p1
  p2 = p2
  p3 = p3
  h1 = h1
  h2 = h2
  r1 = r1
  t1 = t1
  None = None
  rootOf <- OneRoot
  taskOf <- OneTask
  Handoffs = {h1, h2}
  DeadProbe = {TRUE, FALSE}
  Cli = {p1, p2}
  handoffOf <- PairHandoffOf
  Outcomes = {"exited", "failed"}
  Exposed = {h1, h2}
  MaxObservations = 2
  LiveProbe = {TRUE}
  HonestOperator = TRUE
  Owners = {o1, o2}
  Values = {a}
  Imports = {}
  BatchMax = 2
  MaxLen = 2
  MaxEdits = 3
  MaxFaults = 2
  Troubles = {"crash", "expire", "cancel", "unreadable", "rewrite", "clear"}
  Nobody = Nobody
  NoCursor = NoCursor
  NoFile = NoFile
CHECK_DEADLOCK FALSE
INVARIANTS OneAgentPerRoot
PROPERTIES ReservationFreed IndexCatchesUp
