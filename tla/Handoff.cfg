CONSTANTS
  p1 = p1
  p2 = p2
  p3 = p3
  h1 = h1
  h2 = h2
  r1 = r1
  t1 = t1
  None = None
  rootOf <- OneRoot
  taskOf <- OneTask
  Handoffs = {h1, h2}
  DeadProbe = {TRUE, FALSE}
  Cli = {p1, p2, p3}
  handoffOf <- MixedHandoffOf
  Outcomes = {"exited", "failed"}
  Exposed = {h1}
  MaxObservations = 1
  LiveProbe = {TRUE, FALSE}
  HonestOperator = FALSE
  N = 2
  Contents = {ta, tb}
  Absent = Absent
  Unread = Unread
  MaxOps = 2
  Choices = {c1, c2}
  MaxChanges = 1
  MaxRequests = 3
SPECIFICATION MCSpec
SYMMETRY HandoffSymmetry
CHECK_DEADLOCK FALSE
INVARIANTS ReservationMutex LiveTargetReserved RecordsAgree ReviewDecides CapturesAreTrue HandoffAsReviewed
PROPERTIES ImplementsReservation RecoveredStaysUnknown
