SPECIFICATION MCSpec
SYMMETRY Symmetry
CONSTANTS
  Processes = {p1, p2, p3}
  Files = {f1, f2}
  Items = {i1, i2}
  Backups = {b1, b2, b3}
  OldVersion = 1
  Target = 2
  Nobody = Nobody
  NoFile = NoFile
  Writers = {w1, w2}
  Versions = {1, 2}
  NoInode = NoInode
  None = None
  Workspaces = {ws1, ws2}
  home = ws1
  Subjects = {ca, cb}
  Busy = {ws1}
  Origins = {"agent-hook"}
  Budgets <- EvidenceBudgets
  MaxPlace = 3
  ra = ra
  rb = rb
  n1 = n1
  n2 = n2
  m1 = m1
  m2 = m2
  MaxRecords = 3
  ReceiptIds = {ra, rb}
  Nonces = {n1, n2}
  Manifests = {m1, m2}
  Observations <- SomeRows
  RequestOf <- Ids
  Unset = Unset
CHECK_DEADLOCK FALSE
INVARIANTS DeletesAlone OneDatabase DataSurvives PublicationSound EvidenceEarned ReplayTrusted
PROPERTIES BackedUp
