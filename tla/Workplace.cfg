SPECIFICATION WPSpec
CONSTANTS
  Tasks = {t1, t2}
  Sessions = {s1, s2}
  Events = {1, 2, 3}
  Projects = {p1, p2}
  Clients = {c1, c2}
  Fields = {title}
  Workspaces = {w1, w2}
  t1 = t1
  t2 = t2
  s1 = s1
  s2 = s2
  p1 = p1
  p2 = p2
  w1 = w1
  w2 = w2
  None = None
  Title = title
  projectOf <- MCProjectOf
  sessionOf <- MCSessionOf
  BoundAtFirst <- MCBoundAtFirst
  Rank <- MCRank
  Drafts <- MCDrafts
  Budgets <- MCBudgets
  MaxEntries = 3
  Hits = {1, 3}
  HitTitles = {1}
  Times = {0, 1}
  PageSize = 1

  Handoffs = {h1}
  Callers = {A}
  Contents = {v1}
  NoValue = None
  Targets = {g1}
  Nonces = {n1, n2}
  InputStages = {"prepared", "reported", "verified"}
  Expiries = {1}
  MaxTime = 1
  MaxAttestations = 2
  Tabs = {A, B}
  first = A
  TaskIds = {t1}
  Databases = {d1, d2}
  Origins = {1, 2, 3}
  portsOf <- Ports
  Dismissing = {B}
  Nothing = None
  d1 = d1
  d2 = d2
  MaxServices = 2
  MaxRevision = 3
  MaxAsked = 3
  MaxEdits = 1

  Missing = None
  Allowances <- MCAllowances
  Dirs = {e1, e2}
  Edited = {e2}
  Spoiled = {"baseline"}
  Commands = {k1, k2}
  k1 = k1
  k2 = k2
CHECK_DEADLOCK FALSE
SYMMETRY WPSymmetry
INVARIANTS HistoryExact ReceiptsTrusted PagesKeepTheirData CertificationEarned
PROPERTIES DecisionsInForce EditsBuildOnLatest ActivityReported PagesAreSlices ReadingsOnlyAdvance
