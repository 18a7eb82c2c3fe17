SPECIFICATION Spec
CONSTANTS
  Tasks = {t1, t2}
  Sessions = {s1, s2}
  Events = {1, 2, 3}
  Projects = {p1, p2}
  Clients = {c1, c2}
  Fields = {title}
  Workspaces = {w1, w2}
  t1 = t1
  t2 = t2
  s1 = s1
  s2 = s2
  p1 = p1
  p2 = p2
  w1 = w1
  w2 = w2
  None = None
  Title = title
  projectOf <- MCProjectOf
  sessionOf <- MCSessionOf
  BoundAtFirst <- MCBoundAtFirst
  Rank <- MCRank
  Drafts <- MCDrafts
  Budgets <- LedgerBudgets
  MaxEntries = 3
  Hits = {1, 3}
  HitTitles = {1}
  Times = {0, 1}
  PageSize = 1
CHECK_DEADLOCK FALSE
PROPERTIES StaleEditorsRefused
