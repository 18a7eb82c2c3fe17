CONSTANTS
  Takeovers = {t1, t2, t3}
  TakenRuns = {r1, r2}
  Sessions = {o1}
  Owners = {x, y}
  Claims <- SomeClaims
  Events <- SomeEvents
  Batches <- SomeBatches
  TaskSessions = {1, 2}
  Absent = None
  NoSession = Nobody
  Nobody = Nobody
  None = None
  s1 = s1
  x = x
  y = y
  link1 = link1
  link2 = link2
  reviewer = reviewer
  k = k
  Executor = executor
  MaxId = 3
  Keys = {k}
  Subjects = {s1}
  Links = {link1, link2}
  Roles = {executor, reviewer}
  Sources = {sa, sb, sc, sd}
  Runs = {i1, i2, i3, i4}
  Foreign = Foreign
  Idle = Idle
  Capacity = 2
  Requests = {"upkeep"}
  Touched = {sa}
  Commands = {c1, c2}
  Redacted = {c2}
  Lines = {l1}
  MaxEvents = 4
  Pages = {pa, pb}
  Roots = {s1}
  Nil = None
  Failure = Failure
  Chances <- MCChances
  MaxRuns = 2
  MaxJobs = 1
SPECIFICATION MCSpec
CHECK_DEADLOCK FALSE
INVARIANTS SuccessionSafe DerivationEarned SettingsTruthful
PROPERTIES LateAnswerHarmless LedgerTrusted ImplementsSlotPool UpkeepRunsAlone
