SPECIFICATION FirstSpec
CONSTANTS
  Tabs = {A, B}
  first = A
  A = A
  B = B
  TaskIds = {t1}
  Databases = {d1, d2}
  d1 = d1
  d2 = d2
  Origins = {1, 2, 3}
  portsOf <- Ports
  MaxServices = 2
  MaxRevision = 3
  MaxAsked = 3
  MaxEdits = 1
  Dismissing = {B}
  Nothing = None
CHECK_DEADLOCK FALSE
PROPERTIES DraftSurvivesSwap
