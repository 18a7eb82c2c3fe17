CONSTANTS
  Owners = {o1}
  Values = {a, b}
  Imports = {k}
  BatchMax = 2
  MaxLen = 2
  MaxEdits = 3
  MaxFaults = 1
  Troubles = {"import"}
  Nobody = Nobody
  NoCursor = NoCursor
  NoFile = NoFile
SPECIFICATION FairSpec
CHECK_DEADLOCK FALSE
PROPERTIES IndexCatchesUp
