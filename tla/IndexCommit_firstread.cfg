CONSTANTS
  Owners = {o1}
  Values = {a, b}
  Imports = {}
  BatchMax = 2
  MaxLen = 2
  MaxEdits = 3
  MaxFaults = 1
  Troubles = {"unreadable"}
  Nobody = Nobody
  NoCursor = NoCursor
  NoFile = NoFile
SPECIFICATION Spec
SYMMETRY Symmetry
CHECK_DEADLOCK FALSE
INVARIANTS CursorHasItsEvents
