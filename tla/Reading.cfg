CONSTANTS
  Owners = {o1, o2}
  Values = {a, b}
  Imports = {k}
  BatchMax = 2
  MaxLen = 3
  MaxEdits = 3
  MaxFaults = 2
  Troubles = {"crash", "expire", "cancel", "unreadable later", "rewrite", "import", "clear"}
  Nobody = Nobody
  NoCursor = NoCursor
  NoFile = NoFile
  MaxWrites = 4
  Window = 2
  Chunk = 3
  MaxEvents = 2
  Blocks = {1, 3}
  None = None
SPECIFICATION MCSpec
SYMMETRY Symmetry
CHECK_DEADLOCK FALSE
INVARIANTS IndexExact RowsFollowTheLog
PROPERTIES ProgressKept
