CONSTANTS
  Workspaces = {w1}
  home = w1
  Subjects = {ca, cb}
  None = None
  Busy = {w1}
  Budgets <- OneClaim
  Origins = {"agent-hook"}
SPECIFICATION EvidenceSpec
SYMMETRY Symmetry
CHECK_DEADLOCK FALSE
INVARIANTS CompleteClaimsCount
