CONSTANTS
  None = None
  Runs = {r1}
  Clients = {c1, c2}
  Processes = {p1}
  Approvals = {a1}
  MaxActions = 2
  MaxCrashes = 0
SPECIFICATION Spec
INVARIANT ResumedOnce
SYMMETRY Symmetry
CHECK_DEADLOCK FALSE
