CONSTANTS
  None = None
  Clients = {c1, c2}
  MaxDeaths = 0
  Quota = TRUE
SPECIFICATION Spec
INVARIANTS RetriedRunIsCompleted
CHECK_DEADLOCK FALSE
SYMMETRY Symmetry
