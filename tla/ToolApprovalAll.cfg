CONSTANTS
  None = None
  Runs = {r1}
  Clients = {c1, c2}
  Processes = {p1, p2}
  Approvals = {a1, a2}
  MaxActions = 2
  MaxCrashes = 1
SPECIFICATION Spec
INVARIANTS TypeOK OnlyApprovedTools ReceiptAgrees DecidedRunHasEnded
SYMMETRY Symmetry
CHECK_DEADLOCK FALSE
