CONSTANTS
  None = None
  Runs = {r1}
  Procs = {p1, p2, p3}
  Outcomes = {"COMPLETED", "FAILED", "WAITING_FOR_DECISION"}
  Steps = 2
  MaxDisruptions = 2
  Overlap = FALSE
  ReusePids = FALSE
  ReaperOn = TRUE
  CancelOn = TRUE
SYMMETRY Symmetry
SPECIFICATION Spec
INVARIANTS TypeOK CancelledOnlyOnRequest ClosedJobIsPublished CancelInv LedgerInv PublishInv
PROPERTIES TerminalJobIsFinal LedgerSpec
