CONSTANTS
  None = None
  Runs = {r1}
  Procs = {p1, p2, p3}
  Outcomes = {"COMPLETED", "FAILED", "WAITING_FOR_DECISION"}
  Steps = 1
  MaxDisruptions = 2
  Overlap = FALSE
  ReusePids = FALSE
  ReaperOn = FALSE
  CancelOn = TRUE
SPECIFICATION FairSpec
PROPERTIES ClosedOrStranded
