CONSTANTS
  None = None
  Runs = {r1}
  Procs = {p1, p2}
  Outcomes = {"COMPLETED"}
  Steps = 1
  MaxDisruptions = 1
  Overlap = TRUE
  ReusePids = FALSE
  ReaperOn = TRUE
  CancelOn = FALSE
SPECIFICATION FairSpec
INVARIANTS OwnedJobHasWorker OwnedInv
PROPERTIES AcceptedRunCloses
