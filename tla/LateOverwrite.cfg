CONSTANTS
  None = None
  Runs = {r1}
  Procs = {p1, p2}
  Outcomes = {"COMPLETED"}
  Steps = 1
  MaxDisruptions = 0
  Overlap = FALSE
  ReusePids = FALSE
  ReaperOn = TRUE
  CancelOn = FALSE
SPECIFICATION Spec
PROPERTIES LateWorkerNeverOverwrites
