CONSTANTS
  Requests <- MCRequests
  ChildStatuses = {"COMPLETED", "FAILED"}
  ForeignStatuses = {}
  MaxCrashes = 1
  MaxErrors = 0
SPECIFICATION Spec
INVARIANTS CompletedRunsOnce
CHECK_DEADLOCK FALSE
