CONSTANTS
  Requests <- MCRequests
  ChildStatuses = {"COMPLETED", "FAILED", "TIMED_OUT"}
  ForeignStatuses = {"COMPLETED"}
  MaxCrashes = 1
  MaxErrors = 1
SPECIFICATION FairSpec
INVARIANTS TypeOK CompletedIsReal FailureIsContained ClosedAgrees CompositeInv
PROPERTIES EvaluationSpec AcceptedComposesToEnd
CHECK_DEADLOCK FALSE
