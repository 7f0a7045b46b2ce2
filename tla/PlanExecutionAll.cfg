CONSTANTS
  Originals <- MCOriginals
  Replacements <- MCReplacements
  MaxSteps = 4
  MaxRetries = 1
  Limit = 2
  MaxReruns = 1
SPECIFICATION FairSpec
INVARIANTS TypeOK Aligned CompletedIsWhole DependenciesHold StoppedIsBlocked CancelStops PlanInv
PROPERTIES LogSpec Advances Terminates
CHECK_DEADLOCK FALSE
