\* a backup run that fails without its own event, whose general event is suppressed
SPECIFICATION Spec
CONSTANTS
  Lanes = {"l"}
  MaxTaskRuns = 1
  MaxTurns = 1
INVARIANTS
  FailureTold
CHECK_DEADLOCK FALSE
