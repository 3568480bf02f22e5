SPECIFICATION Spec
CONSTANTS
  Plans <- NumberedPlans
  MaxAttempts = 2
  ThisRun = r1
  NoRun = none
  MaxProgress = 11
INVARIANT NamedDependenciesDone
CHECK_DEADLOCK FALSE
