SPECIFICATION FairStepsSpec
CONSTANTS
  Callers = {step, caller}
  Steps = {step}
  StepAttempts = 2
  Key = TRUE
  MaxAttempts = 2
  Cooldown = 1
INVARIANT StepTypeOK
INVARIANT BreakerTracksLatest
INVARIANT AttemptsBounded
INVARIANT FailureMeansAllTried
INVARIANT StepCost
PROPERTY CallEnds
PROPERTY StepEnds
