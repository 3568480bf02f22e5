\* Every plan of three steps with backward dependencies, of two with any, of
\* four without any, and of three with other numbers than 1..3.
SPECIFICATION FairSpec
CONSTANTS
  Plans <- AllPlans
  MaxAttempts = 2
  ThisRun = r1
  NoRun = none
  MaxProgress = 11
INVARIANT TypeOK
INVARIANT DependenciesDone
INVARIANT BackwardStepsRun
INVARIANT EventLogFaithful
INVARIANT StatusHonest
INVARIANT DocumentContents
INVARIANT DamageShows
PROPERTY AnswerStable
PROPERTY RunEnds
PROPERTY StreamSpec
CHECK_DEADLOCK FALSE
