CONSTANTS
  r1 = r1
  r2 = r2
  c1 = c1
  c2 = c2
  NoRun = NoRun
  Runs <- OneRun
  Clients <- OneClient
  MaxProgress = 2
SPECIFICATION FairSpec
PROPERTY FinishedStreamEnds
