CONSTANTS
  r1 = r1
  r2 = r2
  c1 = c1
  c2 = c2
  NoRun = NoRun
  Runs <- TwoRuns
  Clients <- TwoClients
  MaxProgress = 2
SPECIFICATION FairSpec
INVARIANT TypeOK
INVARIANT Partition
INVARIANT SubscribersExact
INVARIANT EndMeansWholeLog
PROPERTY FeedSpec
PROPERTY EveryEventSent
PROPERTY CompletedStreamEnds
