SPECIFICATION FairSpec
CONSTANTS
  IPs = {ip1}
  Limit = 1
  WindowSeconds = 1
  TicksPerSecond = 1
  MaxClock = 2
  MaxPosts = 2
  MaxProgress = 3
  Pages = {c1, c2}
  IpOf <- OneAddress
CHECK_DEADLOCK FALSE
INVARIANT TypeOK
INVARIANT AnswersMatchStore
INVARIANT RejectionsEarned
INVARIANT LogOfShownRun
INVARIANT FormFree
PROPERTY PageSettles
