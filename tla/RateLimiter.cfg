SPECIFICATION Spec
CONSTANTS
  IPs = {ip1, ip2}
  Limit = 2
  WindowSeconds = 2
  TicksPerSecond = 2
  MaxClock = 9
SYMMETRY IPSymmetry
CHECK_DEADLOCK FALSE
INVARIANT TypeOK
INVARIANT WindowRespected
PROPERTY DenialEarned
PROPERTY RetryAfterHonest
