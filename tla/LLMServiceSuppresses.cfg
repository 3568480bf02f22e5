SPECIFICATION MCSpec
CONSTANTS
  Callers = {c1, c2}
  Key = FALSE
  MaxAttempts = 2
  Cooldown = 2
SYMMETRY CallerSymmetry
PROPERTY NeverSuppressesReachable
