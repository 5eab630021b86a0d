SPECIFICATION Spec
CONSTANTS
  Gateways = {g1, g2}
  Free = Free
  N = 3
  MaxRounds = 2
  MaxSessions = 1
  MaxFaults = 2
INVARIANTS TokensTellApart StaleHolderFenced ExclusiveWhileLeased
PROPERTY LeaseNotStolen
CHECK_DEADLOCK FALSE
