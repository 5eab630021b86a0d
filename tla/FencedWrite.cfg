SPECIFICATION SpecWrite
CONSTANTS
  Gateways = {g1, g2}
  Free = Free
  NoFile = NoFile
  N = 2
  WriteQuorum = 2
  MaxRounds = 1
  MaxSessions = 1
  MaxFaults = 1
INVARIANT SafeWhileLeased
PROPERTY AdmissionInOrder
SYMMETRY Symmetry
CHECK_DEADLOCK FALSE
