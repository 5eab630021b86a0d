SPECIFICATION Spec
CONSTANTS
  N = 4
  K = 2
  MaxWrites = 2
  Shapes <- MCStaleShapes
INVARIANT QuorumReadable
CHECK_DEADLOCK FALSE
