SPECIFICATION MCSpec
CONSTANTS
  MaxOps = 4
  MaxSwitches = 2
  MaxExtras = 1
  N = 4
  K = 2
  MaxErasureOps = 3
  MaxDriveFaults = 2
INVARIANTS Consistent Kept  ErasureKept 
PROPERTY ImplementsVersionedKey
PROPERTY ErasureImplementsVersionedKey
CHECK_DEADLOCK FALSE
