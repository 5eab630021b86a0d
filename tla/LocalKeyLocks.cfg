SPECIFICATION FairSpec
CONSTANTS
  Tasks = {t1, t2, t3}
  Keys = {k1, k2, k3, k4}
  Arcs = {1, 2, 3, 4}
  None = None
  MaxIdle = 1
INVARIANTS
  OneMutexPerKey
  MutualExclusion
PROPERTIES
  NoStarvation
  ImplementsKeyMutex
