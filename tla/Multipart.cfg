SPECIFICATION Spec
CONSTANTS
  Parts = {1, 2}
  Tasks = {t1, t2, t3}
  MaxOps = 4
  MaxCuts = 1
SYMMETRY Symmetric
INVARIANT Faithful
INVARIANT PublishedOnce
INVARIANT Reclaimed
CHECK_DEADLOCK FALSE
