SPECIFICATION Spec
CONSTANTS
  Objects = {"o1", "o2"}
  Passphrases = {"", "right", "wrong"}
  Lengths = {3}
  Chunk = 2
  Tag = 1
  Fixed = 2
  CacheCap = 1
  CacheTtls = {0, 2}
  LongFrom = 2
  MaxKeys = 2
  MaxFaults = 1
INVARIANTS ReadableAgain RangeExact
PROPERTY RevokedIsCut
