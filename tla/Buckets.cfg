SPECIFICATION Spec
CONSTANTS
  N = 3
  Quorum = 2
  Clients = {c1, c2}
  Kinds = {"policy", "versioning"}
  MaxRequests = 3
  MaxFaults = 1
INVARIANT ReadsLastWrite
INVARIANT VersioningFailSafe
INVARIANT DeleteSparesObjects
CHECK_DEADLOCK FALSE
