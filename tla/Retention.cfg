SPECIFICATION Spec
CONSTANTS
  Keys = {1, 2}
  Under <- Nested
  Touched = {2}
  DriveCount = 2
  Failing = {1}
  Setters = {"c"}
  Deleters = {"c"}
  Writers = {"c"}
  Settings <- SomeSettings
  Days = 1
  PageMax = 1
  MaxClock = 1
  MaxRequests = 2
  MaxUpsets = 1
INVARIANTS LockHonoured SidecarsBelong
PROPERTY Expires
CHECK_DEADLOCK FALSE
