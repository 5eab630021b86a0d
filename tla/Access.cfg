SPECIFICATION Spec
CONSTANTS
  Users = {"alice"}
  Buckets = {"reports", "logs", "minio"}
  Shadowed = {"minio"}
  Names = {"readonly"}
  Fields = {{""}, {"", "reports"}}
  Tasks = {t1, t2}
  Clients = {c1, c2}
  MaxChanges = 3
  LastRequest = 2
  MaxClock = 1
  MaxFaults = 1
SYMMETRY Symmetric
INVARIANT RestartInvisible
INVARIANT RevokedStaysOut
 
INVARIANT AuditComplete
CHECK_DEADLOCK FALSE
