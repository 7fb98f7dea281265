SPECIFICATION Spec
CONSTANTS
  Requests = {"r1", "r2"}
  Tools = {}
  PermissionIds = {}
  ToolOf <- NoTools
  Values = {}
  MaxTurns = 3
  MaxTurnBytes = 9
  MaxEventBytes = 9
  EnvelopeBytes = 1
  Keys = {"k1"}
  Calls = {"c1", "c2"}
  KeyOf <- OneKey
  RequestId <- Names2
  MaxSessions = 2
  Recreate = TRUE
  MaxUpdates = 1
INVARIANTS
  SnapshotFollowsStream
CHECK_DEADLOCK FALSE
