SPECIFICATION LiveSpec
CONSTANTS
  Requests = {"r1", "r2"}
  Tools = {}
  PermissionIds = {}
  ToolOf <- NoTools
  Values = {}
  MaxTurns = 3
  MaxTurnBytes = 9
  MaxEventBytes = 9
  EnvelopeBytes = 1
  Keys = {"k1"}
  Calls = {"c1", "c2"}
  KeyOf <- OneKey
  RequestId <- Names2
  MaxSessions = 1
  Recreate = FALSE
  MaxUpdates = 1
INVARIANTS
  TypeOK
  SnapshotFollowsStream
  EndedIsLast
PROPERTIES
  BusyEnds
  EndIsTold
CHECK_DEADLOCK FALSE
