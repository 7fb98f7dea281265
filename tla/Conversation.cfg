SPECIFICATION MCSpec
CONSTANTS
  Requests = {"r1", "r2"}
  Tools = {"t1", "t2"}
  PermissionIds = {"p1", "p2"}
  ToolOf <- MCToolOf
  Values = {"v1", "v2"}
  MaxTurns = 1
  MaxTurnBytes = 4
  MaxEventBytes = 4
  EnvelopeBytes = 1
  Self = "c1"
  Other = "c2"
  Events <- AllEvents
  StrayEvents <- Strange
  MaxLog = 3
  MaxReloads = 1
INVARIANTS
  TypeOK
  TurnsEndAtFirstTerminal
  PermissionsAwaitAnAnswer
  StatusTellsTheTurn
  TurnRendersItsLog
  ConfigurationComesFromATurn
PROPERTIES
  ReadsInOrder
  ReplayCatchesUp
