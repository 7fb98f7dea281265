SPECIFICATION LiveSpec
CONSTANTS
  CallTimeout = 2
  ApprovalDeadline = 3
  MaxQueued = 1
  MaxCalls = 3
  MaxFrames = 3
INVARIANTS
  TypeOK
  ApprovedIsMine
  PresenceIsFresh
  CallsAreBounded
PROPERTIES
  ApprovalIsNotMissed
  ApprovalIsKept
CHECK_DEADLOCK FALSE
