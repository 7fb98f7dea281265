SPECIFICATION Spec
CONSTANTS
  CallTimeout = 1
  ApprovalDeadline = 2
  MaxQueued = 1
  MaxCalls = 2
  MaxFrames = 1
PROPERTIES
  PollWaitsForApproval
CHECK_DEADLOCK FALSE
