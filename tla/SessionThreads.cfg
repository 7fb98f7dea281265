SPECIFICATION Spec
CONSTANTS
  Prompts = {"p1"}
  Cancels = {}
  Closers = {}
  Configs = {}
  Capacity = 2
  Policy = "ask"
  MaxMessages = 1
  Faults = {}
INVARIANT UpdatesBeforeCompletion
CHECK_DEADLOCK FALSE
