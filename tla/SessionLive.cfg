SPECIFICATION LiveSpec
CONSTANTS
  Prompts = {"p1"}
  Cancels = {"c1"}
  Closers = {}
  Configs = {}
  Capacity = 2
  Policy = "ask"
  MaxMessages = 1
  Faults = {"timeout"}
PROPERTIES
  KeepsPromise
  EveryCallReturns
  PermissionExpires
CHECK_DEADLOCK FALSE
