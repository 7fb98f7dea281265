SPECIFICATION Spec
CONSTANTS
  Prompts = {"p1"}
  Cancels = {}
  Closers = {"k1"}
  Configs = {"g1"}
  Capacity = 2
  Policy = "ask"
  MaxMessages = 0
  Faults = {"drop","lost"}
INVARIANTS
  DropStopsTheAgent
PROPERTIES
  KeepsPromise
  TurnsAreConcluded
CHECK_DEADLOCK FALSE
