SPECIFICATION LiveSpec
CONSTANTS
  Opens = {"s1", "s2"}
  Auths = {"s2"}
  Closes = {"c1", "c2"}
  Configured = {"s1"}
  Faults = {"timeout", "drop", "exit", "stuck", "stop", "error"}
  Threads = "one"
INVARIANTS
  TypeOK
  ClosesForACause
  CloseCleansUp
PROPERTIES
  ClosingEndsAll
  EveryCallReturns
CHECK_DEADLOCK FALSE
