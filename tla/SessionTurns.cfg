SPECIFICATION Spec
CONSTANTS
  Prompts = {p1, p2}
  Cancels = {"c1"}
  Closers = {}
  Configs = {}
  Capacity = 2
  Policy = "ask"
  MaxMessages = 1
  Faults = {"deaf", "release"}
SYMMETRY Exchange
INVARIANTS
  TypeOK
  OneTurnAtTheAgent
  OnlyLateOnesStray
  QuestionsEndWithTheTurn
PROPERTY KeepsPromise
CHECK_DEADLOCK FALSE
