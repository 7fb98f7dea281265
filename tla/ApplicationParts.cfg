SPECIFICATION Spec
CONSTANTS
  Services = {"a", "b"}
  KeysOf <- MCKeysOf
  EnvKey = "key_env"
  MaxStarts = 3
  Ids = {"d1", "d2"}
  BadIds = {"D"}
  Kinds = {"chat"}
  Placements = {"left", "right"}
  Tokens = {"t1"}
INVARIANTS
  TypeOK
  KeyIsOfItsService
  NoStrayServer
  AuthenticatedIsReal
  DocksAgree
CHECK_DEADLOCK FALSE
