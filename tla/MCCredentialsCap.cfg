SPECIFICATION Spec
CONSTANTS
  Handlers = {1}
  Identities <- TwoProviders
  Users = {1, 2}
  Scenarios <- OneAccount
  ScopeLists <- OneScope
  KnownScopes <- Known
  Ops <- TokenOps
  MaxTokens = 2
  NameTries = 2
  MaxCalls = 7
  MaxRows = 5
  MaxSessions = 3
  MaxStates = 1
  MaxFaults = 0
INVARIANT TokensCapped
CHECK_DEADLOCK FALSE
