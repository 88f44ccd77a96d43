SPECIFICATION Spec
CONSTANTS
  Handlers = {1, 2}
  Identities <- TwoProviders
  Users = {1, 2}
  Scenarios <- Start
  ScopeLists <- Asked
  KnownScopes <- Known
  Ops <- AllOps
  MaxTokens = 2
  NameTries = 2
  MaxCalls = 3
  MaxRows = 2
  MaxSessions = 3
  MaxStates = 1
  MaxFaults = 1
INVARIANTS SessionOfLinkedAccount NoSecondAccount DeadCredentialRefused
PROPERTIES AddressClaimsNothing OnlyARaceLocksOut
CHECK_DEADLOCK FALSE
