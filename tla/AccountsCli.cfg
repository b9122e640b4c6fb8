SPECIFICATION Spec
CONSTANTS
  None = None
  Torn = Torn
  Accounts = {"home", "work"}
  WebCalls = {"w1"}
  CliCalls = {"k1"}
  MaxFlows = 3
  MaxGrants = 2
INVARIANTS
  TokensAreOwn
CHECK_DEADLOCK FALSE
