SPECIFICATION Spec
CONSTANTS
  None = None
  Torn = Torn
  Accounts = {home, work}
  WebCalls = {"w1"}
  CliCalls = {k1, k2}
  MaxFlows = 3
  MaxGrants = 2
SYMMETRY Symmetry
INVARIANTS
  TypeOK
  OwnCredentials
PROPERTIES
  RemovalIsFinal
CHECK_DEADLOCK FALSE
