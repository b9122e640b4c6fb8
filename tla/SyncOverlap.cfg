SPECIFICATION Spec
CONSTANTS
  None = None
  Accounts = {"me"}
  Requests = {r1, r2}
  MaxMail = 3
  HistoryPage = 3
  BatchSize = 2
  ProfileFails = TRUE
  MayRemove = TRUE
  r1 = r1
  r2 = r2
SYMMETRY Symmetry
INVARIANTS
  TypeOK
  NoMailSkipped
  RepeatsAreBounded
PROPERTIES
  HistoryIdIsKept
