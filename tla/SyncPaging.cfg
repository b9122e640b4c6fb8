SPECIFICATION Spec
CONSTANTS
  None = None
  Accounts = {"me"}
  Requests = {r1}
  MaxMail = 3
  HistoryPage = 1
  BatchSize = 2
  ProfileFails = FALSE
  MayRemove = FALSE
  r1 = r1
INVARIANTS
  NoMailSkipped
