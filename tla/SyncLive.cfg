SPECIFICATION FairSpec
CONSTANTS
  None = None
  Accounts = {"me"}
  Requests = {r1, r2}
  MaxMail = 2
  HistoryPage = 2
  BatchSize = 1
  ProfileFails = FALSE
  MayRemove = FALSE
  r1 = r1
  r2 = r2
PROPERTIES
  IngestedIsProcessed
  NewMailIsIngested
