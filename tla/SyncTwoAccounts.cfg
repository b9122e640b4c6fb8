SPECIFICATION FairSpec
CONSTANTS
  None = None
  Accounts = {"me", "you"}
  Requests = {r1}
  MaxMail = 1
  HistoryPage = 1
  BatchSize = 2
  ProfileFails = FALSE
  MayRemove = FALSE
  r1 = r1
PROPERTIES
  IngestedIsProcessed
