SPECIFICATION ParsliSpec
CONSTANTS
  None = None
  Emails = {"ship", "deliver", "note"}
  ReceivedAt <- MCReceivedAt
  Now = 2
  Trackings = {"t1"}
  Structured = {"t1"}
  Orders = {"o1"}
  Merchants = {}
  Senders = {}
  Confidences = {0, 40, 60, 70, 75, 80, 95}
  Extractions <- MCExtractions
  MaxId = 3
  MaxVersion = 2
  MaxSyncs = 2
  Domains = {"shop", "mail.shop", "carrier", "free"}
  Addresses = {"me", "shop@", "carrier@"}
  Covers <- MCCovers
  DefaultExcluded = {}
  DomainClass <- MCClass
  From <- MCFrom
  FromDomain <- MCFromDomain
  Terms <- MCTerms
  Own = "me"
  Edits <- MCEdits
  SenderName <- MCSenderName
  Text <- MCText
  RequiredAnswers <- MCAnswers
  AuditAnswers <- MCAudits
INVARIANTS
  SelfSentNeverReturned
CHECK_DEADLOCK FALSE
