SPECIFICATION RaceSpec
CONSTANTS
  None = None
  Emails = {"confirm", "deliver", "other", "ship"}
  ReceivedAt <- MCReceivedAt
  Now = 2
  Trackings = {}
  Structured = {}
  Orders = {"o1", "o2"}
  Merchants = {"A"}
  Senders = {}
  Confidences = {90}
  Extractions <- MCExtractions
  MaxId = 4
  MaxRebuilds = 2
INVARIANTS
  EventsHaveRow
PROPERTIES
  StaleOnlyAtTarget
  RestRepaired
CHECK_DEADLOCK FALSE
