SPECIFICATION Spec
CONSTANTS
  None = None
  Emails = {"confirm", "ship", "deliver", "second", "late", "other"}
  ReceivedAt <- MCReceivedAt
  Now = 4
  Trackings = {"t1", "t2"}
  Structured = {"t2"}
  Orders = {"o1"}
  Merchants = {"A", "B"}
  Senders = {}
  Confidences = {60, 90}
  Extractions <- MCReread
  MaxId = 5
INVARIANTS
  TypeOK
  RowReflectsEvents
  NoDuplicateEvents
  OneTrackingAlias
  TrackingAnchored
  EventsReachable
PROPERTIES
  DeliveredIsFinal
  HistoryOnlyGrows
  DeletionIsTotal
  ImplementsTimelines
CHECK_DEADLOCK FALSE
