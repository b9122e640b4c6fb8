SPECIFICATION Spec
CONSTANTS
  Statuses = {"order_confirmed", "shipped", "in_transit", "delivered", "action_required", "delayed_or_problem", "unknown"}
  MaxDate = 3
  MaxEvents = 4
INVARIANTS
  SeverityMatchesReference
  CodesMatchReference
  CurrentStatusIsAuthoritative
PROPERTIES
  SeverityNeverImproves
  LateMailDoesNotMoveStatus
CHECK_DEADLOCK FALSE
