SPECIFICATION Spec
CONSTANTS
  None = None
  Identifiers = {"t1", "n1"}
  Merchants = {"A"}
  Confidences = {40, 49, 50, 69, 70, 89, 90, 95, 9500}
  Mails <- MCMails
  RequiredAnswers <- MCAnswers
  AuditAnswers <- MCAudits
  Configured = TRUE
INVARIANTS
  TypeOK
  DeliveryStands
  NoSilentOverride
  ConfidentRulesYield
  ConfirmationNeedsEvidence
  ParcelsAreNotLost
  RulesKeepTracking
CHECK_DEADLOCK FALSE
