------------------------------ MODULE Pipeline ------------------------------
(***************************************************************************)
(* processing/pipeline.py and extraction_orchestrator.py: one mail on its  *)
(* way through cleaner, rule engine, model and reconciler, as              *)
(* services/email_processing_service.py drives it.  The model server may   *)
(* be out of reach, which aborts the batch, or answer with something that  *)
(* cannot be parsed in time, which leaves the rules alone.                 *)
(***************************************************************************)
EXTENDS Reconciler

CONSTANTS
  Mails,            \* the mails that may come in
  RequiredAnswers,  \* what the model may answer to the full prompt
  AuditAnswers,     \* what it may answer to the audit prompt
  Configured        \* whether a model is configured

ASSUME PipelineAssumption ==
  /\ Mails \subseteq Mail
  /\ RequiredAnswers \subseteq ModelResult
  /\ AuditAnswers \subseteq ModelAudit
  /\ Configured \in BOOLEAN
  /\ None \notin ModelResult \cup Mail \cup RuleResult \cup FinalResult
  /\ None \notin ModelExecutionMode

VARIABLES
  stage,    \* the step the mail has reached
  mail,     \* what the patterns find in it
  blocked,  \* whether its stored sender_trust_level is "blocked"
  rules,    \* RuleExtractionResult
  mode,     \* ModelExecutionMode
  model,    \* ModelClassificationResult, or None
  final     \* FinalClassificationResult

vars == <<stage, mail, blocked, rules, mode, model, final>>

Init ==
  /\ stage = "cleaned"
  /\ mail \in Mails
  /\ blocked \in BOOLEAN
  /\ rules = None
  /\ mode = None
  /\ model = None
  /\ final = None

\* The rule engine, and on its result the choice of mode.
ExtractAndSelect ==
  /\ stage = "cleaned"
  /\ rules' = extract(mail)
  /\ mode' = select_mode(rules', mail.shaped, blocked, Configured)
  /\ stage' = "selected"
  /\ UNCHANGED <<mail, blocked, model, final>>

\* No call, or a call whose answer was late or could not be parsed.
NoAnswer ==
  /\ stage = "selected"
  /\ stage' = "classified"
  /\ UNCHANGED <<mail, blocked, rules, mode, model, final>>

Answer ==
  /\ stage = "selected"
  /\ \/ mode = "model_required" /\ model' \in RequiredAnswers
     \/ /\ mode = "model_audit"
        /\ model' \in {AuditToClassification(a, rules) : a \in AuditAnswers}
  /\ stage' = "classified"
  /\ UNCHANGED <<mail, blocked, rules, mode, final>>

\* ModelUnavailableError: no connection, or any HTTP error status.
Unavailable ==
  /\ stage = "selected"
  /\ mode # "skip_model"
  /\ stage' = "aborted"
  /\ UNCHANGED <<mail, blocked, rules, mode, model, final>>

Reconcile ==
  /\ stage = "classified"
  /\ final' = reconcile(rules, model, mail.shaped)
  /\ stage' = "done"
  /\ UNCHANGED <<mail, blocked, rules, mode, model>>

Next == ExtractAndSelect \/ NoAnswer \/ Answer \/ Unavailable \/ Reconcile

Spec == Init /\ [][Next]_vars

-----------------------------------------------------------------------------
(* Properties *)

\* The stages hold what their results may hold.
TypeOK ==
  /\ stage \in {"cleaned", "selected", "classified", "aborted", "done"}
  /\ mail \in Mail /\ blocked \in BOOLEAN
  /\ rules \in RuleResult \cup {None}
  /\ mode \in ModelExecutionMode \cup {None}
  /\ model \in ModelResult \cup {None}
  /\ final \in FinalResult \cup {None}
  /\ stage \notin {"cleaned"} => rules # None /\ mode # None
  /\ stage = "done" <=> final # None

\* A mail the rules read as a delivery keeps status and type, whatever the model
\* answers and however sure it is.
DeliveryStands ==
  final # None /\ rules.status = "delivered"
    => final.status = "delivered" /\ final.type = RuleType(rules)

\* The model never changes a mail's type unnoticed: either the result is flagged for
\* review, or the mail is no physical parcel and dropped, or the rules had seen
\* nothing and the model is very sure.
NoSilentOverride ==
  final # None /\ final.type # RuleType(rules)
    => \/ final.review
       \/ final.type \in NON_PHYSICAL /\ ~final.relevant
       \/ RuleType(rules) = "non_shipping" /\ model.confidence >= 90

\* A confident reading of the rules only gives way to a confident model, or to one
\* that sees no physical parcel.
ConfidentRulesYield ==
  final # None /\ rules.confidence >= 90
    /\ (final.type # RuleType(rules) \/ final.status # rules.status)
    => model.confidence >= 70 \/ final.type \in NON_PHYSICAL

\* An order confirmation becomes a shipping update only on physical evidence: a
\* tracking number, or a carrier named by the model.
ConfirmationNeedsEvidence ==
  final # None /\ RuleType(rules) = "order_confirmation"
    /\ final.type = "shipping_update"
    => final.tracking # None \/ model.carrier

\* What the rules read as mail about a parcel reaches the shipments, past the
\* reconciler's relevance and the resolution's own list of types, unless the model sees
\* no physical parcel in it or the result is flagged for review: no combination of an
\* unknown status, a low confidence and another type drops it unnoticed.
ParcelsAreNotLost ==
  final # None /\ rules.shipping /\ rules.status # None
    => \/ final.relevant /\ final.type \notin NON_PHYSICAL_TYPES
       \/ final.review
       \/ model # None /\ model.type \in NON_PHYSICAL

\* The model cannot displace a tracking number the rules found, and a structured one
\* is never given up for a bare number.
RulesKeepTracking ==
  final # None /\ rules.tracking # {}
    => /\ final.tracking \in Values(rules.tracking)
       /\ (\E c \in rules.tracking : c.structured)
            => \E c \in rules.tracking : c.structured /\ c.value = final.tracking

\* Status matching uses only the body, unless the subject says "Ordered:".
StatusFromBody ==
  rules # None /\ rules.status # None /\ ~mail.ordered
    => rules.status \in mail.bodyPhrases

\* A result whose sources disagree is recorded as a disagreement.
DisagreementRecorded ==
  final # None /\ final.agreed = FALSE => final.conflict # None

=============================================================================
