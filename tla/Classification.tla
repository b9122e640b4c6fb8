--------------------------- MODULE Classification ---------------------------
(***************************************************************************)
(* The pure part of the extraction pipeline: what the rule engine reads    *)
(* out of one mail (processing/rule_engine.py, domain/identifiers.py),     *)
(* whether and how the model is asked (processing/model_classifier.py) and *)
(* how its answer is reconciled with the rules (processing/reconciler.py). *)
(*                                                                         *)
(* A mail is what the regular expressions find in it; a confidence is in   *)
(* hundredths.  Evidence texts, amounts, pickup codes and the model's      *)
(* latency and token counts are left out: nothing depends on them.         *)
(***************************************************************************)
EXTENDS Integers, FiniteSetsExt, Statuses

CONSTANTS
  None,         \* Python's None
  Identifiers,  \* tracking and order numbers, in upper case
  Merchants,    \* merchant names
  Confidences   \* status confidences the model may answer with, in percent; the
                \* prompt asks for 0 .. 100, nothing holds it to that

ASSUME ClassificationAssumption ==
  /\ None \notin Identifiers \cup Merchants \cup ShipmentStatus \cup EmailType
  /\ Confidences \subseteq Int

\* email_type_from_status: billing takes priority over the status.
email_type_from_status(status, invoice) ==
  CASE invoice -> "billing_only"
    [] ~invoice /\ status \in {None, "unknown"} -> "non_shipping"
    [] ~invoice /\ status = "order_confirmed" -> "order_confirmation"
    [] ~invoice /\ status \in {"ready_for_pickup", "action_required"} ->
         "pickup_ready"
    [] ~invoice /\ status = "delivered" -> "delivered"
    [] ~invoice /\ status = "payment_required" -> "payment_problem"
    [] OTHER -> "shipping_update"

-----------------------------------------------------------------------------
(* Identifiers *)

\* The formats of tracking numbers: those with a non-numeric prefix and those
\* believed only near a shipping word.
STRUCTURED_CARRIERS == {"ups", "israel_post", "hfd", "asos"}
CONTEXT_REQUIRED == {"fedex", "dhl", "asos"}
Family == STRUCTURED_CARRIERS \cup CONTEXT_REQUIRED

\* One match of a tracking pattern; place is its turn in the order in which the
\* patterns and their matches are tried.
Found == [ value: Identifiers, family: Family, near: BOOLEAN, mobile: BOOLEAN,
           place: Nat ]

Source == {"subject", "body_near_keyword", "body", "unknown"}

Candidate == [value: Identifiers, structured: BOOLEAN, source: Source, place: Nat]

\* An order number behind one of the order labels.
Labelled == [value: Identifiers, place: Nat]

Values(S) == {c.value : c \in S}

\* The first match of every value.
Firsts(S) == {c \in S : \A d \in S : d.value = c.value => c.place <= d.place}

extract_tracking_candidates(found) ==
  Firsts({f \in found : ~f.mobile /\ (f.family \in CONTEXT_REQUIRED => f.near)})

\* _candidate_score, and the place in the list for min() over equal scores.
Score(c) ==
  << IF c.structured THEN 0 ELSE 1,
     CASE c.source = "subject" -> 0 [] c.source = "body_near_keyword" -> 1
       [] c.source = "body" -> 2    [] OTHER -> 3,
     c.place >>

Stronger(c, d) ==
  \E i \in 1 .. 3 : /\ Score(c)[i] < Score(d)[i]
                    /\ \A j \in 1 .. i - 1 : Score(c)[j] = Score(d)[j]

\* Faulty variant: the structure of a number does not count.
BestBySource(C) ==
  CHOOSE c \in C : \A d \in C : Score(c)[2] <= Score(d)[2]

select_best_tracking(C) == CHOOSE c \in C : \A d \in C : ~Stronger(d, c)

-----------------------------------------------------------------------------
(* RuleEngine.extract *)

\* _STATUS_CONF: the order in which the statuses' phrases are tried.
STATUS_CONF ==
  << <<"delivered", 95>>, <<"action_required", 90>>, <<"ready_for_pickup", 93>>,
     <<"payment_required", 92>>, <<"out_for_delivery", 92>>,
     <<"customs_released", 88>>, <<"customs_pending", 85>>,
     <<"handed_to_local_carrier", 82>>, <<"arrived_in_destination_country", 82>>,
     <<"delayed_or_problem", 80>>, <<"in_transit", 75>>,
     <<"received_by_carrier", 75>>, <<"shipped", 80>>, <<"order_confirmed", 70>> >>

\* What the patterns find in a mail.
Mail ==
  [ processor: BOOLEAN,                     \* the sender is a payment processor
    billing: BOOLEAN,                       \* a billing phrase in the body
    override: BOOLEAN,                      \* a phrase that outweighs it
    ordered: BOOLEAN,                       \* a subject "Ordered:" or "New Order"
    subjectPhrases: SUBSET ShipmentStatus,  \* status phrases in need of the subject
    bodyPhrases: SUBSET ShipmentStatus,     \* status phrases in the body
    found: SUBSET Found,                    \* in subject and body
    inSubject: SUBSET Identifiers,          \* candidates of the subject alone
    labelled: SUBSET Labelled,              \* in subject and body
    merchant: Merchants \cup {None},
    shaped: BOOLEAN ]                       \* is_shipping_shaped

\* The text the status phrases are matched against: the subject, then the body.
StatusPhrases(mail) == mail.subjectPhrases \cup mail.bodyPhrases

detect_status(mail) ==
  LET matching == {i \in DOMAIN STATUS_CONF : STATUS_CONF[i][1] \in StatusPhrases(mail)}
  IN  IF mail.ordered THEN <<"order_confirmed", 85>>
      ELSE IF matching = {} THEN <<None, 0>> ELSE STATUS_CONF[Min(matching)]

RuleResult ==
  [ shipping: BOOLEAN, invoice: BOOLEAN, status: ShipmentStatus \cup {None},
    confidence: 0 .. 100, tracking: SUBSET Candidate, orders: SUBSET Labelled,
    merchant: Merchants \cup {None} ]

InvoiceResult ==
  [ shipping |-> FALSE, invoice |-> TRUE, status |-> None, confidence |-> 0,
    tracking |-> {}, orders |-> {}, merchant |-> None ]

\* A number in the subject is stronger evidence than one in the body only.
Tagged(f, mail) ==
  [ value |-> f.value, structured |-> f.family \in STRUCTURED_CARRIERS,
    source |-> CASE f.value \in mail.inSubject -> "subject"
                 [] f.value \notin mail.inSubject /\ f.family \in CONTEXT_REQUIRED ->
                      "body_near_keyword"
                 [] OTHER -> "body",
    place |-> f.place ]

extract(mail) ==
  LET invoice  == mail.billing /\ ~mail.override
      status   == detect_status(mail)
      orders   == Firsts(mail.labelled)
      tracking == {Tagged(f, mail) : f \in
                     {g \in extract_tracking_candidates(mail.found) :
                        g.value \notin Values(orders)}}
  IN  IF mail.processor THEN InvoiceResult
      ELSE [ shipping   |-> (status[1] # None \/ tracking # {}) /\ ~invoice,
             invoice    |-> invoice,
             status     |-> status[1],
             confidence |-> status[2],
             tracking   |-> tracking,
             orders     |-> orders,
             merchant   |-> mail.merchant ]

-----------------------------------------------------------------------------
(* ModelClassifier *)

ModelExecutionMode == {"skip_model", "model_audit", "model_required"}

select_mode(rules, shaped, blocked, configured) ==
  CASE ~configured \/ blocked \/ (rules.invoice /\ ~shaped) -> "skip_model"
    [] configured /\ ~blocked /\ ~(rules.invoice /\ ~shaped)
         /\ rules.shipping /\ rules.confidence >= 80 -> "model_audit"
    [] OTHER -> "model_required"

\* ModelClassificationResult, the fields reconciliation reads.
ModelResult ==
  [ type: EmailType, status: ShipmentStatus, confidence: Confidences,
    carrier: BOOLEAN, tracking: Seq(Identifiers), orders: Seq(Identifiers),
    merchant: Merchants \cup {None} ]

ModelAudit ==
  [ agrees: BOOLEAN, type: EmailType, status: ShipmentStatus,
    confidence: Confidences ]

\* _audit_to_classification: an audit names no identifiers; one that agrees
\* reflects the rules.
AuditToClassification(audit, rules) ==
  [ type       |-> IF audit.agrees
                   THEN email_type_from_status(rules.status, rules.invoice)
                   ELSE audit.type,
    status     |-> CASE ~audit.agrees -> audit.status
                     [] audit.agrees /\ rules.status = None -> "unknown"
                     [] OTHER -> rules.status,
    confidence |-> audit.confidence,
    carrier    |-> FALSE,
    tracking   |-> << >>,
    orders     |-> << >>,
    merchant   |-> None ]

=============================================================================
