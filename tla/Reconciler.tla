----------------------------- MODULE Reconciler -----------------------------
(***************************************************************************)
(* processing/reconciler.py: one result out of the rules' reading of a     *)
(* mail and the model's, when there is one.  The branches are tried in the *)
(* order of the code, and each fixes type, source, reason and review flag; *)
(* status, relevance and identifiers follow from them.                     *)
(***************************************************************************)
EXTENDS Classification, Sequences

DecisionSource ==
  { "rule", "rule_model_agree", "model_override", "rule_override",
    "semantic_guard", "review_needed", "model_fallback" }

ConflictReason ==
  { "delivered_is_terminal", "non_physical_email_type", "low_model_confidence",
    "model_inferred_shipping_without_shipping_evidence",
    "rules_missed_semantic_email_type", "low_confidence", "conflict" }

IgnoreReason ==
  { "digital_product", "billing_only", "invoice", "not_shipping_shaped",
    "non_shipping", "no_status_matched" }

CARRIER_HANDOFF_STATUSES ==
  {"shipped", "received_by_carrier", "in_transit", "out_for_delivery"}

\* _NON_PHYSICAL; unlike in the resolution service, non_shipping is not one.
NON_PHYSICAL == {"digital_product", "billing_only"}

RuleType(rules) == email_type_from_status(rules.status, rules.invoice)

\* Faulty variant: an unknown status of the model counts like any other.
ModelStatusAsAnswered(model) == IF model = None THEN None ELSE model.status

\* An unknown status of the model is no status.
ModelStatus(model) ==
  IF model = None THEN None
  ELSE IF model.status = "unknown" THEN None ELSE model.status

has_shipping_evidence(rules, model) ==
  \/ rules.tracking # {}
  \/ rules.status \in CARRIER_HANDOFF_STATUSES
  \/ model.tracking # << >>
  \/ model.carrier

Verdict(type, source, conflict, review) ==
  [type |-> type, source |-> source, conflict |-> conflict, review |-> review]

\* Faulty variants of _reconcile_email_type: the semantic guard is missing,
ReconcileWithoutGuard(rules, model) ==
  LET ruleType == RuleType(rules)
  IN  IF ruleType = model.type
      THEN Verdict(ruleType, "rule_model_agree", None, FALSE)
      ELSE IF rules.confidence >= 90 /\ model.confidence < 70
      THEN Verdict(ruleType, "rule_override", "low_model_confidence", FALSE)
      ELSE IF ruleType = "non_shipping" /\ model.confidence >= 90
      THEN Verdict(model.type, "model_override", "rules_missed_semantic_email_type",
                   FALSE)
      ELSE IF rules.confidence < 50 /\ model.confidence < 50
      THEN Verdict(IF rules.confidence >= model.confidence THEN ruleType ELSE model.type,
                   "review_needed", "low_confidence", TRUE)
      ELSE Verdict(model.type, "model_fallback", "conflict", TRUE)

\* and confident rules do not override.
ReconcileWithoutRuleOverride(rules, model) ==
  LET ruleType == RuleType(rules)
  IN  IF ruleType = model.type
      THEN Verdict(ruleType, "rule_model_agree", None, FALSE)
      ELSE IF /\ ruleType = "order_confirmation"
              /\ model.type = "shipping_update"
              /\ ~has_shipping_evidence(rules, model)
      THEN Verdict(ruleType, "semantic_guard",
                   "model_inferred_shipping_without_shipping_evidence", FALSE)
      ELSE Verdict(model.type, "model_fallback", "conflict", TRUE)

\* _reconcile_email_type
reconcile_email_type(rules, model) ==
  LET ruleType == RuleType(rules)
  IN  IF ruleType = model.type
      THEN Verdict(ruleType, "rule_model_agree", None, FALSE)
      ELSE IF rules.confidence >= 90 /\ model.confidence < 70
      THEN Verdict(ruleType, "rule_override", "low_model_confidence", FALSE)
      ELSE IF /\ ruleType = "order_confirmation"
              /\ model.type = "shipping_update"
              /\ ~has_shipping_evidence(rules, model)
      THEN Verdict(ruleType, "semantic_guard",
                   "model_inferred_shipping_without_shipping_evidence", FALSE)
      ELSE IF ruleType = "non_shipping" /\ model.confidence >= 90
      THEN Verdict(model.type, "model_override", "rules_missed_semantic_email_type",
                   FALSE)
      ELSE IF rules.confidence < 50 /\ model.confidence < 50
      THEN Verdict(IF rules.confidence >= model.confidence THEN ruleType ELSE model.type,
                   "review_needed", "low_confidence", TRUE)
      ELSE Verdict(model.type, "model_fallback", "conflict", TRUE)

Agreed(rules, model) ==
  RuleType(rules) = model.type /\ rules.status = ModelStatus(model)

\* Faulty variants of the branches: the model's non-physical types go first,
DecideNonPhysicalFirst(rules, model) ==
  IF model = None
  THEN Verdict(RuleType(rules), "rule", None, FALSE)
  ELSE IF Agreed(rules, model)
  THEN Verdict(RuleType(rules), "rule_model_agree", None, FALSE)
  ELSE IF model.type \in NON_PHYSICAL
  THEN Verdict(model.type, "model_override", "non_physical_email_type", FALSE)
  ELSE reconcile_email_type(rules, model)

\* and every disagreement goes to the model without a flag.
DecideForModel(rules, model) ==
  IF model = None \/ rules.status = "delivered"
  THEN Verdict(RuleType(rules), "rule", None, FALSE)
  ELSE IF model.confidence >= rules.confidence
  THEN Verdict(model.type, "model_override", "conflict", FALSE)
  ELSE reconcile_email_type(rules, model)

\* The branches of reconcile.
Decide(rules, model) ==
  IF model = None
  THEN Verdict(RuleType(rules), "rule", None, FALSE)
  ELSE IF Agreed(rules, model)
  THEN Verdict(RuleType(rules), "rule_model_agree", None, FALSE)
  ELSE IF rules.status = "delivered"
  THEN Verdict(RuleType(rules), "rule_override", "delivered_is_terminal", FALSE)
  ELSE IF model.type \in NON_PHYSICAL
  THEN Verdict(model.type, "model_override", "non_physical_email_type", FALSE)
  ELSE reconcile_email_type(rules, model)

\* Status selection follows the type's winner, where that one has a status.
TakesModelStatus(verdict, rules, model) ==
  /\ ModelStatus(model) # None
  /\ \/ /\ verdict.source \in {"model_override", "model_fallback"}
        /\ verdict.conflict # "non_physical_email_type"
     \/ /\ verdict.source \in {"rule_model_agree", "review_needed"}
        /\ model.confidence > rules.confidence

\* Faulty variant: no status of either is no status.
StatusOfEither(verdict, rules, model) ==
  IF TakesModelStatus(verdict, rules, model) THEN model.status ELSE rules.status

FinalStatus(verdict, rules, model) ==
  CASE TakesModelStatus(verdict, rules, model) -> model.status
    [] ~TakesModelStatus(verdict, rules, model) /\ rules.status = None -> "unknown"
    [] OTHER -> rules.status

IsRelevant(type, status, rules, model) ==
  /\ type \notin NON_PHYSICAL
  /\ rules.shipping \/ (model # None /\ model.type \notin NON_PHYSICAL_TYPES)
  /\ ~rules.invoice
  /\ status # "unknown"

\* The reason an irrelevant mail is ignored for.
ReasonToIgnore(type, rules, model, shaped) ==
  IF type \in NON_PHYSICAL THEN type
  ELSE IF rules.invoice THEN "invoice"
  ELSE IF ~shaped THEN "not_shipping_shaped"
  ELSE IF model # None /\ model.type = "non_shipping" THEN "non_shipping"
  ELSE "no_status_matched"

\* The values a model's list adds to those the rules found, by place.
Added(values, known) == {i \in DOMAIN values : values[i] \notin Values(known)}

MergedTracking(rules, model) ==
  rules.tracking \cup
    IF model = None THEN {}
    ELSE { [ value |-> model.tracking[i], structured |-> FALSE,
             source |-> "unknown", place |-> i ]
           : i \in Added(model.tracking, rules.tracking) }

SelectedTracking(rules, model) ==
  LET merged == MergedTracking(rules, model)
  IN  IF merged = {} THEN None ELSE select_best_tracking(merged).value

\* order_vals[0]: the rules' come first.
SelectedOrder(rules, model) ==
  IF rules.orders # {}
  THEN (CHOOSE o \in rules.orders : \A p \in rules.orders : o.place <= p.place).value
  ELSE IF model # None /\ model.orders # << >> THEN model.orders[1] ELSE None

\* FinalClassificationResult
FinalResult ==
  [ type: EmailType, status: ShipmentStatus, confidence: Int,
    tracking: Identifiers \cup {None}, order: Identifiers \cup {None},
    merchant: Merchants \cup {None}, relevant: BOOLEAN,
    ignoreReason: IgnoreReason \cup {None}, source: DecisionSource,
    conflict: ConflictReason \cup {None}, review: BOOLEAN,
    agreed: BOOLEAN \cup {None},
    method: {"rules_only", "model_only", "rules+model"} ]

reconcile(rules, model, shaped) ==
  LET verdict  == Decide(rules, model)
      taken    == TakesModelStatus(verdict, rules, model)
      status   == FinalStatus(verdict, rules, model)
      relevant == IsRelevant(verdict.type, status, rules, model)
  IN  [ type         |-> verdict.type,
        status       |-> status,
        confidence   |-> IF taken THEN model.confidence ELSE rules.confidence,
        tracking     |-> SelectedTracking(rules, model),
        order        |-> SelectedOrder(rules, model),
        merchant     |-> IF rules.merchant # None \/ model = None
                         THEN rules.merchant ELSE model.merchant,
        relevant     |-> relevant,
        ignoreReason |-> IF relevant THEN None
                         ELSE ReasonToIgnore(verdict.type, rules, model, shaped),
        source       |-> verdict.source,
        conflict     |-> verdict.conflict,
        review       |-> verdict.review,
        agreed       |-> IF model = None THEN None ELSE Agreed(rules, model),
        method       |-> CASE model = None -> "rules_only"
                           [] model # None /\ taken /\ rules.status = None
                                /\ verdict.source \in {"model_override", "model_fallback"}
                                -> "model_only"
                           [] OTHER -> "rules+model" ]

=============================================================================
