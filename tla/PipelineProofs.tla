--------------------------- MODULE PipelineProofs ---------------------------
(***************************************************************************)
(* Proofs about Pipeline, for any mails and any answers of the model.  The *)
(* invariant says where a mail's intermediate results come from; what the  *)
(* theorems claim of the outcome is then a fact about the reconciler.      *)
(***************************************************************************)
EXTENDS Pipeline, ChronologyProofs

-----------------------------------------------------------------------------
(* What the rules and the model return *)

\* The phrases' statuses are statuses.
LEMMA StatusNames ==
  { "order_confirmed", "shipped", "received_by_carrier", "in_transit",
    "arrived_in_destination_country", "customs_pending", "customs_released",
    "handed_to_local_carrier", "ready_for_pickup", "out_for_delivery",
    "delivered", "action_required", "payment_required", "delayed_or_problem",
    "unknown" } \subseteq ShipmentStatus
<1>1. /\ MAIN_STATUS_ORDER[1] = "order_confirmed" /\ MAIN_STATUS_ORDER[2] = "shipped"
      /\ MAIN_STATUS_ORDER[3] = "received_by_carrier" /\ MAIN_STATUS_ORDER[4] = "in_transit"
      /\ MAIN_STATUS_ORDER[5] = "arrived_in_destination_country"
      /\ MAIN_STATUS_ORDER[6] = "customs_pending" /\ MAIN_STATUS_ORDER[7] = "customs_released"
      /\ MAIN_STATUS_ORDER[8] = "handed_to_local_carrier"
      /\ MAIN_STATUS_ORDER[9] = "ready_for_pickup"
      /\ MAIN_STATUS_ORDER[10] = "out_for_delivery" /\ MAIN_STATUS_ORDER[11] = "delivered"
      /\ Len(MAIN_STATUS_ORDER) = 11
  BY DEF MAIN_STATUS_ORDER
<1>2. \A i \in 1 .. 11 : MAIN_STATUS_ORDER[i] \in MainStatuses
  BY <1>1 DEF MainStatuses
<1> QED  BY <1>1, <1>2 DEF ShipmentStatus, SIDE_STATUSES

\* A type follows from every status.
LEMMA EmailTypeRange ==
  ASSUME NEW status, NEW invoice
  PROVE  email_type_from_status(status, invoice) \in EmailType
BY DEF email_type_from_status, EmailType

\* A status has a confidence, and without one there is none.
LEMMA DetectStatusType ==
  ASSUME NEW mail0
  PROVE  /\ detect_status(mail0)[1] \in ShipmentStatus \cup {None}
         /\ detect_status(mail0)[2] \in 0 .. 100
         /\ detect_status(mail0)[1] = None => detect_status(mail0)[2] = 0
         /\ detect_status(mail0)[1] # "unknown"
<1> DEFINE matching ==
             {i \in DOMAIN STATUS_CONF : STATUS_CONF[i][1] \in StatusPhrases(mail0)}
<1>1. DOMAIN STATUS_CONF = 1 .. 14
  BY DEF STATUS_CONF
<1>2. \A i \in 1 .. 14 : /\ STATUS_CONF[i][1] \in ShipmentStatus /\ STATUS_CONF[i][2] \in 0 .. 100
                          /\ STATUS_CONF[i][1] # "unknown"
  BY StatusNames DEF STATUS_CONF
<1>3. None \notin ShipmentStatus /\ "unknown" \in ShipmentStatus
  BY ClassificationAssumption, StatusNames
<1>4. matching # {} => Min(matching) \in 1 .. 14
  <2>1. matching \subseteq 1 .. 14 /\ matching \subseteq Nat
    BY <1>1
  <2> HIDE DEF matching
  <2> SUFFICES ASSUME matching # {} PROVE Min(matching) \in matching
    BY <2>1
  <2>2. \E n \in matching : \A i \in matching : n <= i
    BY <2>1, LeastNat
  <2> QED  BY <2>2, Zenon DEF Min
<1>5. detect_status(mail0) =
        IF mail0.ordered THEN <<"order_confirmed", 85>>
        ELSE IF matching = {} THEN <<None, 0>> ELSE STATUS_CONF[Min(matching)]
  BY DEF detect_status
<1> HIDE DEF matching
<1>6. CASE mail0.ordered
  BY <1>3, <1>5, <1>6, StatusNames
<1>7. CASE ~mail0.ordered /\ matching = {}
  BY <1>3, <1>5, <1>7
<1>8. CASE ~mail0.ordered /\ matching # {}
  <2>1. detect_status(mail0) = STATUS_CONF[Min(matching)]
    BY <1>5, <1>8
  <2> QED  BY <1>2, <1>3, <1>4, <1>8, <2>1
<1> QED  BY <1>6, <1>7, <1>8

\* RuleEngine.extract returns a RuleExtractionResult; its candidates say where in the
\* mail they were found.
LEMMA ExtractType ==
  ASSUME NEW mail0 \in Mail
  PROVE  /\ extract(mail0) \in RuleResult
         /\ extract(mail0).status = None => extract(mail0).confidence = 0
         /\ \A c \in extract(mail0).tracking : c.source # "unknown"
         /\ extract(mail0).status # "unknown"
         /\ extract(mail0).shipping => ~extract(mail0).invoice
<1> DEFINE C == {Tagged(f, mail0) : f \in
                   {g \in extract_tracking_candidates(mail0.found) :
                      g.value \notin Values(Firsts(mail0.labelled))}}
           status == detect_status(mail0)
           invoice == mail0.billing /\ ~mail0.override
<1>1. Firsts(mail0.labelled) \subseteq Labelled
  BY DEF Firsts, Mail
<1>2. C \subseteq Candidate /\ \A c \in C : c.source # "unknown"
  <2>1. \A f \in extract_tracking_candidates(mail0.found) : f \in Found
    BY DEF extract_tracking_candidates, Firsts, Mail
  <2>2. ASSUME NEW f \in Found
        PROVE  Tagged(f, mail0) \in Candidate /\ Tagged(f, mail0).source # "unknown"
    BY <2>2 DEF Found, Tagged, Candidate, Source
  <2> QED  BY <2>1, <2>2
<1>3. /\ status[1] \in ShipmentStatus \cup {None} /\ status[2] \in 0 .. 100
      /\ status[1] = None => status[2] = 0
      /\ status[1] # "unknown" /\ None # "unknown"
  BY DetectStatusType, StatusNames, ClassificationAssumption
<1>4. extract(mail0) =
        IF mail0.processor THEN InvoiceResult
        ELSE [ shipping   |-> (status[1] # None \/ C # {}) /\ ~invoice,
               invoice    |-> invoice,
               status     |-> status[1],
               confidence |-> status[2],
               tracking   |-> C,
               orders     |-> Firsts(mail0.labelled),
               merchant   |-> mail0.merchant ]
  BY DEF extract
<1>5. invoice \in BOOLEAN /\ mail0.merchant \in Merchants \cup {None}
  BY DEF Mail
<1> HIDE DEF C, status, invoice
<1>6. CASE mail0.processor
  BY <1>3, <1>4, <1>6 DEF InvoiceResult, RuleResult
<1>7. CASE ~mail0.processor
  <2>1. extract(mail0).shipping => ~extract(mail0).invoice
    <3> DEFINE shipping == (status[1] # None \/ C # {}) /\ ~invoice
    <3>1. extract(mail0) =
            [ shipping |-> shipping, invoice |-> invoice, status |-> status[1],
              confidence |-> status[2], tracking |-> C,
              orders |-> Firsts(mail0.labelled), merchant |-> mail0.merchant ]
      BY <1>4, <1>7
    <3>2. shipping => ~invoice
      OBVIOUS
    <3> HIDE DEF shipping
    <3>3. extract(mail0).shipping = shipping /\ extract(mail0).invoice = invoice
      BY <3>1
    <3> QED  BY <3>2, <3>3, Zenon
  <2>2. /\ extract(mail0) \in RuleResult
        /\ extract(mail0).status = status[1] /\ extract(mail0).confidence = status[2]
        /\ extract(mail0).tracking = C
    BY <1>1, <1>2, <1>3, <1>4, <1>5, <1>7 DEF RuleResult
  <2> QED  BY <1>2, <1>3, <2>1, <2>2
<1> QED  BY <1>6, <1>7

\* An audit stands for an answer that names nothing.
LEMMA AuditType ==
  ASSUME NEW audit \in ModelAudit, NEW r \in RuleResult
  PROVE  AuditToClassification(audit, r) \in ModelResult
<1>1. "unknown" \in ShipmentStatus
  BY StatusNames
<1>2. email_type_from_status(r.status, r.invoice) \in EmailType
  BY EmailTypeRange
<1>3. << >> \in Seq(Identifiers)
  OBVIOUS
<1> QED  BY <1>1, <1>2, <1>3 DEF AuditToClassification, ModelAudit, ModelResult, RuleResult

-----------------------------------------------------------------------------
(* The reconciler *)

\* There is a best candidate wherever there is a candidate, and its score is least.
LEMMA BestTracking ==
  ASSUME NEW C, C \subseteq Candidate, C # {}
  PROVE  /\ select_best_tracking(C) \in C
         /\ \A d \in C : ~Stronger(d, select_best_tracking(C))
<1> DEFINE rank == [c \in C |-> Score(c)]
<1>1. \A c \in C : \A i \in 1 .. 3 : rank[c][i] \in Nat
  <2> SUFFICES ASSUME NEW c \in C PROVE \A i \in 1 .. 3 : Score(c)[i] \in Nat
    OBVIOUS
  <2>1. c.place \in Nat
    BY DEF Candidate
  <2> QED  BY <2>1 DEF Score
<1>2. \A c, d \in C : Stronger(d, c) <=> LexLess(rank[d], rank[c])
  BY DEF Stronger, LexLess
<1> HIDE DEF rank
<1>3. \E c \in C : \A d \in C : ~LexLess(rank[d], rank[c])
  BY <1>1, LeastTriple
<1> QED  BY <1>2, <1>3 DEF select_best_tracking

Answered(m) == m = None \/ m \in ModelResult

\* The model only adds candidates of unknown source.
LEMMA MergedType ==
  ASSUME NEW r \in RuleResult, NEW m, Answered(m)
  PROVE  /\ MergedTracking(r, m) \subseteq Candidate
         /\ r.tracking \subseteq MergedTracking(r, m)
         /\ \A c \in MergedTracking(r, m) \ r.tracking :
              c.source = "unknown" /\ ~c.structured
         /\ r.tracking = {} /\ m # None /\ m.tracking # << >>
              => MergedTracking(r, m) # {}
<1>1. r.tracking \subseteq Candidate
  BY DEF RuleResult
<1>2. CASE m = None
  BY <1>1, <1>2 DEF MergedTracking
<1>3. CASE m # None
  <2> DEFINE new(i) == [ value |-> m.tracking[i], structured |-> FALSE,
                         source |-> "unknown", place |-> i ]
  <2>1. MergedTracking(r, m) = r.tracking \cup {new(i) : i \in Added(m.tracking, r.tracking)}
    BY <1>3 DEF MergedTracking
  <2>2. m.tracking \in Seq(Identifiers)
    BY <1>3 DEF Answered, ModelResult
  <2>3. \A i \in DOMAIN m.tracking : i \in Nat /\ m.tracking[i] \in Identifiers
    BY <2>2
  <2>4. \A i \in Added(m.tracking, r.tracking) : new(i) \in Candidate
    BY <2>3 DEF Added, Candidate, Source
  <2>5. \A i \in Added(m.tracking, r.tracking) :
          new(i).source = "unknown" /\ ~new(i).structured
    OBVIOUS
  <2>6. r.tracking = {} /\ m.tracking # << >> => Added(m.tracking, r.tracking) # {}
    <3> SUFFICES ASSUME r.tracking = {}, m.tracking # << >>
                 PROVE  1 \in Added(m.tracking, r.tracking)
      OBVIOUS
    <3>1. 1 \in DOMAIN m.tracking
      BY <2>2
    <3> QED  BY <3>1 DEF Added, Values
  <2> HIDE DEF new
  <2> QED  BY <1>1, <2>1, <2>4, <2>5, <2>6
<1> QED  BY <1>2, <1>3

\* The number selected is one of the candidates'.
LEMMA SelectedTrackingType ==
  ASSUME NEW r \in RuleResult, NEW m, Answered(m)
  PROVE  /\ SelectedTracking(r, m) \in Identifiers \cup {None}
         /\ MergedTracking(r, m) # {} => SelectedTracking(r, m) \in Identifiers
<1> DEFINE merged == MergedTracking(r, m)
<1>1. merged \subseteq Candidate
  BY MergedType
<1>2. SelectedTracking(r, m)
        = IF merged = {} THEN None ELSE select_best_tracking(merged).value
  BY DEF SelectedTracking
<1> HIDE DEF merged
<1>3. merged # {} => select_best_tracking(merged).value \in Identifiers
  BY <1>1, BestTracking DEF Candidate
<1> QED  BY <1>2, <1>3 DEF merged

LEMMA SelectedOrderType ==
  ASSUME NEW r \in RuleResult, NEW m, Answered(m)
  PROVE  SelectedOrder(r, m) \in Identifiers \cup {None}
<1>1. CASE r.orders # {}
  <2> DEFINE rank == [o \in r.orders |-> o.place]
  <2>1. \A o \in r.orders : o.place \in Nat /\ o.value \in Identifiers
    BY DEF RuleResult, Labelled
  <2>2. \A o \in r.orders : rank[o] \in Nat
    BY <2>1
  <2>3. \E o \in r.orders : \A p \in r.orders : rank[o] <= rank[p]
    <3> HIDE DEF rank
    <3> QED  BY <1>1, <2>2, LeastRanked
  <2>4. \E o \in r.orders : \A p \in r.orders : o.place <= p.place
    BY <2>3
  <2> QED  BY <1>1, <2>1, <2>4 DEF SelectedOrder
<1>2. CASE r.orders = {} /\ m # None /\ m.orders # << >>
  <2>1. m.orders \in Seq(Identifiers)
    BY <1>2 DEF Answered, ModelResult
  <2>2. m.orders[1] \in Identifiers
    BY <1>2, <2>1
  <2> QED  BY <1>2, <2>2 DEF SelectedOrder
<1>3. CASE r.orders = {} /\ ~(m # None /\ m.orders # << >>)
  BY <1>3 DEF SelectedOrder
<1> QED  BY <1>1, <1>2, <1>3

\* The branches of the reconciler in the terms the theorems speak of: v is a verdict
\* that comes from one of them.
Branch(r, m, v) ==
  LET a == RuleType(r)
  IN  \/ m = None /\ v = Verdict(a, "rule", None, FALSE)
      \/ /\ m # None /\ a = m.type
         /\ v = Verdict(a, "rule_model_agree", None, FALSE)
         /\ r.status = "delivered" => r.status = ModelStatus(m)
      \/ /\ m # None /\ r.status = "delivered"
         /\ v = Verdict(a, "rule_override", "delivered_is_terminal", FALSE)
      \/ /\ m # None /\ r.status # "delivered" /\ m.type \in NON_PHYSICAL
         /\ v = Verdict(m.type, "model_override", "non_physical_email_type", FALSE)
      \/ /\ m # None /\ r.status # "delivered"
         /\ \/ v = Verdict(a, "rule_override", "low_model_confidence", FALSE)
            \/ v = Verdict(a, "semantic_guard",
                      "model_inferred_shipping_without_shipping_evidence", FALSE)
      \/ /\ m # None /\ r.status # "delivered"
         /\ r.confidence < 90 \/ m.confidence >= 70
         /\ a = "order_confirmation" /\ m.type = "shipping_update"
              => has_shipping_evidence(r, m)
         /\ \/ /\ a = "non_shipping" /\ m.confidence >= 90
               /\ v = Verdict(m.type, "model_override",
                              "rules_missed_semantic_email_type", FALSE)
            \/ /\ r.confidence < 50
               /\ v \in {Verdict(a, "review_needed", "low_confidence", TRUE),
                        Verdict(m.type, "review_needed", "low_confidence", TRUE)}
            \/ v = Verdict(m.type, "model_fallback", "conflict", TRUE)

LEMMA VerdictFromBranch ==
  ASSUME NEW r \in RuleResult, NEW m, Answered(m)
  PROVE  Branch(r, m, Decide(r, m))
<1> DEFINE a == RuleType(r)
<1>1. r.confidence \in 0 .. 100
  BY DEF RuleResult
<1>2. m # None => m.confidence \in Int
  BY ClassificationAssumption DEF Answered, ModelResult
<1>3. CASE m = None
  BY <1>3 DEF Decide, Branch
<1>4. CASE m # None /\ Agreed(r, m)
  BY <1>4 DEF Decide, Agreed, Branch
<1>5. CASE m # None /\ ~Agreed(r, m) /\ r.status = "delivered"
  BY <1>5 DEF Decide, Branch
<1>6. CASE m # None /\ ~Agreed(r, m) /\ r.status # "delivered" /\ m.type \in NON_PHYSICAL
  BY <1>6 DEF Decide, Branch
<1>7. CASE m # None /\ ~Agreed(r, m) /\ r.status # "delivered" /\ m.type \notin NON_PHYSICAL
  <2>1. Decide(r, m) = reconcile_email_type(r, m)
    BY <1>7 DEF Decide
  <2> HIDE DEF a
  <2>2. reconcile_email_type(r, m) =
          IF a = m.type THEN Verdict(a, "rule_model_agree", None, FALSE)
          ELSE IF r.confidence >= 90 /\ m.confidence < 70
          THEN Verdict(a, "rule_override", "low_model_confidence", FALSE)
          ELSE IF /\ a = "order_confirmation" /\ m.type = "shipping_update"
                  /\ ~has_shipping_evidence(r, m)
          THEN Verdict(a, "semantic_guard",
                       "model_inferred_shipping_without_shipping_evidence", FALSE)
          ELSE IF a = "non_shipping" /\ m.confidence >= 90
          THEN Verdict(m.type, "model_override", "rules_missed_semantic_email_type", FALSE)
          ELSE IF r.confidence < 50 /\ m.confidence < 50
          THEN Verdict(IF r.confidence >= m.confidence THEN a ELSE m.type,
                       "review_needed", "low_confidence", TRUE)
          ELSE Verdict(m.type, "model_fallback", "conflict", TRUE)
    BY DEF reconcile_email_type, a
  <2>3. CASE a = m.type
    BY <1>7, <2>1, <2>2, <2>3 DEF a, Branch
  <2>4. CASE a # m.type /\ r.confidence >= 90 /\ m.confidence < 70
    BY <1>7, <2>1, <2>2, <2>4 DEF a, Branch
  <2>5. CASE /\ a # m.type /\ ~(r.confidence >= 90 /\ m.confidence < 70)
             /\ a = "order_confirmation" /\ m.type = "shipping_update"
             /\ ~has_shipping_evidence(r, m)
    BY <1>7, <2>1, <2>2, <2>5 DEF a, Branch
  <2>6. CASE /\ a # m.type /\ ~(r.confidence >= 90 /\ m.confidence < 70)
             /\ ~(/\ a = "order_confirmation" /\ m.type = "shipping_update"
                  /\ ~has_shipping_evidence(r, m))
    <3>1. /\ r.confidence < 90 \/ m.confidence >= 70
          /\ a = "order_confirmation" /\ m.type = "shipping_update"
               => has_shipping_evidence(r, m)
      BY <1>1, <1>2, <1>7, <2>6
    <3>2. \/ /\ a = "non_shipping" /\ m.confidence >= 90
             /\ Decide(r, m) = Verdict(m.type, "model_override",
                                       "rules_missed_semantic_email_type", FALSE)
          \/ /\ r.confidence < 50
             /\ Decide(r, m) \in {Verdict(a, "review_needed", "low_confidence", TRUE),
                                  Verdict(m.type, "review_needed", "low_confidence", TRUE)}
          \/ Decide(r, m) = Verdict(m.type, "model_fallback", "conflict", TRUE)
      BY <2>1, <2>2, <2>6
    <3> QED  BY <1>7, <3>1, <3>2 DEF a, Branch
  <2> QED  BY <2>3, <2>4, <2>5, <2>6
<1> QED  BY <1>3, <1>4, <1>5, <1>6, <1>7

\* Where the final status comes from.
LEMMA StatusCases ==
  ASSUME NEW r, NEW m, NEW v
  PROVE  \/ /\ TakesModelStatus(v, r, m) /\ m # None
            /\ FinalStatus(v, r, m) = m.status /\ ModelStatus(m) = m.status
         \/ ~TakesModelStatus(v, r, m) /\ r.status = None /\ FinalStatus(v, r, m) = "unknown"
         \/ ~TakesModelStatus(v, r, m) /\ r.status # None /\ FinalStatus(v, r, m) = r.status
BY DEF TakesModelStatus, FinalStatus, ModelStatus

\* A verdict has the type it says it has.
LEMMA VerdictType ==
  ASSUME NEW r \in RuleResult, NEW m, Answered(m)
  PROVE  /\ Decide(r, m).type \in EmailType
         /\ Decide(r, m).source \in DecisionSource
         /\ Decide(r, m).conflict \in ConflictReason \cup {None}
         /\ Decide(r, m).review \in BOOLEAN
<1>1. RuleType(r) \in EmailType
  BY EmailTypeRange DEF RuleType
<1>2. m # None => m.type \in EmailType
  BY DEF Answered, ModelResult
<1> DEFINE a == RuleType(r)
           v == Decide(r, m)
<1>3. Branch(r, m, v)
  BY VerdictFromBranch
<1> HIDE DEF a, v
<1>4. /\ v.type \in {a} \cup (IF m = None THEN {} ELSE {m.type})
      /\ v.source \in DecisionSource /\ v.conflict \in ConflictReason \cup {None}
      /\ v.review \in BOOLEAN
  <2>1. v.type \in {a} \cup (IF m = None THEN {} ELSE {m.type})
    BY <1>3 DEF Branch, Verdict, a
  <2>2. v.source \in DecisionSource
    <3>1. v.source \in { "rule", "rule_model_agree", "rule_override", "model_override",
                        "semantic_guard", "review_needed", "model_fallback" }
      BY <1>3, SMTT(30) DEF Branch, Verdict
    <3> QED  BY <3>1 DEF DecisionSource
  <2>3. v.conflict \in ConflictReason \cup {None}
    BY <1>3 DEF Branch, Verdict, ConflictReason
  <2>4. v.review \in BOOLEAN
    <3>1. \E type, source, conflict :
             \/ v = Verdict(type, source, conflict, TRUE)
             \/ v = Verdict(type, source, conflict, FALSE)
      BY <1>3, ZenonT(30) DEF Branch
    <3>2. \A type, source, conflict :
             /\ Verdict(type, source, conflict, TRUE).review = TRUE
             /\ Verdict(type, source, conflict, FALSE).review = FALSE
      BY DEF Verdict
    <3> QED  BY <3>1, <3>2, Zenon
  <2> QED  BY <2>1, <2>2, <2>3, <2>4
<1>5. v.type \in EmailType
  BY <1>1, <1>2, <1>4 DEF a
<1> QED  BY <1>4, <1>5 DEF v

\* reconcile returns a FinalClassificationResult.
LEMMA ReconcileType ==
  ASSUME NEW r \in RuleResult, NEW m, Answered(m), NEW shaped
  PROVE  reconcile(r, m, shaped) \in FinalResult
<1> DEFINE v == Decide(r, m)
           s == FinalStatus(v, r, m)
           t == TakesModelStatus(v, r, m)
           rel == IsRelevant(v.type, s, r, m)
<1>1. /\ v.type \in EmailType /\ v.source \in DecisionSource
      /\ v.conflict \in ConflictReason \cup {None} /\ v.review \in BOOLEAN
  BY VerdictType
<1>2. /\ r.status \in ShipmentStatus \cup {None} /\ r.confidence \in 0 .. 100
      /\ r.merchant \in Merchants \cup {None} /\ r.shipping \in BOOLEAN
  BY DEF RuleResult
<1>3. m # None => /\ m.status \in ShipmentStatus /\ m.confidence \in Int
                  /\ m.merchant \in Merchants \cup {None}
  BY ClassificationAssumption DEF Answered, ModelResult
<1>4. t => m # None
  BY StatusCases
<1>5. s \in ShipmentStatus
  BY <1>2, <1>3, StatusCases, StatusNames
<1>6. rel \in BOOLEAN
  BY DEF IsRelevant
<1>7. v.type \in NON_PHYSICAL => v.type \in IgnoreReason
  BY DEF NON_PHYSICAL, IgnoreReason
<1>8. ReasonToIgnore(v.type, r, m, shaped) \in IgnoreReason
  BY <1>7 DEF ReasonToIgnore, IgnoreReason
<1>9. SelectedTracking(r, m) \in Identifiers \cup {None}
      /\ SelectedOrder(r, m) \in Identifiers \cup {None}
  BY SelectedTrackingType, SelectedOrderType
<1>10. Agreed(r, m) \in BOOLEAN
  BY DEF Agreed
<1> DEFINE confidence == IF t THEN m.confidence ELSE r.confidence
           merchant == IF r.merchant # None \/ m = None THEN r.merchant ELSE m.merchant
           reason == IF rel THEN None ELSE ReasonToIgnore(v.type, r, m, shaped)
           agreed == IF m = None THEN None ELSE Agreed(r, m)
           method == CASE m = None -> "rules_only"
                       [] m # None /\ t /\ r.status = None
                            /\ v.source \in {"model_override", "model_fallback"} -> "model_only"
                       [] OTHER -> "rules+model"
<1>11. confidence \in Int
  BY <1>2, <1>3, <1>4
<1>12. merchant \in Merchants \cup {None}
  BY <1>2, <1>3
<1>13. reason \in IgnoreReason \cup {None}
  BY <1>8
<1>14. agreed \in BOOLEAN \cup {None}
  BY <1>10
<1>15. method \in {"rules_only", "model_only", "rules+model"}
  OBVIOUS
<1>16. reconcile(r, m, shaped) =
         [ type |-> v.type, status |-> s, confidence |-> confidence,
           tracking |-> SelectedTracking(r, m), order |-> SelectedOrder(r, m),
           merchant |-> merchant, relevant |-> rel, ignoreReason |-> reason,
           source |-> v.source, conflict |-> v.conflict, review |-> v.review,
           agreed |-> agreed, method |-> method ]
  BY DEF reconcile
<1> HIDE DEF v, s, t, rel, confidence, merchant, reason, agreed, method
<1> QED  BY <1>1, <1>5, <1>6, <1>9, <1>11, <1>12, <1>13, <1>14, <1>15, <1>16 DEF FinalResult

-----------------------------------------------------------------------------
(* The invariant *)

\* Every intermediate result is the one its stage computes from the ones before.
Provenance ==
  /\ stage \in {"cleaned", "selected", "classified", "aborted", "done"}
  /\ mail \in Mail /\ blocked \in BOOLEAN
  /\ stage = "cleaned" => rules = None /\ mode = None
  /\ stage # "cleaned" => rules = extract(mail) /\ mode \in ModelExecutionMode
  /\ Answered(model)
  /\ stage # "done" => final = None
  /\ stage = "done" => final = reconcile(rules, model, mail.shaped)

LEMMA ModeType ==
  ASSUME NEW r, NEW shaped, NEW b, NEW c
  PROVE  select_mode(r, shaped, b, c) \in ModelExecutionMode
BY DEF select_mode, ModelExecutionMode

LEMMA ProvenanceInvariance == Spec => []Provenance
<1>1. Init => Provenance
  BY PipelineAssumption DEF Init, Provenance, Answered
<1>2. Provenance /\ [Next]_vars => Provenance'
  <2> SUFFICES ASSUME Provenance, [Next]_vars PROVE Provenance'
    OBVIOUS
  <2>1. CASE ExtractAndSelect
    BY <2>1, ModeType DEF ExtractAndSelect, Provenance
  <2>2. CASE NoAnswer
    BY <2>2 DEF NoAnswer, Provenance
  <2>3. CASE Answer
    <3>1. rules \in RuleResult
      BY <2>3, ExtractType DEF Answer, Provenance
    <3>2. model' \in ModelResult
      BY <2>3, <3>1, AuditType, PipelineAssumption DEF Answer
    <3> QED  BY <2>3, <3>2 DEF Answer, Provenance, Answered
  <2>4. CASE Unavailable
    BY <2>4 DEF Unavailable, Provenance
  <2>5. CASE Reconcile
    BY <2>5 DEF Reconcile, Provenance
  <2>6. CASE UNCHANGED vars
    BY <2>6 DEF vars, Provenance
  <2> QED  BY <2>1, <2>2, <2>3, <2>4, <2>5, <2>6 DEF Next
<1> QED  BY <1>1, <1>2, PTL DEF Spec

\* What is known of a final result.
LEMMA Finished ==
  ASSUME Provenance, final # None
  PROVE  /\ rules \in RuleResult /\ Answered(model)
         /\ rules.status = None => rules.confidence = 0
         /\ \A c \in rules.tracking : c.source # "unknown"
         /\ rules.status # "unknown" /\ (rules.shipping => ~rules.invoice)
         /\ Branch(rules, model, Decide(rules, model))
         /\ final.type = Decide(rules, model).type
         /\ final.review = Decide(rules, model).review
         /\ final.status = FinalStatus(Decide(rules, model), rules, model)
         /\ final.relevant = IsRelevant(final.type, final.status, rules, model)
         /\ final.tracking = SelectedTracking(rules, model)
<1>1. stage = "done" /\ rules = extract(mail) /\ mail \in Mail /\ Answered(model)
      /\ final = reconcile(rules, model, mail.shaped)
  BY DEF Provenance
<1>2. /\ rules \in RuleResult
      /\ rules.status = None => rules.confidence = 0
      /\ \A c \in rules.tracking : c.source # "unknown"
      /\ rules.status # "unknown" /\ (rules.shipping => ~rules.invoice)
  BY <1>1, ExtractType
<1>3. Branch(rules, model, Decide(rules, model))
  BY <1>1, <1>2, VerdictFromBranch
<1> QED  BY <1>1, <1>2, <1>3 DEF reconcile

-----------------------------------------------------------------------------
(* The theorems *)

\* The stages hold what their results may hold.
THEOREM PipelineTypeCorrect == Spec => []TypeOK
<1>1. Provenance => TypeOK
  <2> SUFFICES ASSUME Provenance PROVE TypeOK
    OBVIOUS
  <2>1. stage # "cleaned" => rules \in RuleResult
    BY ExtractType DEF Provenance
  <2>2. stage = "done" => final \in FinalResult
    BY <2>1, ReconcileType DEF Provenance
  <2> QED  BY <2>1, <2>2, PipelineAssumption DEF Provenance, Answered, TypeOK
<1> QED  BY <1>1, ProvenanceInvariance, PTL

\* A delivery the rules read stands, whatever the model answers.
THEOREM DeliveriesStand == Spec => []DeliveryStands
<1>1. ASSUME Provenance, final # None, rules.status = "delivered"
      PROVE  final.status = "delivered" /\ final.type = RuleType(rules)
  <2> DEFINE v == Decide(rules, model)
  <2>1. Branch(rules, model, v) /\ final.type = v.type
        /\ final.status = FinalStatus(v, rules, model)
    BY <1>1, Finished
  <2>2. "delivered" # None
    BY ClassificationAssumption DEF EmailType
  <2> HIDE DEF v
  <2>3. /\ v.type = RuleType(rules)
        /\ \/ v.source \in {"rule", "rule_override"}
           \/ v.source = "rule_model_agree" /\ ModelStatus(model) = "delivered"
    BY <1>1, <2>1 DEF Branch, Verdict
  <2>4. v.source \in {"rule", "rule_override"} => ~TakesModelStatus(v, rules, model)
    BY DEF TakesModelStatus
  <2> QED  BY <1>1, <2>1, <2>2, <2>3, <2>4, StatusCases
<1> QED  BY <1>1, ProvenanceInvariance, PTL DEF DeliveryStands

\* The model never changes a type unnoticed.
THEOREM NoOverrideIsSilent == Spec => []NoSilentOverride
<1>1. Provenance => NoSilentOverride
  <2> SUFFICES ASSUME Provenance, final # None, final.type # RuleType(rules)
               PROVE  \/ final.review
                      \/ final.type \in NON_PHYSICAL /\ ~final.relevant
                      \/ RuleType(rules) = "non_shipping" /\ model.confidence >= 90
    BY DEF NoSilentOverride
  <2>1. final.type \in NON_PHYSICAL => ~final.relevant
    BY Finished DEF IsRelevant
  <2>2. \/ final.review \/ final.type \in NON_PHYSICAL
        \/ RuleType(rules) = "non_shipping" /\ model.confidence >= 90
    BY Finished DEF Branch, Verdict
  <2> QED  BY <2>1, <2>2
<1> QED  BY <1>1, ProvenanceInvariance, PTL

\* Confident rules give way only to a confident model or to no physical parcel.
THEOREM ConfidentRulesStand == Spec => []ConfidentRulesYield
<1>1. Provenance => ConfidentRulesYield
  <2> SUFFICES ASSUME Provenance, final # None, rules.confidence >= 90,
                      final.type # RuleType(rules) \/ final.status # rules.status
               PROVE  model.confidence >= 70 \/ final.type \in NON_PHYSICAL
    BY DEF ConfidentRulesYield
  <2> DEFINE v == Decide(rules, model)
  <2>1. /\ Branch(rules, model, v) /\ final.type = v.type
        /\ final.status = FinalStatus(v, rules, model)
        /\ rules.confidence \in 0 .. 100 /\ rules.status # None
    BY Finished DEF RuleResult
  <2>2. model # None => model.confidence \in Int
    BY Finished, ClassificationAssumption DEF Answered, ModelResult
  <2> HIDE DEF v
  <2>3. CASE final.type # RuleType(rules)
    BY <2>1, <2>2, <2>3 DEF Branch, Verdict
  <2>4. CASE final.status # rules.status
    <3>1. TakesModelStatus(v, rules, model) /\ model # None
      BY <2>1, <2>4, StatusCases
    <3>2. CASE v.source \in {"rule_model_agree", "review_needed"}
      BY <2>1, <2>2, <3>1, <3>2 DEF TakesModelStatus
    <3>3. CASE v.source \in {"model_override", "model_fallback"}
      BY <2>1, <2>2, <3>1, <3>3 DEF Branch, Verdict
    <3> QED  BY <3>1, <3>2, <3>3 DEF TakesModelStatus
  <2> QED  BY <2>3, <2>4
<1> QED  BY <1>1, ProvenanceInvariance, PTL

\* An order confirmation becomes a shipping update only on physical evidence.
THEOREM ConfirmationsNeedEvidence == Spec => []ConfirmationNeedsEvidence
<1>1. Provenance => ConfirmationNeedsEvidence
  <2> SUFFICES ASSUME Provenance, final # None, RuleType(rules) = "order_confirmation",
                      final.type = "shipping_update", ~model.carrier
               PROVE  final.tracking # None
    BY DEF ConfirmationNeedsEvidence
  <2>1. /\ rules \in RuleResult /\ Answered(model)
        /\ final.tracking = SelectedTracking(rules, model)
    BY Finished
  <2>2. model # None /\ has_shipping_evidence(rules, model)
    BY Finished DEF Branch, Verdict, NON_PHYSICAL
  <2>3. rules.status \notin CARRIER_HANDOFF_STATUSES
    BY DEF RuleType, email_type_from_status, CARRIER_HANDOFF_STATUSES
  <2>4. rules.tracking # {} \/ model.tracking # << >>
    BY <2>2, <2>3 DEF has_shipping_evidence
  <2>5. MergedTracking(rules, model) # {}
    BY <2>1, <2>2, <2>4, MergedType
  <2> QED  BY <2>1, <2>5, SelectedTrackingType, ClassificationAssumption
<1> QED  BY <1>1, ProvenanceInvariance, PTL

\* Mail in which the rules see a parcel and its status reaches the shipments, unless
\* the model sees no physical parcel in it or the result is flagged for review.
THEOREM ParcelsNotLost == Spec => []ParcelsAreNotLost
<1>1. Provenance => ParcelsAreNotLost
  <2> SUFFICES ASSUME Provenance, final # None, rules.shipping, rules.status # None,
                      ~final.review, ~(model # None /\ model.type \in NON_PHYSICAL)
               PROVE  final.relevant /\ final.type \notin NON_PHYSICAL_TYPES
    BY DEF ParcelsAreNotLost
  <2> DEFINE v == Decide(rules, model)
  <2>1. /\ Branch(rules, model, v) /\ final.type = v.type /\ final.review = v.review
        /\ final.status = FinalStatus(v, rules, model)
        /\ final.relevant = IsRelevant(final.type, final.status, rules, model)
        /\ rules.status # "unknown" /\ ~rules.invoice
    BY Finished
  <2> HIDE DEF v
  <2>2. RuleType(rules) \notin NON_PHYSICAL_TYPES
    BY <2>1 DEF RuleType, email_type_from_status, NON_PHYSICAL_TYPES
  <2>3. final.type = RuleType(rules)
    BY <2>1, <2>2 DEF Branch, Verdict, NON_PHYSICAL_TYPES
  <2>4. final.status # "unknown"
    <3>1. ModelStatus(model) # None => ModelStatus(model) # "unknown"
      BY DEF ModelStatus
    <3>2. TakesModelStatus(v, rules, model) => ModelStatus(model) # None
      BY DEF TakesModelStatus
    <3> QED  BY <2>1, <3>1, <3>2, StatusCases
  <2> QED  BY <2>1, <2>2, <2>3, <2>4 DEF IsRelevant, NON_PHYSICAL, NON_PHYSICAL_TYPES
<1> QED  BY <1>1, ProvenanceInvariance, PTL

\* The model displaces no tracking number of the rules, and a structured one is never
\* given up for a bare one.
THEOREM TrackingIsKept == Spec => []RulesKeepTracking
<1>1. Provenance => RulesKeepTracking
  <2> SUFFICES ASSUME Provenance, final # None, rules.tracking # {}
               PROVE  /\ final.tracking \in Values(rules.tracking)
                      /\ (\E c \in rules.tracking : c.structured)
                           => \E c \in rules.tracking : c.structured /\ c.value = final.tracking
    BY DEF RulesKeepTracking
  <2> DEFINE C == MergedTracking(rules, model)
             best == select_best_tracking(C)
  <2>1. /\ rules \in RuleResult /\ Answered(model)
        /\ \A c \in rules.tracking : c.source # "unknown"
        /\ final.tracking = SelectedTracking(rules, model)
    BY Finished
  <2>2. /\ C \subseteq Candidate /\ rules.tracking \subseteq C /\ C # {}
        /\ \A c \in C \ rules.tracking : c.source = "unknown" /\ ~c.structured
    BY <2>1, MergedType
  <2>3. final.tracking = best.value
    BY <2>1, <2>2 DEF SelectedTracking
  <2>4. best \in C /\ \A d \in C : ~Stronger(d, best)
    BY <2>2, BestTracking
  <2> HIDE DEF C, best
  <2>5. ASSUME NEW d \in C, NEW c \in C,
               \/ d.structured /\ ~c.structured
               \/ /\ d.structured = c.structured
                  /\ d.source # "unknown" /\ c.source = "unknown"
        PROVE  Stronger(d, c)
    <3>1. c \in Candidate /\ d \in Candidate
      BY <2>2
    <3>2. /\ Score(d)[1] = IF d.structured THEN 0 ELSE 1
          /\ Score(c)[1] = IF c.structured THEN 0 ELSE 1
      BY DEF Score
    <3>3. CASE d.structured /\ ~c.structured
      <4>1. Score(d)[1] < Score(c)[1] /\ \A j \in 1 .. 1 - 1 : Score(d)[j] = Score(c)[j]
        BY <3>2, <3>3
      <4> QED  BY <4>1 DEF Stronger
    <3>4. CASE d.structured = c.structured /\ d.source # "unknown" /\ c.source = "unknown"
      <4>1. Score(d)[1] = Score(c)[1]
        BY <3>2, <3>4
      <4>2. Score(c)[2] = 3 /\ Score(d)[2] \in {0, 1, 2}
        BY <3>1, <3>4 DEF Score, Candidate, Source
      <4>3. Score(d)[2] < Score(c)[2] /\ \A j \in 1 .. 2 - 1 : Score(d)[j] = Score(c)[j]
        BY <4>1, <4>2
      <4> QED  BY <4>3 DEF Stronger
    <3> QED  BY <2>5, <3>3, <3>4
  <2>6. best \in rules.tracking
    <3> SUFFICES ASSUME best \notin rules.tracking PROVE FALSE
      OBVIOUS
    <3>1. best.source = "unknown" /\ ~best.structured
      BY <2>2, <2>4
    <3>2. PICK d \in rules.tracking : TRUE
      OBVIOUS
    <3>3. d \in C /\ d.source # "unknown" /\ d.structured \in BOOLEAN /\ best.structured \in BOOLEAN
      BY <2>1, <2>2, <2>4 DEF Candidate
    <3> QED  BY <2>4, <2>5, <3>1, <3>3
  <2>7. (\E c \in rules.tracking : c.structured) => best.structured
    BY <2>2, <2>4, <2>5
  <2> QED  BY <2>3, <2>6, <2>7 DEF Values
<1> QED  BY <1>1, ProvenanceInvariance, PTL

=============================================================================
