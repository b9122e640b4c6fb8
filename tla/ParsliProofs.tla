---------------------------- MODULE ParsliProofs ----------------------------
(***************************************************************************)
(* Proofs about Parsli, for any mailbox, texts, answers of the model and   *)
(* edits of the user.  First, to the tables of the resolution every step   *)
(* is a step of ShipmentResolution, so that its theorems hold here; then   *)
(* the invariant of the tables the other components keep.                  *)
(***************************************************************************)
EXTENDS Parsli, ShipmentResolutionProofs

-----------------------------------------------------------------------------
(* The resolution inside the whole *)

\* The table of outcomes holds the outcomes.
LEMMA OutcomesAt ==
  ASSUME NEW m \in Emails, NEW v \in 1 .. MaxVersion, NEW b \in BOOLEAN
  PROVE  OutcomeTable[m][v][b] = Outcomes(m, v, b)
BY DEF OutcomeTable

\* The versions are those deployed.
Versions == version \in 1 .. MaxVersion

LEMMA VersionsKept ==
  /\ ParsliInit => Versions
  /\ Versions /\ [ParsliNext]_parsliVars => Versions'
<1>1. ParsliInit => Versions
  BY DashboardAssumption DEF ParsliInit, Versions
<1>2. ASSUME Versions, Upgrade PROVE Versions'
  BY <1>2, DashboardAssumption DEF Versions, Upgrade
<1>3. ASSUME [ParsliNext]_parsliVars, ~Upgrade PROVE version' = version
  BY <1>3 DEF ParsliNext, parsliVars, EditPreferences, ReadPreferences,
              ExcludeOwnAddress, FetchCandidates, IngestHistory, ReadBatch,
              ProcessMail, Delete
<1> QED  BY <1>1, <1>2, <1>3 DEF Versions

\* Processing a mail resolves one of its outcomes.
LEMMA ProcessedOutcome ==
  ASSUME Versions, NEW m \in Emails, ProcessMail(m)
  PROVE  \E final \in Outcomes(m, version, trust[m] = "blocked") :
           /\ Persist(m, final)
           /\ Resolve(Resolved(m, final), SenderName[m])
           /\ Resolved(m, final) \in Extractions
<1>1. (trust[m] = "blocked") \in BOOLEAN
  OBVIOUS
<1>2. OutcomeTable[m][version][trust[m] = "blocked"]
        = Outcomes(m, version, trust[m] = "blocked")
  BY <1>1, OutcomesAt DEF Versions
<1>3. \A final \in Outcomes(m, version, trust[m] = "blocked") :
        Resolved(m, final) \in Extractions
  BY <1>1, ExtractionsAssumption DEF Versions
<1> QED  BY <1>2, <1>3 DEF ProcessMail

LEMMA StepOfResolution ==
  ASSUME Versions, [ParsliNext]_parsliVars
  PROVE  [Next]_vars
<1>1. ASSUME NEW m \in Emails, ProcessMail(m)
      PROVE  [Next]_vars
  <2>1. PICK final \in Outcomes(m, version, trust[m] = "blocked") :
          /\ Resolve(Resolved(m, final), SenderName[m])
          /\ Resolved(m, final) \in Extractions
    BY <1>1, ProcessedOutcome
  <2>2. SenderName[m] \in Sender
    BY ParsliAssumption
  <2> QED  BY <2>1, <2>2 DEF Resolve, Next, resolution, vars
<1>2. ASSUME NEW c \in Canonical, Delete(c)  PROVE Next
  BY <1>2 DEF Delete, Next
<1>3. CASE \/ EditPreferences \/ ReadPreferences \/ ExcludeOwnAddress
           \/ FetchCandidates \/ IngestHistory \/ ReadBatch \/ Upgrade
           \/ UNCHANGED parsliVars
  BY <1>3 DEF EditPreferences, ReadPreferences, ExcludeOwnAddress, FetchCandidates,
              IngestHistory, ReadBatch, Upgrade, parsliVars, resolution, vars
<1> QED  BY <1>1, <1>2, <1>3 DEF ParsliNext

\* The whole system implements the resolution service on its own: whatever fetches,
\* classifies, retries and upgrades around it, its tables see calls of the service.
THEOREM ParsliImplementsResolution == ParsliSpec => ImplementsResolution
<1>1. ParsliInit => Init
  BY DEF ParsliInit
<1>2. Versions /\ [ParsliNext]_parsliVars => [Next]_vars
  BY StepOfResolution
<1>3. ParsliSpec => []Versions
  BY VersionsKept, PTL DEF ParsliSpec
<1> QED  BY <1>1, <1>2, <1>3, PTL DEF ParsliSpec, ImplementsResolution, Spec

\* So what is proved of the resolution holds of the system: rows and events agree,
\* events can be found again, and no two shipments are merged without a reason.
THEOREM ResolutionInvariance == ParsliSpec => []IInv
BY ParsliImplementsResolution, Invariance, PTL DEF ImplementsResolution

-----------------------------------------------------------------------------
(* Fetching and trust *)

\* What is read or waits to be read is stored, and a sync that fetches and whose
\* profile call has named the mailbox's address excludes that address.
Stored ==
  /\ batch \subseteq DOMAIN trust
  /\ \A r \in DOMAIN extractions : r[1] \in DOMAIN trust

OwnExcluded ==
  sync.phase = "fetching" /\ sync.account_email # None =>
    Own \in sync.prefs.exclude_senders

FetchInv == Stored /\ OwnExcluded /\ BlockedDecidedByRules

\* Ingestion adds mail and leaves what is stored as it was scored.
LEMMA IngestEffect ==
  ASSUME NEW M, trust' = Ingest(M)
  PROVE  /\ DOMAIN trust' = DOMAIN trust \cup M
         /\ \A m \in DOMAIN trust : trust'[m] = trust[m]
BY DEF Ingest

\* Mail of a blocked sender never reaches the model.
LEMMA BlockedOutcome ==
  ASSUME NEW m, NEW v, NEW final \in Outcomes(m, v, TRUE)
  PROVE  final.method = "rules_only"
<1>1. Rec!select_mode(Rec!extract(Text[v][m]), Text[v][m].shaped, TRUE, TRUE) = "skip_model"
  BY DEF Rec!select_mode
<1>2. final = Rec!reconcile(Rec!extract(Text[v][m]), None, Text[v][m].shaped)
  BY <1>1 DEF Outcomes
<1> QED  BY <1>2 DEF Rec!reconcile

\* A mail that is processed is stored, and so is the row it leaves.
LEMMA ProcessMailFetchInv ==
  ASSUME Versions, FetchInv, NEW m \in Emails, ProcessMail(m)
  PROVE  FetchInv'
<1>1. PICK final \in Outcomes(m, version, trust[m] = "blocked") : Persist(m, final)
  BY ProcessedOutcome
<1>2. /\ UNCHANGED <<sync, trust>> /\ batch' = batch \ {m}
      /\ m \in DOMAIN trust
  BY DEF ProcessMail, fetching, Unprocessed, FetchInv, Stored
<1>3. /\ DOMAIN extractions' = DOMAIN extractions \cup {<<m, version>>}
      /\ extractions'[<<m, version>>] = final
      /\ \A r \in DOMAIN extractions : r # <<m, version>> => extractions'[r] = extractions[r]
  BY <1>1 DEF Persist, Put
<1>4. Stored' /\ OwnExcluded'
  BY <1>2, <1>3 DEF FetchInv, Stored, OwnExcluded
<1>5. ASSUME trust[m] = "blocked"  PROVE final.method = "rules_only"
  <2>1. (trust[m] = "blocked") = TRUE
    BY <1>5
  <2> QED  BY <1>1, <2>1, BlockedOutcome
<1>6. BlockedDecidedByRules'
  BY <1>2, <1>3, <1>5 DEF FetchInv, BlockedDecidedByRules
<1> QED  BY <1>4, <1>6 DEF FetchInv

LEMMA FetchInvKept ==
  /\ ParsliInit => FetchInv
  /\ Versions /\ FetchInv /\ [ParsliNext]_parsliVars => FetchInv'
<1>1. ParsliInit => FetchInv
  BY DEF ParsliInit, FetchInv, Stored, OwnExcluded, BlockedDecidedByRules, EmptyTable,
         NoSync, Syncing
<1> SUFFICES ASSUME Versions, FetchInv, [ParsliNext]_parsliVars
             PROVE  FetchInv'
  BY <1>1
<1> USE DEF FetchInv
<1>2. CASE EditPreferences \/ ReadBatch \/ UNCHANGED parsliVars \/ \E c \in Canonical : Delete(c)
  BY <1>2 DEF EditPreferences, ReadBatch, Delete, parsliVars, readings, fetching, Stored,
              OwnExcluded, BlockedDecidedByRules, Unprocessed
<1>3. CASE ReadPreferences \/ Upgrade
  BY <1>3 DEF ReadPreferences, Upgrade, readings, NoSync, Syncing, Stored, OwnExcluded,
              BlockedDecidedByRules
<1>4. CASE ExcludeOwnAddress
  <2>1. OwnExcluded'
    <3>1. CASE sync' = Syncing("fetching", sync.prefs, None)
      BY <3>1 DEF OwnExcluded, Syncing
    <3>2. CASE Own \in sync.prefs.exclude_senders /\ sync' = Syncing("fetching", sync.prefs, Own)
      BY <3>2 DEF OwnExcluded, Syncing
    <3>3. CASE /\ table' = Upsert(table, Own, "exclude_sender")
               /\ sync' = Syncing("fetching", DomainPreferences(table'), Own)
      <4>1. Own \in Listed(table', "exclude_sender")
        BY <3>3 DEF Upsert, Listed
      <4> QED  BY <3>3, <4>1 DEF OwnExcluded, DomainPreferences, Syncing
    <3> QED  BY <1>4, <3>1, <3>2, <3>3 DEF ExcludeOwnAddress
  <2> QED  BY <1>4, <2>1 DEF ExcludeOwnAddress, readings, Stored, BlockedDecidedByRules
<1>5. CASE FetchCandidates \/ IngestHistory
  <2>1. PICK M : trust' = Ingest(M)
    BY <1>5 DEF FetchCandidates, IngestHistory
  <2>2. /\ DOMAIN trust' = DOMAIN trust \cup M
        /\ \A m \in DOMAIN trust : trust'[m] = trust[m]
    BY <2>1, IngestEffect
  <2>3. sync' = NoSync /\ UNCHANGED <<extractions, batch>>
    BY <1>5 DEF FetchCandidates, IngestHistory, readings
  <2> QED  BY <2>2, <2>3 DEF Stored, OwnExcluded, BlockedDecidedByRules, NoSync, Syncing
<1>6. CASE \E m \in Emails : ProcessMail(m)
  BY <1>6, ProcessMailFetchInv
<1> QED  BY <1>2, <1>3, <1>4, <1>5, <1>6 DEF ParsliNext

LEMMA FetchInvariance == ParsliSpec => [](Versions /\ FetchInv)
BY VersionsKept, FetchInvKept, PTL DEF ParsliSpec

\* A mail on record as blocked was decided by the rules alone.
THEOREM BlockedMailStaysWithRules == ParsliSpec => []BlockedDecidedByRules
BY FetchInvariance, PTL DEF FetchInv

\* An initial sync adds nothing of a domain on the blocklist it read and nothing from
\* the address its profile call named.
THEOREM ExclusionsAreKept == ParsliSpec => ExclusionsHold
<1> DEFINE New == \A m \in DOMAIN trust' \ DOMAIN trust :
                    /\ ~CoveredBy(FromDomain[m], sync.prefs.blocklist)
                    /\ From[m] # Own \/ sync.account_email = None
<1>1. ASSUME FetchInv, FetchCandidates, sync.phase = "fetching"  PROVE New
  <2> SUFFICES ASSUME NEW m \in Candidates(sync.prefs)
               PROVE  /\ ~CoveredBy(FromDomain[m], sync.prefs.blocklist)
                      /\ From[m] # Own \/ sync.account_email = None
    BY <1>1, IngestEffect DEF FetchCandidates
  <2>1. PICK q \in build_queries(sync.prefs) : Matches(q, m)
    BY DEF Candidates
  <2>2. /\ sync.prefs.blocklist \subseteq q.exclude_domains
        /\ q.exclude_senders = sync.prefs.exclude_senders
    BY DEF build_queries, Query
  <2> QED  BY <1>1, <2>1, <2>2 DEF Matches, CoveredBy, FetchInv, OwnExcluded
<1>2. ASSUME [ParsliNext]_parsliVars, sync.phase = "fetching", ~FetchCandidates
      PROVE  trust' = trust
  BY <1>2 DEF ParsliNext, parsliVars, fetching, EditPreferences, ReadPreferences,
              ExcludeOwnAddress, IngestHistory, ReadBatch, ProcessMail, Delete, Upgrade
<1>3. FetchInv /\ [ParsliNext]_parsliVars => [sync.phase = "fetching" => New]_parsliVars
  BY <1>1, <1>2
<1> QED  BY <1>3, FetchInvariance, PTL DEF ParsliSpec, ExclusionsHold

-----------------------------------------------------------------------------
(* What is shown *)

\* The screens need nothing but the resolution's invariant for this: the join of the
\* list is wider than that of the timeline, and every event's parcel is listed.
LEMMA ReviewShown == IInv => ReviewIsNotHidden
<1> SUFFICES ASSUME IInv, NEW e \in events, EventNeedsReview(e)
             PROVE  /\ SummaryRow(e.canonical).needs_review
                    /\ DashboardProjection.needs_review_count > 0
  BY DEF ReviewIsNotHidden
<1>1. SummaryRow(e.canonical).needs_review
  BY DEF EventNeedsReview, SummaryRow, NeedsReviewCanonicals
<1> DEFINE Flagged == {c \in DOMAIN rows : SummaryRow(c).needs_review}
<1>2. e.canonical \in Flagged
  BY <1>1 DEF IInv, EventsHaveRow
<1>3. IsFiniteSet(Flagged)
  <2>1. DOMAIN rows \subseteq {f.canonical : f \in events}
    BY DEF IInv, RowReflectsEvents, EventsOf
  <2>2. IsFiniteSet({f.canonical : f \in events})
    <3> DEFINE f == [g \in events |-> g.canonical]
    <3>1. f \in Surjection(events, {g.canonical : g \in events})
      BY DEF Surjection
    <3> QED  BY <3>1, FS_Surjection DEF IInv, TypeOK
  <2>3. Flagged \subseteq {f.canonical : f \in events}
    BY <2>1
  <2> QED  BY <2>2, <2>3, FS_Subset
<1>4. DashboardProjection.needs_review_count = Cardinality(Flagged)
  BY DEF DashboardProjection
<1> HIDE DEF Flagged
<1>5. Cardinality(Flagged) \in Nat /\ Cardinality(Flagged) # 0
  BY <1>2, <1>3, FS_CardinalityType, FS_EmptySet
<1> QED  BY <1>1, <1>4, <1>5

\* A parcel whose timeline shows an extraction in need of review is listed so.
THEOREM ReviewsAreShown == ParsliSpec => []ReviewIsNotHidden
BY ReviewShown, ResolutionInvariance, PTL

-----------------------------------------------------------------------------
(* What the rules read as a delivery *)

\* There is a best candidate wherever there is a candidate.
LEMMA BestTracking ==
  ASSUME NEW C, C \subseteq Rec!Candidate, C # {}
  PROVE  Rec!select_best_tracking(C) \in C
<1> DEFINE rank == [c \in C |-> Rec!Score(c)]
<1>1. \A c \in C : \A i \in 1 .. 3 : rank[c][i] \in Nat
  <2> SUFFICES ASSUME NEW c \in C PROVE \A i \in 1 .. 3 : Rec!Score(c)[i] \in Nat
    OBVIOUS
  <2>1. c.place \in Nat
    BY DEF Rec!Candidate
  <2> QED  BY <2>1 DEF Rec!Score
<1>2. \A c, d \in C : Rec!Stronger(d, c) <=> LexLess(rank[d], rank[c])
  BY DEF Rec!Stronger, LexLess
<1> HIDE DEF rank
<1>3. \E c \in C : \A d \in C : ~LexLess(rank[d], rank[c])
  BY <1>1, LeastTriple
<1> QED  BY <1>2, <1>3 DEF Rec!select_best_tracking

\* The rules' reading names numbers of its mail.
LEMMA RulesType ==
  ASSUME NEW mail \in Rec!Mail
  PROVE  /\ Rec!extract(mail).tracking \subseteq Rec!Candidate
         /\ Rec!extract(mail).orders \subseteq Rec!Labelled
<1>1. Rec!Firsts(mail.labelled) \subseteq Rec!Labelled
  BY DEF Rec!Firsts, Rec!Mail
<1>2. ASSUME NEW f \in Rec!extract_tracking_candidates(mail.found)
      PROVE  Rec!Tagged(f, mail) \in Rec!Candidate
  <2>1. f \in Rec!Found
    BY DEF Rec!extract_tracking_candidates, Rec!Firsts, Rec!Mail
  <2> QED  BY <2>1 DEF Rec!Found, Rec!Tagged, Rec!Candidate, Rec!Source
<1> QED  BY <1>1, <1>2 DEF Rec!extract, Rec!InvoiceResult

\* What the model answers, whichever prompt it was given.
LEMMA AnswersType ==
  ASSUME NEW m, NEW v, NEW b, NEW final \in Outcomes(m, v, b)
  PROVE  LET rules == Rec!extract(Text[v][m])
         IN  \E model : /\ final = Rec!reconcile(rules, model, Text[v][m].shaped)
                        /\ model = None \/ model.tracking \in Seq(Trackings \cup Orders)
<1> DEFINE rules == Rec!extract(Text[v][m])
           mode == Rec!select_mode(rules, Text[v][m].shaped, b, TRUE)
           answers ==
             CASE mode = "skip_model"     -> {}
               [] mode = "model_audit"    -> {Rec!AuditToClassification(a, rules) :
                                                a \in AuditAnswers}
               [] mode = "model_required" -> RequiredAnswers
<1>1. \A a : Rec!AuditToClassification(a, rules).tracking = << >>
  BY DEF Rec!AuditToClassification
<1>2. << >> \in Seq(Trackings \cup Orders)
  OBVIOUS
<1>3. \A a \in RequiredAnswers : a.tracking \in Seq(Trackings \cup Orders)
  BY ParsliAssumption DEF Rec!ModelResult
<1>4. mode \in {"skip_model", "model_audit", "model_required"}
  BY DEF Rec!select_mode
<1>5. PICK model \in {None} \cup answers :
        final = Rec!reconcile(rules, model, Text[v][m].shaped)
  BY DEF Outcomes
<1> HIDE DEF rules, mode
<1>6. \A a \in answers : a.tracking \in Seq(Trackings \cup Orders)
  BY <1>1, <1>2, <1>3, <1>4
<1> QED  BY <1>5, <1>6 DEF rules

\* A number found by the rules leaves the result a number, whatever the model adds.
LEMMA NumbersKept ==
  ASSUME NEW rules, NEW model,
         rules.tracking \subseteq Rec!Candidate, rules.orders \subseteq Rec!Labelled,
         rules.tracking # {} \/ rules.orders # {},
         model = None \/ model.tracking \in Seq(Trackings \cup Orders)
  PROVE  Rec!SelectedTracking(rules, model) # None \/ Rec!SelectedOrder(rules, model) # None
<1>0. None \notin Trackings \cup Orders
  BY ConstantsAssumption DEF ConstantsAssumption
<1>1. CASE rules.tracking # {}
  <2> DEFINE merged == Rec!MergedTracking(rules, model)
  <2>1. merged # {}
    BY <1>1 DEF Rec!MergedTracking
  <2>2. merged \subseteq Rec!Candidate
    <3>1. CASE model = None
      BY <3>1 DEF Rec!MergedTracking
    <3>2. CASE model # None
      <4>1. \A i \in DOMAIN model.tracking :
              i \in Nat /\ model.tracking[i] \in Trackings \cup Orders
        BY <3>2
      <4>2. \A i \in Rec!Added(model.tracking, rules.tracking) :
              [ value |-> model.tracking[i], structured |-> FALSE,
                source |-> "unknown", place |-> i ] \in Rec!Candidate
        BY <4>1 DEF Rec!Added, Rec!Candidate, Rec!Source
      <4> QED  BY <3>2, <4>2 DEF Rec!MergedTracking
    <3> QED  BY <3>1, <3>2
  <2>3. Rec!SelectedTracking(rules, model) = Rec!select_best_tracking(merged).value
    BY <2>1 DEF Rec!SelectedTracking
  <2> HIDE DEF merged
  <2>4. Rec!SelectedTracking(rules, model) \in Trackings \cup Orders
    BY <2>1, <2>2, <2>3, BestTracking DEF Rec!Candidate
  <2> QED  BY <1>0, <2>4
<1>2. CASE rules.orders # {}
  <2> DEFINE rank == [o \in rules.orders |-> o.place]
  <2>1. \A o \in rules.orders : o.place \in Nat /\ o.value \in Trackings \cup Orders
    BY DEF Rec!Labelled
  <2>2. \A o \in rules.orders : rank[o] \in Nat
    BY <2>1
  <2>3. \E o \in rules.orders : \A p \in rules.orders : rank[o] <= rank[p]
    <3> HIDE DEF rank
    <3> QED  BY <1>2, <2>2, LeastRanked
  <2>4. \E o \in rules.orders : \A p \in rules.orders : o.place <= p.place
    BY <2>3
  <2> QED  BY <1>0, <1>2, <2>1, <2>4 DEF Rec!SelectedOrder
<1> QED  BY <1>1, <1>2

\* A delivery read by the rules outlasts the reconciler.
LEMMA DeliveryReconciled ==
  ASSUME NEW rules, NEW model, NEW shaped,
         rules.status = "delivered", ~rules.invoice, rules.shipping
  PROVE  LET final == Rec!reconcile(rules, model, shaped)
         IN  /\ final.status = "delivered" /\ final.type = "delivered"
             /\ final.relevant = TRUE
<1> DEFINE verdict == Rec!Decide(rules, model)
<1>0. None # "delivered"
  BY ParsliAssumption DEF EmailType
<1>1. Rec!RuleType(rules) = "delivered"
  BY <1>0 DEF Rec!RuleType, Rec!email_type_from_status
<1>2. /\ verdict.type = "delivered"
      /\ \/ verdict.source \in {"rule", "rule_override"}
         \/ verdict.source = "rule_model_agree" /\ Rec!ModelStatus(model) = "delivered"
  BY <1>1 DEF Rec!Decide, Rec!Verdict, Rec!Agreed
<1> HIDE DEF verdict
<1>3. Rec!TakesModelStatus(verdict, rules, model) => model.status = "delivered"
  BY <1>2 DEF Rec!TakesModelStatus, Rec!ModelStatus
<1>4. Rec!FinalStatus(verdict, rules, model) = "delivered"
  BY <1>0, <1>3 DEF Rec!FinalStatus
<1>5. Rec!IsRelevant(verdict.type, "delivered", rules, model) = TRUE
  BY <1>2 DEF Rec!IsRelevant, Rec!NON_PHYSICAL
<1> QED  BY <1>2, <1>4, <1>5 DEF Rec!reconcile, verdict

-----------------------------------------------------------------------------
(* Deliveries end up on the dashboard *)

\* A mail read as the delivery of an identified parcel has an event that says so, or
\* had one the user deleted.
Arrived(m) == \E e \in events : e.email = m /\ e.status = "delivered"

DeliveriesFiled ==
  \A r \in DOMAIN extractions :
    r \in DeliveriesByRules => r[1] \in dismissed \/ Arrived(r[1])

\* Whatever the model made of such a mail, it is resolved as a delivery.
LEMMA DeliveryOutcome ==
  ASSUME NEW m \in Emails, NEW v \in 1 .. MaxVersion, <<m, v>> \in DeliveriesByRules,
         NEW b, NEW final \in Outcomes(m, v, b)
  PROVE  LET x == Resolved(m, final)
         IN  /\ CreatesShipmentData(x) /\ x.type # "order_confirmation"
             /\ x.tracking # None \/ x.order # None
             /\ x.email = m /\ x.status = "delivered"
<1> DEFINE mail == Text[v][m]
           rules == Rec!extract(mail)
<1>1. mail \in Rec!Mail
  BY ParsliAssumption
<1>2. /\ rules.status = "delivered" /\ ~rules.invoice
      /\ rules.tracking # {} \/ rules.orders # {}
  BY DEF DeliveriesByRules
<1>3. rules.shipping
  <2>1. "delivered" # None
    BY ParsliAssumption DEF EmailType
  <2> QED  BY <1>2, <2>1 DEF Rec!extract, Rec!InvoiceResult
<1>4. rules.tracking \subseteq Rec!Candidate /\ rules.orders \subseteq Rec!Labelled
  BY <1>1, RulesType
<1>5. PICK model : /\ final = Rec!reconcile(rules, model, mail.shaped)
                   /\ model = None \/ model.tracking \in Seq(Trackings \cup Orders)
  BY AnswersType
<1> HIDE DEF mail, rules
<1>6. final.status = "delivered" /\ final.type = "delivered" /\ final.relevant = TRUE
  BY <1>2, <1>3, <1>5, DeliveryReconciled
<1>7. Rec!SelectedTracking(rules, model) # None \/ Rec!SelectedOrder(rules, model) # None
  BY <1>2, <1>4, <1>5, NumbersKept
<1>8. final.tracking # None \/ final.order # None
  BY <1>5, <1>7 DEF Rec!reconcile
<1> QED  BY <1>6, <1>8 DEF Resolved, CreatesShipmentData, NON_PHYSICAL_TYPES

\* insert_if_new leaves the event on record, be it new or a repetition.
LEMMA FiledEvent ==
  ASSUME NEW x, NEW c, NEW tracking, NEW sender,
         InsertIfNew(NewEvent(x, c, tracking), sender)
  PROVE  /\ events \subseteq events'
         /\ \E e \in events' : e.email = x.email /\ e.status = x.status
<1> DEFINE n == NewEvent(x, c, tracking)
<1>1. n.email = x.email /\ n.status = x.status
  BY DEF NewEvent
<1> HIDE DEF n
<1>2. CASE events' = events \cup {n}
  BY <1>1, <1>2
<1>3. CASE SameKey(n) # {} /\ events' = events
  BY <1>1, <1>3 DEF SameKey, EventKey
<1> QED  BY <1>2, <1>3 DEF InsertIfNew, n

\* No resolution takes an event away.
LEMMA ResolveKeepsEvents ==
  ASSUME NEW x, NEW sender, Resolve(x, sender)
  PROVE  events \subseteq events'
BY FiledEvent DEF Resolve, ResolveAndInsert, ProcessOrderConfirmation,
                  ProcessShippingEvent, resolution

\* A delivery that is processed is on record afterwards.
LEMMA DeliveryIsFiled ==
  ASSUME NEW x, NEW sender, Resolve(x, sender),
         CreatesShipmentData(x), x.type # "order_confirmation",
         x.tracking # None \/ x.order # None, x.status = "delivered"
  PROVE  Arrived(x.email)'
<1>1. ProcessShippingEvent(x, sender)
  BY DEF Resolve, ResolveAndInsert, ProcessOrderConfirmation
<1>2. InsertIfNew(NewEvent(x, CanonicalForShipping(x), x.tracking), sender)
  BY <1>1 DEF ProcessShippingEvent
<1> QED  BY <1>2, FiledEvent DEF Arrived

LEMMA DeliveriesFiledKept ==
  /\ ParsliInit => DeliveriesFiled
  /\ Versions /\ DeliveriesFiled /\ [ParsliNext]_parsliVars => DeliveriesFiled'
<1>1. ParsliInit => DeliveriesFiled
  BY DEF ParsliInit, DeliveriesFiled, EmptyTable
<1> SUFFICES ASSUME Versions, DeliveriesFiled, [ParsliNext]_parsliVars
             PROVE  DeliveriesFiled'
  BY <1>1
<1>2. ASSUME NEW m \in Emails, ProcessMail(m)  PROVE DeliveriesFiled'
  <2>1. PICK final \in Outcomes(m, version, trust[m] = "blocked") :
          Persist(m, final) /\ Resolve(Resolved(m, final), SenderName[m])
    BY <1>2, ProcessedOutcome
  <2>2. events \subseteq events' /\ UNCHANGED <<dismissed, version>>
    BY <1>2, <2>1, ResolveKeepsEvents DEF ProcessMail
  <2>3. DOMAIN extractions' = DOMAIN extractions \cup {<<m, version>>}
    BY <2>1 DEF Persist, Put
  <2>4. \A e : Arrived(e) => Arrived(e)'
    BY <2>2 DEF Arrived
  <2>5. ASSUME <<m, version>> \in DeliveriesByRules  PROVE Arrived(m)'
    BY <2>1, <2>5, DeliveryOutcome, DeliveryIsFiled DEF Versions
  <2> QED  BY <2>2, <2>3, <2>4, <2>5 DEF DeliveriesFiled
<1>3. ASSUME NEW c \in Canonical, Delete(c)  PROVE DeliveriesFiled'
  BY <1>3 DEF Delete, DeleteShipment, readings, DeliveriesFiled, Arrived, EventsOf
<1>4. CASE \/ EditPreferences \/ ReadPreferences \/ ExcludeOwnAddress
           \/ FetchCandidates \/ IngestHistory \/ ReadBatch \/ Upgrade
           \/ UNCHANGED parsliVars
  BY <1>4 DEF EditPreferences, ReadPreferences, ExcludeOwnAddress, FetchCandidates,
              IngestHistory, ReadBatch, Upgrade, parsliVars, resolution, readings,
              DeliveriesFiled, Arrived
<1> QED  BY <1>2, <1>3, <1>4 DEF ParsliNext

\* An event on record that says delivered makes its parcel delivered: the row agrees
\* with the events, and a delivery wins over all other mail.
LEMMA ArrivedIsShown ==
  ASSUME IInv, NEW e \in events, e.status = "delivered"
  PROVE  SummaryRow(e.canonical).status = "delivered"
<1> DEFINE c == e.canonical
           S == EventsOf(c, events)
<1>1. e \in S /\ EventLog(S) /\ c \in DOMAIN rows
  <2>1. EventLog(S)
    BY ConstantsAssumption, EventsAreLog DEF IInv, TypeOK, RowIdsDistinct
  <2> QED  BY <2>1 DEF EventsOf, IInv, EventsHaveRow
<1>2. rows[c].timeline.currentStatus = select_current_status(S).status
  <2>1. rows[c].timeline = Timeline(S)
    BY <1>1 DEF IInv, RowReflectsEvents
  <2> HIDE DEF S
  <2> QED  BY <2>1 DEF Timeline
<1> HIDE DEF S
<1>3. select_current_status(S).status = "delivered"
  BY <1>1, DeliveredWins DEF Delivered
<1> QED  BY <1>2, <1>3 DEF SummaryRow

\* From the phrase in the mail to the screen: a mail the rules read as the delivery
\* of an identified parcel makes that parcel delivered on the dashboard, whatever
\* the model answers and whatever is processed, fetched again or upgraded, until the
\* user deletes it.
THEOREM DeliveriesAreShown == ParsliSpec => []DeliveryIsShown
<1>1. IInv /\ DeliveriesFiled => DeliveryIsShown
  BY ArrivedIsShown DEF DeliveriesFiled, Arrived, DeliveryIsShown
<1>2. ParsliSpec => [](Versions /\ DeliveriesFiled)
  BY VersionsKept, DeliveriesFiledKept, PTL DEF ParsliSpec
<1> QED  BY <1>1, <1>2, ResolutionInvariance, PTL

=============================================================================
