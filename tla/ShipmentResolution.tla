------------------------- MODULE ShipmentResolution -------------------------
(***************************************************************************)
(* services/shipment_resolution_service.py over its three tables: how the  *)
(* extraction of one e-mail becomes aliases, a timeline event and a        *)
(* rebuilt shipment row, and what the two other writers of those tables    *)
(* (the dashboard's delete and the command line's rebuild) do to them.     *)
(*                                                                         *)
(* Every action is one call with the transaction it runs in.  The database *)
(* has one writer at a time, so a call is atomic as long as the            *)
(* transaction wrote something before it reads; the writer that reads      *)
(* first is the subject of module RebuildRace.                             *)
(*                                                                         *)
(* A canonical shipment id is the hash of the alias it was derived from;   *)
(* hashing is taken to be injective, so the alias key itself is the id.    *)
(***************************************************************************)
EXTENDS Chronology, FiniteSets, FiniteSetsExt

CONSTANTS
  None,         \* SQL NULL
  Emails,       \* Gmail message ids
  ReceivedAt,   \* the received_at of each e-mail
  Now,          \* no mail is received later than this
  Trackings,    \* tracking numbers, in upper case
  Structured,   \* those of a structurally identifiable carrier family
  Orders,       \* order numbers, in upper case
  Merchants,    \* merchant names
  Senders,      \* sender display names
  Confidences,  \* status confidences
  Extractions,  \* the final classifications the pipeline may hand over
  MaxId         \* bound: number of event rows ever inserted

Merchant == Merchants \cup {None}
Tracking == Trackings \cup {None}
Order    == Orders \cup {None}
Sender   == Senders \cup {None}

\* FinalClassificationResult, the fields resolution reads.
Extraction ==
  [ email: Emails, relevant: BOOLEAN, type: EmailType, status: ShipmentStatus,
    confidence: Confidences, tracking: Tracking, order: Order,
    merchant: Merchant ]

ASSUME ConstantsAssumption ==
  /\ None \notin Trackings \cup Orders \cup Merchants \cup Senders
  /\ Now \in Nat
  /\ ReceivedAt \in [Emails -> 0 .. Now]
  /\ Structured \subseteq Trackings
  /\ Confidences \subseteq Int
  /\ Extractions \subseteq Extraction
  /\ MaxId \in Nat

-----------------------------------------------------------------------------
(* Alias keys, canonical ids and the rows of the three tables.  A table with a   *)
(* primary key is a function from the keys present to the rest of the row.       *)

TrackingAlias(t) == <<"tracking", t, None>>

\* _order_alias_value: qualified by the merchant when it is known.
OrderAlias(o, m) == <<"order", o, m>>

TrackingKeys == {TrackingAlias(t) : t \in Trackings}
OrderKeys    == {OrderAlias(o, m) : o \in Orders, m \in Merchant}
AliasKey     == TrackingKeys \cup OrderKeys
Canonical    == AliasKey

Alias == [canonical: Canonical, confidence: Confidences]

Event ==
  [ id: 1 .. MaxId, canonical: Canonical, email: Emails, date: 0 .. Now,
    status: ShipmentStatus, tracking: Tracking, order: Order,
    merchant: Merchant ]

VARIABLES
  aliases,   \* shipment_aliases: alias key -> alias row
  events,    \* shipment_events: a set of event rows
  senderOf,  \* the sender_display_name column of shipment_events, by row id
  rows,      \* shipments: canonical id -> shipment row
  lastId     \* the last event row id handed out

vars == <<aliases, events, senderOf, rows, lastId>>

EmptyTable == [k \in {} |-> None]

\* INSERT ... ON CONFLICT: the table with the row v at key k.
Put(table, k, v) ==
  [j \in DOMAIN table \cup {k} |-> IF j = k THEN v ELSE table[j]]

\* DELETE: the table without the rows whose keys are in K.
Without(table, K) == [j \in DOMAIN table \ K |-> table[j]]

-----------------------------------------------------------------------------
(* _rebuild_shipment *)

EventsOf(c, E) == {e \in E : e.canonical = c}

\* The first, in date order, of the events that satisfy a condition.
Earliest(S) == CHOOSE e \in S : \A f \in S : f = e \/ Before(e, f)

\* merchants[0] and order_numbers[0]: the first value present in date order.
FirstMerchant(S) ==
  LET known == {e \in S : e.merchant # None}
  IN  IF known = {} THEN None ELSE Earliest(known).merchant

FirstOrder(S) ==
  LET known == {e \in S : e.order # None}
  IN  IF known = {} THEN None ELSE Earliest(known).order

\* sorted(tracking_numbers, key=_tracking_sort_key)[0].
PrimaryTracking(S) ==
  LET known      == {e \in S : e.tracking # None}
      structured == {e \in known : e.tracking \in Structured}
  IN  CASE structured # {}               -> Earliest(structured).tracking
        [] structured = {} /\ known # {} -> Earliest(known).tracking
        [] OTHER                         -> None

Dates(S) == {e.date : e \in S}

\* Faulty variant: last_seen_at is the date of the event inserted last.
TimelineOfLastInsert(S) ==
  [ merchant        |-> FirstMerchant(S),
    primaryTracking |-> PrimaryTracking(S),
    primaryOrder    |-> FirstOrder(S),
    currentStatus   |-> select_current_status(S).status,
    currentDate     |-> select_current_status(S).date,
    severity        |-> check_chronology(S).severity,
    codes           |-> check_chronology(S).codes,
    eventCount      |-> Cardinality(S),
    lastSeen        |-> (CHOOSE e \in S : \A f \in S : f.id <= e.id).date ]

\* What a shipment row says of its events, recomputed at every rebuild.
Timeline(S) ==
  [ merchant        |-> FirstMerchant(S),
    primaryTracking |-> PrimaryTracking(S),
    primaryOrder    |-> FirstOrder(S),
    currentStatus   |-> select_current_status(S).status,
    currentDate     |-> select_current_status(S).date,
    severity        |-> check_chronology(S).severity,
    codes           |-> check_chronology(S).codes,
    eventCount      |-> Cardinality(S),
    lastSeen        |-> Max(Dates(S)) ]

\* list_for_shipment: the keys of the aliases that lead to a shipment.
AliasesOf(c, A) == {k \in DOMAIN A : A[k].canonical = c}

\* The least confidence of the shipment's aliases, 100 when it has none.
MergeConfidence(c, A) ==
  IF AliasesOf(c, A) = {} THEN 100
  ELSE Min({A[k].confidence : k \in AliasesOf(c, A)})

\* Faulty variant: ON CONFLICT DO NOTHING.
InsertShipmentOnce(R, c, timeline, confidence, firstSeen) ==
  IF c \in DOMAIN R THEN R
  ELSE Put(R, c, [ timeline |-> timeline, mergeConfidence |-> confidence,
                   firstSeen |-> firstSeen ])

\* ShipmentRepository.upsert: an existing row keeps its first_seen_at.
UpsertShipment(R, c, timeline, confidence, firstSeen) ==
  Put(R, c, [ timeline        |-> timeline,
              mergeConfidence |-> confidence,
              firstSeen       |-> IF c \in DOMAIN R THEN R[c].firstSeen
                                  ELSE firstSeen ])

\* _rebuild_shipment: nothing happens when the shipment has no events.
RebuildShipment(R, c, E, A) ==
  LET S == EventsOf(c, E)
  IN  IF S = {} THEN R
      ELSE UpsertShipment(R, c, Timeline(S), MergeConfidence(c, A), Min(Dates(S)))

-----------------------------------------------------------------------------
(* Aliases *)

\* Faulty variant: the conflict clause also overwrites the canonical id.
RepointAlias(A, k, c, confidence) ==
  Put(A, k, [canonical |-> c, confidence |-> confidence])

\* ShipmentAliasRepository.upsert: a known alias keeps its canonical id.
UpsertAlias(A, k, c, confidence) ==
  Put(A, k, [ canonical  |-> IF k \in DOMAIN A THEN A[k].canonical ELSE c,
              confidence |-> confidence ])

\* Faulty variant: any two tracking numbers merge.
MergeAnything(a, b) == TRUE

can_merge_tracking_numbers(a, b) == a = b

\* _register_tracking_alias: not when the shipment has another tracking alias
\* that the merge rule refuses.
RegisterTrackingAlias(A, c, t, confidence) ==
  IF \E u \in Trackings :
       /\ TrackingAlias(u) \in AliasesOf(c, A)
       /\ ~can_merge_tracking_numbers(u, t)
  THEN A
  ELSE UpsertAlias(A, TrackingAlias(t), c, confidence)

\* The canonical id an order confirmation belongs to.
CanonicalForOrder(x) ==
  LET k == OrderAlias(x.order, x.merchant)
  IN  IF k \in DOMAIN aliases THEN aliases[k].canonical ELSE k

\* _resolve_canonical_for_shipping: the tracking alias, then the order alias,
\* then a new id derived from the tracking number, then from the order.
CanonicalForShipping(x) ==
  LET t == TrackingAlias(x.tracking)
      o == OrderAlias(x.order, x.merchant)
      knownTracking == x.tracking # None /\ t \in DOMAIN aliases
      knownOrder    == x.order # None /\ o \in DOMAIN aliases
  IN  CASE knownTracking                                       -> aliases[t].canonical
        [] ~knownTracking /\ knownOrder                        -> aliases[o].canonical
        [] ~knownTracking /\ ~knownOrder /\ x.tracking # None  -> t
        [] OTHER                                               -> o

-----------------------------------------------------------------------------
(* Events *)

\* The columns insert_if_new compares; the canonical id and the merchant are
\* not among them.
EventKey(e) == <<e.email, e.date, e.status, e.tracking, e.order>>

\* Faulty variant: the row id is the last one handed out, not the next.
EventWithStaleId(x, c, tracking) ==
  [ id |-> lastId, canonical |-> c, email |-> x.email,
    date |-> ReceivedAt[x.email], status |-> x.status, tracking |-> tracking,
    order |-> x.order, merchant |-> x.merchant ]

NewEvent(x, c, tracking) ==
  [ id |-> lastId + 1, canonical |-> c, email |-> x.email,
    date |-> ReceivedAt[x.email], status |-> x.status, tracking |-> tracking,
    order |-> x.order, merchant |-> x.merchant ]

\* Faulty variant: a comparison with NULL is never true.
SameKeyNullBlind(e) ==
  {f \in events : /\ EventKey(f) = EventKey(e)
                  /\ f.tracking # None /\ f.order # None}

SameKey(e) == {f \in events : EventKey(f) = EventKey(e)}

\* Faulty variant: a known event moves to the shipment of its replay.
InsertOrMove(e, sender) ==
  \/ /\ SameKey(e) = {}
     /\ lastId < MaxId
     /\ events' = events \cup {e}
     /\ senderOf' = [senderOf EXCEPT ![e.id] = sender]
     /\ lastId' = e.id
  \/ /\ SameKey(e) # {}
     /\ events' = {IF f \in SameKey(e) THEN [f EXCEPT !.canonical = e.canonical]
                   ELSE f : f \in events}
     /\ UNCHANGED <<senderOf, lastId>>

\* insert_if_new: a known event is only completed with the sender it lacked.
InsertIfNew(e, sender) ==
  \/ /\ SameKey(e) = {}
     /\ lastId < MaxId
     /\ events' = events \cup {e}
     /\ senderOf' = [senderOf EXCEPT ![e.id] = sender]
     /\ lastId' = e.id
  \/ /\ SameKey(e) # {}
     /\ senderOf' = [i \in 1 .. MaxId |->
                       IF senderOf[i] = None /\ \E f \in SameKey(e) : f.id = i
                       THEN sender ELSE senderOf[i]]
     /\ UNCHANGED <<events, lastId>>

-----------------------------------------------------------------------------
(* The operations *)

Init ==
  /\ aliases = EmptyTable
  /\ events = {}
  /\ senderOf = [i \in 1 .. MaxId |-> None]
  /\ rows = EmptyTable
  /\ lastId = 0

\* The early returns of resolve_and_insert.
CreatesShipmentData(x) == x.relevant /\ x.type \notin NON_PHYSICAL_TYPES

ProcessOrderConfirmation(x, sender) ==
  /\ CreatesShipmentData(x)
  /\ x.type = "order_confirmation"
  /\ x.order # None
  /\ LET c == CanonicalForOrder(x)
     IN  /\ aliases' = UpsertAlias(aliases, OrderAlias(x.order, x.merchant), c,
                                   x.confidence)
         /\ InsertIfNew(NewEvent(x, c, None), sender)
         /\ rows' = RebuildShipment(rows, c, events', aliases')

\* The aliases a shipping mail leaves behind: tracking first, then order.
AliasesAfterShipping(x, c) ==
  LET A == IF x.tracking = None THEN aliases
           ELSE RegisterTrackingAlias(aliases, c, x.tracking, x.confidence)
  IN  IF x.order = None THEN A
      ELSE UpsertAlias(A, OrderAlias(x.order, x.merchant), c, x.confidence)

\* Faulty variant: the row is rebuilt before the event is flushed.
RebuildBeforeInsert(x, sender) ==
  /\ CreatesShipmentData(x)
  /\ x.type # "order_confirmation"
  /\ x.tracking # None \/ x.order # None
  /\ LET c == CanonicalForShipping(x)
     IN  /\ aliases' = AliasesAfterShipping(x, c)
         /\ InsertIfNew(NewEvent(x, c, x.tracking), sender)
         /\ rows' = RebuildShipment(rows, c, events, aliases')

ProcessShippingEvent(x, sender) ==
  /\ CreatesShipmentData(x)
  /\ x.type # "order_confirmation"
  /\ x.tracking # None \/ x.order # None
  /\ LET c == CanonicalForShipping(x)
     IN  /\ aliases' = AliasesAfterShipping(x, c)
         /\ InsertIfNew(NewEvent(x, c, x.tracking), sender)
         /\ rows' = RebuildShipment(rows, c, events', aliases')

\* resolve_and_insert for an extraction that gets past the early returns.
ResolveAndInsert(x, sender) ==
  \/ ProcessOrderConfirmation(x, sender)
  \/ ProcessShippingEvent(x, sender)

\* Faulty variants of the deletion: only the events go,
DeleteEventsOnly(c) ==
  /\ events' = {e \in events : e.canonical # c}
  /\ UNCHANGED <<aliases, senderOf, rows, lastId>>

\* the order aliases stay.
DeleteKeepsOrderAliases(c) ==
  /\ events' = {e \in events : e.canonical # c}
  /\ aliases' = Without(aliases, AliasesOf(c, aliases) \cap TrackingKeys)
  /\ rows' = Without(rows, {c})
  /\ UNCHANGED <<senderOf, lastId>>

\* DELETE /shipments/{id}: events, aliases and row of one canonical id.
DeleteShipment(c) ==
  /\ events' = {e \in events : e.canonical # c}
  /\ aliases' = Without(aliases, AliasesOf(c, aliases))
  /\ senderOf' = [i \in 1 .. MaxId |->
                    IF \E e \in events : e.id = i /\ e.canonical = c
                    THEN None ELSE senderOf[i]]
  /\ rows' = Without(rows, {c})
  /\ UNCHANGED lastId

\* parsli rebuild, run while nothing else writes.
RebuildAll ==
  /\ rows' = [c \in DOMAIN rows |-> RebuildShipment(rows, c, events, aliases)[c]]
  /\ UNCHANGED <<aliases, events, senderOf, lastId>>

Next ==
  \/ \E x \in Extractions, s \in Sender : ResolveAndInsert(x, s)
  \/ \E c \in Canonical : DeleteShipment(c)
  \/ RebuildAll

Spec == Init /\ [][Next]_vars

-----------------------------------------------------------------------------
(* Properties *)

\* Type correctness: the tables hold what their columns may hold, and every id is
\* one that was handed out.
TypeOK ==
  /\ DOMAIN aliases \subseteq AliasKey
  /\ aliases \in [DOMAIN aliases -> Alias]
  /\ events \subseteq Event /\ IsFiniteSet(events)
  /\ \A e \in events : e.id <= lastId
  /\ senderOf \in [1 .. MaxId -> Sender]
  /\ DOMAIN rows \subseteq Canonical
  /\ rows = [c \in DOMAIN rows |-> rows[c]]
  /\ lastId \in 0 .. MaxId

\* Every event on record belongs to a shipment the dashboard lists: no call, in any
\* order, leaves an event whose shipment row is missing.
EventsHaveRow == \A e \in events : e.canonical \in DOMAIN rows

\* A listed shipment has events, and everything its row says of them (merchant,
\* primary identifiers, current status, chronology grade, count, last date) is what
\* a rebuild from the events on record would say now.
RowReflectsEvents ==
  \A c \in DOMAIN rows :
    /\ EventsOf(c, events) # {}
    /\ rows[c].timeline = Timeline(EventsOf(c, events))

\* An e-mail, whatever is retried or replayed, never yields two events with the
\* same date, status and identifiers, in one shipment or in two.
NoDuplicateEvents ==
  \A e, f \in events : EventKey(e) = EventKey(f) => e = f

\* The merge safety check keeps at most one tracking alias per shipment, so mail
\* about two parcels is never routed to one timeline by tracking number alone.
OneTrackingAlias ==
  \A t, u \in Trackings :
    /\ TrackingAlias(t) \in DOMAIN aliases
    /\ TrackingAlias(u) \in DOMAIN aliases
    /\ aliases[TrackingAlias(t)].canonical = aliases[TrackingAlias(u)].canonical
    => t = u

\* A shipment derived from a tracking number always answers to that number: while
\* anything at all leads to it, its own tracking alias exists and leads to it.
TrackingAnchored ==
  \A k \in DOMAIN aliases, u \in Trackings :
    aliases[k].canonical = TrackingAlias(u)
      => TrackingAlias(u) \in AliasesOf(TrackingAlias(u), aliases)

\* Every event stays findable: its tracking number or its merchant-qualified order
\* still leads, through the alias table, to the shipment it is filed in.  So the
\* next mail about the same parcel joins the same timeline, and two shipments are
\* joined only by an identifier they share.
EventsReachable ==
  \A e \in events :
    \/ /\ e.tracking # None
       /\ TrackingAlias(e.tracking) \in AliasesOf(e.canonical, aliases)
    \/ /\ e.order # None
       /\ OrderAlias(e.order, e.merchant) \in AliasesOf(e.canonical, aliases)

\* Once a listed parcel shows delivered it keeps showing delivered until it is
\* deleted, whatever mail is processed later.
DeliveredIsFinal ==
  [][ \A c \in DOMAIN rows \cap DOMAIN rows' :
        rows[c].timeline.currentStatus = "delivered"
          => rows'[c].timeline.currentStatus = "delivered" ]_vars

\* A listed shipment's history only grows: its number of events and the date it was
\* last seen never go back while it stays listed.
HistoryOnlyGrows ==
  [][ \A c \in DOMAIN rows \cap DOMAIN rows' :
        /\ rows'[c].timeline.eventCount >= rows[c].timeline.eventCount
        /\ rows'[c].timeline.lastSeen >= rows[c].timeline.lastSeen ]_vars

\* An event disappears only together with its whole shipment, aliases included, so
\* that mail arriving later starts a timeline of its own and never reopens half of a
\* deleted one.
DeletionIsTotal ==
  [][ \A e \in events \ events' :
        /\ EventsOf(e.canonical, events') = {}
        /\ AliasesOf(e.canonical, aliases') = {}
        /\ e.canonical \notin DOMAIN rows' ]_vars

\* first_seen_at is the date of the earliest event on record.
FirstSeenIsEarliest ==
  \A c \in DOMAIN rows : rows[c].firstSeen = Min(Dates(EventsOf(c, events)))

=============================================================================
