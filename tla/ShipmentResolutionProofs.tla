---------------------- MODULE ShipmentResolutionProofs ----------------------
(***************************************************************************)
(* Proofs about ShipmentResolution, for every set of e-mails, identifiers  *)
(* and extractions.  The alias table is treated first, on its own; then    *)
(* the events and rows; then the inductive invariant of the specification  *)
(* and the theorems that follow from it; last, that it implements          *)
(* ParcelTimelines.                                                        *)
(***************************************************************************)
EXTENDS TimelineRefinement, ChronologyProofs

-----------------------------------------------------------------------------
(* The alias table *)

AliasTable(A) == DOMAIN A \subseteq AliasKey /\ A \in [DOMAIN A -> Alias]

\* OneTrackingAlias and TrackingAnchored as predicates of a table.
OneTracking(A) ==
  \A t, u \in Trackings :
    /\ TrackingAlias(t) \in DOMAIN A
    /\ TrackingAlias(u) \in DOMAIN A
    /\ A[TrackingAlias(t)].canonical = A[TrackingAlias(u)].canonical
    => t = u

Anchored(A) ==
  \A k \in DOMAIN A, u \in Trackings :
    A[k].canonical = TrackingAlias(u)
      => TrackingAlias(u) \in AliasesOf(TrackingAlias(u), A)

AliasInv(A) == AliasTable(A) /\ OneTracking(A) /\ Anchored(A)

\* No alias is lost or re-pointed between the two tables.
Grows(A, B) ==
  /\ DOMAIN A \subseteq DOMAIN B
  /\ \A k \in DOMAIN A : B[k].canonical = A[k].canonical

\* What INSERT ... ON CONFLICT does to the alias table.
LEMMA UpsertAliasEffect ==
  ASSUME NEW A, AliasTable(A),
         NEW k \in AliasKey, NEW c \in Canonical, NEW conf \in Confidences
  PROVE  LET B == UpsertAlias(A, k, c, conf)
         IN  /\ AliasTable(B)
             /\ Grows(A, B)
             /\ DOMAIN B = DOMAIN A \cup {k}
             /\ k \notin DOMAIN A => B[k].canonical = c
<1> DEFINE v == [canonical  |-> IF k \in DOMAIN A THEN A[k].canonical ELSE c,
                 confidence |-> conf]
<1> USE DEF AliasTable
<1>1. v \in Alias
  BY DEF Alias
<1>2. UpsertAlias(A, k, c, conf) = Put(A, k, v)
  BY DEF UpsertAlias
<1>3. v.canonical = IF k \in DOMAIN A THEN A[k].canonical ELSE c
  OBVIOUS
<1> HIDE DEF v
<1>4. /\ DOMAIN Put(A, k, v) = DOMAIN A \cup {k}
      /\ Put(A, k, v) \in [DOMAIN Put(A, k, v) -> Alias]
      /\ Put(A, k, v)[k] = v
      /\ \A j \in DOMAIN A : j # k => Put(A, k, v)[j] = A[j]
  BY <1>1 DEF Put
<1> QED  BY <1>2, <1>3, <1>4 DEF Grows

\* Tracking and order aliases are different keys, and a key determines the
\* tracking number it was built from.
LEMMA KeysDistinct ==
  /\ \A t, u \in Trackings : TrackingAlias(t) = TrackingAlias(u) => t = u
  /\ \A t \in Trackings : TrackingAlias(t) \notin OrderKeys
  /\ \A t \in Trackings : TrackingAlias(t) \in AliasKey
  /\ \A o \in Orders, m \in Merchant : OrderAlias(o, m) \in OrderKeys
  /\ OrderKeys \subseteq AliasKey
BY DEF TrackingAlias, OrderAlias, OrderKeys, TrackingKeys, AliasKey

\* A new order alias for an id that is itself an order key, or to which something
\* already leads, keeps the table safe.
LEMMA OrderAliasSafe ==
  ASSUME NEW A, AliasInv(A),
         NEW k \in OrderKeys, NEW c \in Canonical, NEW conf \in Confidences,
         c \in OrderKeys \/ AliasesOf(c, A) # {}
  PROVE  LET B == UpsertAlias(A, k, c, conf)
         IN  AliasInv(B) /\ Grows(A, B) /\ (k \notin DOMAIN A => k \in AliasesOf(c, B))
<1> DEFINE B == UpsertAlias(A, k, c, conf)
<1>1. /\ AliasTable(B)
      /\ Grows(A, B)
      /\ DOMAIN B = DOMAIN A \cup {k}
      /\ k \notin DOMAIN A => B[k].canonical = c
  BY UpsertAliasEffect, KeysDistinct DEF AliasInv
<1> HIDE DEF B
<1>2. OneTracking(B)
  BY <1>1, KeysDistinct DEF OneTracking, Grows, AliasInv
<1>3. Anchored(B)
  <2> SUFFICES ASSUME NEW j \in DOMAIN B, NEW u \in Trackings,
                      B[j].canonical = TrackingAlias(u)
               PROVE  TrackingAlias(u) \in AliasesOf(TrackingAlias(u), B)
    BY DEF Anchored
  <2>1. \E i \in DOMAIN A : A[i].canonical = TrackingAlias(u)
    <3>1. CASE j \in DOMAIN A
      BY <3>1, <1>1 DEF Grows
    <3>2. CASE j \notin DOMAIN A
      <4>1. c = TrackingAlias(u)
        BY <3>2, <1>1
      <4> QED  BY <4>1, KeysDistinct DEF AliasesOf
    <3> QED  BY <3>1, <3>2
  <2>2. TrackingAlias(u) \in AliasesOf(TrackingAlias(u), A)
    BY <2>1 DEF AliasInv, Anchored
  <2> QED  BY <2>2, <1>1 DEF AliasesOf, Grows
<1> QED  BY <1>1, <1>2, <1>3 DEF AliasInv, AliasesOf, B

\* Registering a tracking number for an id to which something already leads, or
\* for the id derived from the number itself, keeps the table safe; in the second
\* case the number does lead to it.
LEMMA RegisterTrackingSafe ==
  ASSUME NEW A, AliasInv(A),
         NEW t \in Trackings, NEW c \in Canonical, NEW conf \in Confidences,
         AliasesOf(c, A) # {} \/ c = TrackingAlias(t)
  PROVE  LET B == RegisterTrackingAlias(A, c, t, conf)
         IN  /\ AliasInv(B)
             /\ Grows(A, B)
             /\ AliasesOf(c, A) = {} /\ TrackingAlias(t) \notin DOMAIN A
                  => TrackingAlias(t) \in AliasesOf(c, B)
<1> DEFINE U == UpsertAlias(A, TrackingAlias(t), c, conf)
           refused == \E u \in Trackings :
                        /\ TrackingAlias(u) \in AliasesOf(c, A)
                        /\ ~can_merge_tracking_numbers(u, t)
<1>1. CASE refused
  <2>1. RegisterTrackingAlias(A, c, t, conf) = A
    BY <1>1 DEF RegisterTrackingAlias
  <2>2. AliasesOf(c, A) # {}
    BY <1>1
  <2> QED  BY <2>1, <2>2 DEF Grows
<1>2. CASE ~refused
  <2>1. RegisterTrackingAlias(A, c, t, conf) = U
    BY <1>2 DEF RegisterTrackingAlias
  <2>2. /\ AliasTable(U)
        /\ Grows(A, U)
        /\ DOMAIN U = DOMAIN A \cup {TrackingAlias(t)}
        /\ TrackingAlias(t) \notin DOMAIN A => U[TrackingAlias(t)].canonical = c
    BY UpsertAliasEffect, KeysDistinct DEF AliasInv
  <2>3. \A u \in Trackings : TrackingAlias(u) \in AliasesOf(c, A) => u = t
    BY <1>2 DEF can_merge_tracking_numbers
  <2> HIDE DEF U, refused
  <2>4. OneTracking(U)
    <3> SUFFICES ASSUME NEW u \in Trackings, NEW w \in Trackings,
                        TrackingAlias(u) \in DOMAIN U,
                        TrackingAlias(w) \in DOMAIN U,
                        U[TrackingAlias(u)].canonical = U[TrackingAlias(w)].canonical
                 PROVE  u = w
      BY DEF OneTracking
    <3>1. CASE TrackingAlias(t) \in DOMAIN A
      BY <3>1, <2>2 DEF AliasInv, OneTracking, Grows
    <3>2. CASE TrackingAlias(t) \notin DOMAIN A
      <4>1. \A y \in Trackings : TrackingAlias(y) \in DOMAIN U /\ y # t
              => /\ TrackingAlias(y) \in DOMAIN A
                 /\ A[TrackingAlias(y)].canonical = U[TrackingAlias(y)].canonical
                 /\ A[TrackingAlias(y)].canonical # c
        BY <2>2, <2>3, KeysDistinct DEF Grows, AliasesOf
      <4> QED  BY <4>1, <3>2, <2>2 DEF AliasInv, OneTracking
    <3> QED  BY <3>1, <3>2
  <2>5. Anchored(U)
    <3> SUFFICES ASSUME NEW j \in DOMAIN U, NEW u \in Trackings,
                        U[j].canonical = TrackingAlias(u)
                 PROVE  TrackingAlias(u) \in AliasesOf(TrackingAlias(u), U)
      BY DEF Anchored
    <3>1. CASE \E i \in DOMAIN A : A[i].canonical = TrackingAlias(u)
      <4>1. TrackingAlias(u) \in AliasesOf(TrackingAlias(u), A)
        BY <3>1 DEF AliasInv, Anchored
      <4> QED  BY <4>1, <2>2 DEF AliasesOf, Grows
    <3>2. CASE ~\E i \in DOMAIN A : A[i].canonical = TrackingAlias(u)
      <4>1. j \notin DOMAIN A /\ j = TrackingAlias(t) /\ c = TrackingAlias(u)
        BY <3>2, <2>2 DEF Grows
      <4>2. AliasesOf(c, A) = {}
        BY <4>1, <3>2 DEF AliasesOf
      <4> QED  BY <4>1, <4>2, <2>2 DEF AliasesOf
    <3> QED  BY <3>1, <3>2
  <2> QED  BY <2>1, <2>2, <2>4, <2>5 DEF AliasInv, AliasesOf
<1> QED  BY <1>1, <1>2

-----------------------------------------------------------------------------
(* The alias table after one extraction *)

\* Mail about the event's tracking number or order would reach the shipment c.
Leads(x, tracking, c, A) ==
  \/ tracking # None /\ TrackingAlias(tracking) \in AliasesOf(c, A)
  \/ x.order # None /\ OrderAlias(x.order, x.merchant) \in AliasesOf(c, A)

\* The order confirmation path keeps the alias table safe and findable.
LEMMA OrderConfirmationAliases ==
  ASSUME AliasInv(aliases), NEW x \in Extraction, x.order # None
  PROVE  LET c == CanonicalForOrder(x)
             B == UpsertAlias(aliases, OrderAlias(x.order, x.merchant), c,
                              x.confidence)
         IN  /\ c \in Canonical
             /\ AliasInv(B) /\ Grows(aliases, B)
             /\ Leads(x, None, c, B)
<1> DEFINE k == OrderAlias(x.order, x.merchant)
           c == CanonicalForOrder(x)
           B == UpsertAlias(aliases, k, c, x.confidence)
<1>1. k \in OrderKeys /\ k \in AliasKey /\ x.confidence \in Confidences
  BY KeysDistinct DEF Extraction, Order
<1>2. c = IF k \in DOMAIN aliases THEN aliases[k].canonical ELSE k
  BY DEF CanonicalForOrder
<1> HIDE DEF k, c
<1>3. c \in Canonical
  BY <1>1, <1>2 DEF AliasInv, AliasTable, Alias, Canonical
<1>4. c \in OrderKeys \/ AliasesOf(c, aliases) # {}
  BY <1>1, <1>2 DEF AliasesOf
<1>5. /\ AliasInv(B) /\ Grows(aliases, B)
      /\ k \notin DOMAIN aliases => k \in AliasesOf(c, B)
  BY <1>1, <1>3, <1>4, OrderAliasSafe
<1> HIDE DEF B
<1>6. k \in AliasesOf(c, B)
  BY <1>2, <1>5 DEF Grows, AliasesOf
<1> QED  BY <1>3, <1>5, <1>6 DEF Leads, k, c, B

\* So does the shipping path, through both of its upserts.
LEMMA ShippingAliases ==
  ASSUME AliasInv(aliases), ConstantsAssumption, NEW x \in Extraction,
         x.tracking # None \/ x.order # None
  PROVE  LET c == CanonicalForShipping(x)
             B == AliasesAfterShipping(x, c)
         IN  /\ c \in Canonical
             /\ AliasInv(B) /\ Grows(aliases, B)
             /\ Leads(x, x.tracking, c, B)
<1> DEFINE t == TrackingAlias(x.tracking)
           o == OrderAlias(x.order, x.merchant)
           c == CanonicalForShipping(x)
           A1 == IF x.tracking = None THEN aliases
                 ELSE RegisterTrackingAlias(aliases, c, x.tracking, x.confidence)
           B == AliasesAfterShipping(x, c)
           knownT == x.tracking # None /\ t \in DOMAIN aliases
           knownO == x.order # None /\ o \in DOMAIN aliases
<1>1. /\ x.confidence \in Confidences
      /\ x.tracking # None => x.tracking \in Trackings /\ t \in AliasKey
      /\ x.order # None => o \in OrderKeys /\ o \in AliasKey
  BY KeysDistinct DEF Extraction, Order, Tracking
<1>2. /\ knownT => c = aliases[t].canonical
      /\ ~knownT /\ knownO => c = aliases[o].canonical
      /\ ~knownT /\ ~knownO /\ x.tracking # None => c = t
      /\ ~knownT /\ ~knownO /\ x.tracking = None => c = o
  BY DEF CanonicalForShipping
<1>3. B = IF x.order = None THEN A1 ELSE UpsertAlias(A1, o, c, x.confidence)
  BY DEF AliasesAfterShipping
<1> HIDE DEF t, o, c, B
<1>4. c \in Canonical
  BY <1>1, <1>2 DEF AliasInv, AliasTable, Alias, Canonical
<1>5. /\ knownT => t \in AliasesOf(c, aliases)
      /\ ~knownT /\ knownO => o \in AliasesOf(c, aliases)
  BY <1>2 DEF AliasesOf
<1>6. /\ AliasInv(A1) /\ Grows(aliases, A1)
      /\ x.tracking # None => AliasesOf(c, A1) # {}
      /\ x.tracking # None /\ ~knownT /\ ~knownO => t \in AliasesOf(c, A1)
  <2>1. CASE x.tracking = None
    BY <2>1 DEF Grows
  <2>2. CASE x.tracking # None
    <3>1. AliasesOf(c, aliases) # {} \/ c = t
      BY <2>2, <1>2, <1>5
    <3>2. /\ AliasInv(A1) /\ Grows(aliases, A1)
          /\ AliasesOf(c, aliases) = {} /\ t \notin DOMAIN aliases
               => t \in AliasesOf(c, A1)
      BY <2>2, <3>1, <1>1, <1>4, RegisterTrackingSafe DEF t
    <3> HIDE DEF A1
    <3>3. AliasesOf(c, aliases) # {} => AliasesOf(c, A1) # {}
      BY <3>2 DEF Grows, AliasesOf
    <3>4. ~knownT /\ ~knownO => t \in AliasesOf(c, A1)
      <4>1. SUFFICES ASSUME ~knownT, ~knownO, AliasesOf(c, aliases) # {}
                     PROVE  t \in AliasesOf(c, A1)
        BY <2>2, <3>2
      <4>2. c = t /\ x.tracking \in Trackings
        BY <4>1, <2>2, <1>1, <1>2
      <4>3. t \in AliasesOf(t, aliases)
        BY <4>1, <4>2 DEF AliasInv, Anchored, AliasesOf, t
      <4> QED  BY <4>1, <4>3, <2>2 DEF AliasesOf
    <3> QED  BY <2>2, <3>1, <3>2, <3>3, <3>4, <1>5 DEF AliasesOf
  <2> QED  BY <2>1, <2>2
<1> HIDE DEF A1
<1>7. /\ AliasInv(B) /\ Grows(A1, B)
      /\ x.order # None /\ o \notin DOMAIN A1 => o \in AliasesOf(c, B)
  <2>1. CASE x.order = None
    BY <2>1, <1>3, <1>6 DEF Grows
  <2>2. CASE x.order # None
    <3>1. c \in OrderKeys \/ AliasesOf(c, A1) # {}
      BY <2>2, <1>1, <1>2, <1>5, <1>6 DEF AliasesOf, Grows
    <3> QED  BY <2>2, <3>1, <1>1, <1>3, <1>4, <1>6, OrderAliasSafe
  <2> QED  BY <2>1, <2>2
<1>8. Grows(aliases, B)
  BY <1>6, <1>7 DEF Grows
<1>9. \/ x.tracking # None /\ t \in AliasesOf(c, B)
      \/ x.order # None /\ o \in AliasesOf(c, B)
  <2>1. CASE knownT
    BY <2>1, <1>5, <1>8 DEF Grows, AliasesOf
  <2>2. CASE ~knownT /\ knownO
    BY <2>2, <1>5, <1>8 DEF Grows, AliasesOf
  <2>3. CASE ~knownT /\ ~knownO /\ x.tracking # None
    BY <2>3, <1>6, <1>7 DEF Grows, AliasesOf
  <2>4. CASE ~knownT /\ ~knownO /\ x.tracking = None
    BY <2>4, <1>7, A1 = aliases DEF A1
  <2> QED  BY <2>1, <2>2, <2>3, <2>4
<1> QED  BY <1>4, <1>7, <1>8, <1>9 DEF Leads, t, o, c, B

-----------------------------------------------------------------------------
(* Events and rows *)

\* Filing an event in shipment c, or finding it already on record, and then
\* rebuilding c leaves every row in agreement with its events.
LEMMA FilingKeepsRows ==
  ASSUME EventsHaveRow, RowReflectsEvents, rows = [d \in DOMAIN rows |-> rows[d]],
         DOMAIN rows \subseteq Canonical,
         NEW c \in Canonical, NEW E, NEW A,
         \/ E = events
         \/ \E e : e.canonical = c /\ E = events \cup {e},
         events' = E, rows' = RebuildShipment(rows, c, E, A)
  PROVE  /\ EventsHaveRow' /\ RowReflectsEvents'
         /\ rows' = [d \in DOMAIN rows' |-> rows'[d]]
         /\ DOMAIN rows' \subseteq Canonical
         /\ DOMAIN rows \subseteq DOMAIN rows'
<1> DEFINE S == EventsOf(c, E)
           first == IF c \in DOMAIN rows THEN rows[c].firstSeen ELSE Min(Dates(S))
           v == [ timeline        |-> Timeline(S),
                  mergeConfidence |-> MergeConfidence(c, A),
                  firstSeen       |-> first ]
<1>1. \A d : d # c => EventsOf(d, E) = EventsOf(d, events)
  BY DEF EventsOf
<1>2. EventsOf(c, events) \subseteq S
  BY DEF EventsOf
<1>3. CASE S = {}
  <2>1. rows' = rows
    BY <1>3 DEF RebuildShipment
  <2>2. c \notin DOMAIN rows
    BY <1>2, <1>3 DEF RowReflectsEvents
  <2>3. \A d \in DOMAIN rows : EventsOf(d, E) = EventsOf(d, events)
    BY <1>1, <2>2
  <2>4. RowReflectsEvents'
    BY <2>1, <2>3 DEF RowReflectsEvents
  <2>5. EventsHaveRow'
    BY <1>3, <2>1 DEF EventsHaveRow, EventsOf
  <2> QED  BY <2>1, <2>4, <2>5
<1>4. CASE S # {}
  <2>1. rows' = Put(rows, c, v)
    BY <1>4 DEF RebuildShipment, UpsertShipment
  <2>2. v.timeline = Timeline(S)
    OBVIOUS
  <2> HIDE DEF v
  <2>3. /\ DOMAIN rows' = DOMAIN rows \cup {c}
        /\ rows'[c] = v
        /\ \A d \in DOMAIN rows : d # c => rows'[d] = rows[d]
        /\ rows' = [d \in DOMAIN rows' |-> rows'[d]]
    BY <2>1 DEF Put
  <2> HIDE DEF S
  <2>4. RowReflectsEvents'
    <3> SUFFICES ASSUME NEW d \in DOMAIN rows'
                 PROVE  /\ EventsOf(d, E) # {}
                        /\ rows'[d].timeline = Timeline(EventsOf(d, E))
      BY DEF RowReflectsEvents
    <3>1. CASE d = c
      BY <3>1, <1>4, <2>2, <2>3 DEF S
    <3>2. CASE d # c
      BY <3>2, <1>1, <2>3 DEF RowReflectsEvents
    <3> QED  BY <3>1, <3>2
  <2>5. EventsHaveRow'
    BY <2>3 DEF EventsHaveRow
  <2> QED  BY <2>3, <2>4, <2>5
<1> QED  BY <1>3, <1>4

\* A new event carries the next id and the values of its extraction.
LEMMA NewEventType ==
  ASSUME ConstantsAssumption, lastId \in 0 .. MaxId, lastId < MaxId,
         NEW x \in Extraction, NEW c \in Canonical, NEW tracking \in Tracking
  PROVE  /\ NewEvent(x, c, tracking) \in Event
         /\ NewEvent(x, c, tracking).id = lastId + 1
BY DEF ConstantsAssumption, NewEvent, Event, Extraction

\* The id of an event row is its primary key.
RowIdsDistinct == \A e, f \in events : e.id = f.id => e = f

\* What insert_if_new does, whichever of its branches runs.
LEMMA InsertIfNewEffect ==
  ASSUME TypeOK, RowIdsDistinct, NoDuplicateEvents, ConstantsAssumption,
         NEW x \in Extraction, NEW c \in Canonical, NEW tracking \in Tracking,
         NEW sender \in Sender, InsertIfNew(NewEvent(x, c, tracking), sender)
  PROVE  /\ events' \subseteq Event /\ IsFiniteSet(events')
         /\ lastId' \in 0 .. MaxId
         /\ \A e \in events' : e.id <= lastId'
         /\ senderOf' \in [1 .. MaxId -> Sender]
         /\ RowIdsDistinct' /\ NoDuplicateEvents'
         /\ events' = events \/ events' = events \cup {NewEvent(x, c, tracking)}
<1> DEFINE e == NewEvent(x, c, tracking)
<1>1. CASE /\ SameKey(e) = {}
           /\ lastId < MaxId
           /\ events' = events \cup {e}
           /\ senderOf' = [senderOf EXCEPT ![e.id] = sender]
           /\ lastId' = e.id
  <2>1. e \in Event /\ e.id = lastId + 1
    BY <1>1, NewEventType DEF TypeOK
  <2> HIDE DEF e
  <2>2. lastId' \in 0 .. MaxId /\ lastId < lastId'
    BY <1>1, <2>1 DEF TypeOK, ConstantsAssumption
  <2>3. events' \subseteq Event /\ IsFiniteSet(events')
    BY <1>1, <2>1, FS_AddElement DEF TypeOK
  <2>4. \A f \in events' : f.id <= lastId'
    <3> SUFFICES ASSUME NEW f \in events'
                 PROVE  f.id <= lastId'
      OBVIOUS
    <3>1. CASE f = e
      BY <3>1, <1>1, <2>1 DEF TypeOK
    <3>2. CASE f \in events
      <4>1. f.id \in 1 .. MaxId /\ f.id <= lastId
        BY <3>2 DEF TypeOK, Event
      <4> QED  BY <4>1, <1>1, <2>1 DEF TypeOK
    <3> QED  BY <3>1, <3>2, <1>1
  <2>5. senderOf' \in [1 .. MaxId -> Sender]
    BY <1>1 DEF TypeOK
  <2>6. NoDuplicateEvents'
    <3>1. \A f \in events : EventKey(f) # EventKey(e)
      BY <1>1 DEF SameKey
    <3>2. NoDuplicateEvents' <=>
            \A f, g \in events' : EventKey(f) = EventKey(g) => f = g
      BY DEF NoDuplicateEvents, EventKey
    <3> QED  BY <3>1, <3>2, <1>1 DEF NoDuplicateEvents
  <2>7. RowIdsDistinct'
    <3>1. \A f \in events : f.id \in Nat /\ f.id <= lastId /\ lastId \in Nat
      BY DEF TypeOK, Event, ConstantsAssumption
    <3>2. \A f \in events : f.id # e.id
      BY <2>1, <3>1
    <3> QED  BY <1>1, <3>2 DEF RowIdsDistinct
  <2> QED  BY <1>1, <2>2, <2>3, <2>4, <2>5, <2>6, <2>7 DEF e
<1>2. CASE /\ SameKey(e) # {}
           /\ senderOf' = [i \in 1 .. MaxId |->
                             IF senderOf[i] = None /\ \E f \in SameKey(e) : f.id = i
                             THEN sender ELSE senderOf[i]]
           /\ UNCHANGED <<events, lastId>>
  <2>1. senderOf' \in [1 .. MaxId -> Sender]
    BY <1>2 DEF TypeOK
  <2>2. RowIdsDistinct' /\ NoDuplicateEvents'
    BY <1>2 DEF RowIdsDistinct, NoDuplicateEvents, EventKey
  <2> QED  BY <1>2, <2>1, <2>2 DEF TypeOK
<1> QED  BY <1>1, <1>2 DEF InsertIfNew

\* Filing keeps every event findable.
LEMMA FilingKeepsReachable ==
  ASSUME EventsReachable, Grows(aliases, aliases'),
         NEW x, NEW c, NEW tracking, Leads(x, tracking, c, aliases'),
         events' = events \/ events' = events \cup {NewEvent(x, c, tracking)}
  PROVE  EventsReachable'
<1> DEFINE e == NewEvent(x, c, tracking)
<1>1. /\ e.canonical = c /\ e.tracking = tracking
      /\ e.order = x.order /\ e.merchant = x.merchant
  BY DEF NewEvent
<1> HIDE DEF e
<1>2. SUFFICES ASSUME NEW f \in events'
               PROVE  Leads(f, f.tracking, f.canonical, aliases')
  BY DEF EventsReachable, Leads, AliasesOf
<1>3. CASE f \in events
  <2>1. Leads(f, f.tracking, f.canonical, aliases)
    BY <1>3 DEF EventsReachable, Leads
  <2> QED  BY <2>1 DEF Leads, Grows, AliasesOf
<1>4. CASE f = e
  BY <1>1, <1>4 DEF Leads
<1> QED  BY <1>2, <1>3, <1>4 DEF e

-----------------------------------------------------------------------------
(* The inductive invariant *)

\* EventsReachable needs TrackingAnchored: a mail filed under an id derived from
\* its tracking number is findable only because the number's alias is registered,
\* which the merge check refuses unless nothing else leads to that id.  The row
\* properties need EventsHaveRow and RowReflectsEvents together.
IInv ==
  /\ TypeOK /\ RowIdsDistinct /\ NoDuplicateEvents
  /\ OneTrackingAlias /\ TrackingAnchored
  /\ EventsReachable
  /\ EventsHaveRow /\ RowReflectsEvents

LEMMA AliasInvIsInvariant ==
  /\ IInv => AliasInv(aliases)
  /\ AliasInv(aliases)' <=>
       /\ (DOMAIN aliases \subseteq AliasKey /\ aliases \in [DOMAIN aliases -> Alias])'
       /\ OneTrackingAlias' /\ TrackingAnchored'
BY DEF IInv, AliasInv, AliasTable, OneTracking, Anchored, TypeOK,
       OneTrackingAlias, TrackingAnchored, AliasesOf

LEMMA InitIInv == ConstantsAssumption /\ Init => IInv
<1> SUFFICES ASSUME ConstantsAssumption, Init
             PROVE  IInv
  OBVIOUS
<1> USE DEF Init, EmptyTable
<1>1. TypeOK
  BY FS_EmptySet DEF TypeOK, ConstantsAssumption, Sender
<1>2. RowIdsDistinct /\ NoDuplicateEvents /\ EventsReachable /\ EventsHaveRow
  BY DEF RowIdsDistinct, NoDuplicateEvents, EventsReachable, EventsHaveRow
<1>3. OneTrackingAlias /\ TrackingAnchored
  BY DEF OneTrackingAlias, TrackingAnchored
<1>4. RowReflectsEvents
  BY DEF RowReflectsEvents
<1> QED  BY <1>1, <1>2, <1>3, <1>4 DEF IInv

\* Any way of filing an extraction whose aliases grow safely and lead to the
\* shipment it is filed in preserves the invariant.
LEMMA FilingKeepsIInv ==
  ASSUME IInv, ConstantsAssumption,
         NEW x \in Extraction, NEW c \in Canonical, NEW tracking \in Tracking,
         NEW sender \in Sender,
         AliasInv(aliases'), Grows(aliases, aliases'),
         Leads(x, tracking, c, aliases'),
         InsertIfNew(NewEvent(x, c, tracking), sender),
         rows' = RebuildShipment(rows, c, events', aliases')
  PROVE  /\ IInv'
         /\ events \subseteq events'
<1> DEFINE e == NewEvent(x, c, tracking)
<1>1. /\ events' \subseteq Event /\ IsFiniteSet(events')
      /\ lastId' \in 0 .. MaxId
      /\ \A f \in events' : f.id <= lastId'
      /\ senderOf' \in [1 .. MaxId -> Sender]
      /\ RowIdsDistinct' /\ NoDuplicateEvents'
      /\ events' = events \/ events' = events \cup {e}
  BY InsertIfNewEffect DEF IInv
<1>2. e.canonical = c
  BY DEF NewEvent
<1>3. EventsReachable'
  BY <1>1, FilingKeepsReachable DEF IInv
<1> HIDE DEF e
<1>4. /\ EventsHaveRow' /\ RowReflectsEvents'
      /\ rows' = [d \in DOMAIN rows' |-> rows'[d]]
      /\ DOMAIN rows' \subseteq Canonical
  BY <1>1, <1>2, FilingKeepsRows DEF IInv, TypeOK
<1>5. /\ DOMAIN aliases' \subseteq AliasKey /\ aliases' \in [DOMAIN aliases' -> Alias]
      /\ OneTrackingAlias' /\ TrackingAnchored'
  BY DEF AliasInv, AliasTable, OneTracking, Anchored, OneTrackingAlias,
         TrackingAnchored, AliasesOf
<1>6. TypeOK'
  BY <1>1, <1>4, <1>5 DEF TypeOK
<1> QED  BY <1>1, <1>3, <1>4, <1>5, <1>6 DEF IInv

LEMMA OrderConfirmationIInv ==
  ASSUME IInv, ConstantsAssumption, NEW x \in Extractions, NEW sender \in Sender,
         ProcessOrderConfirmation(x, sender)
  PROVE  IInv' /\ events \subseteq events'
<1> DEFINE c == CanonicalForOrder(x)
<1>1. x \in Extraction /\ x.order # None
  BY DEF ConstantsAssumption, ProcessOrderConfirmation
<1>2. /\ aliases' = UpsertAlias(aliases, OrderAlias(x.order, x.merchant), c,
                                x.confidence)
      /\ InsertIfNew(NewEvent(x, c, None), sender)
      /\ rows' = RebuildShipment(rows, c, events', aliases')
  BY DEF ProcessOrderConfirmation
<1>3. /\ c \in Canonical /\ AliasInv(aliases') /\ Grows(aliases, aliases')
      /\ Leads(x, None, c, aliases')
  BY <1>1, <1>2, OrderConfirmationAliases, AliasInvIsInvariant
<1>4. None \in Tracking
  BY DEF Tracking
<1> HIDE DEF c
<1> QED  BY <1>1, <1>2, <1>3, <1>4, FilingKeepsIInv

LEMMA ShippingEventIInv ==
  ASSUME IInv, ConstantsAssumption, NEW x \in Extractions, NEW sender \in Sender,
         ProcessShippingEvent(x, sender)
  PROVE  IInv' /\ events \subseteq events'
<1> DEFINE c == CanonicalForShipping(x)
<1>1. x \in Extraction /\ (x.tracking # None \/ x.order # None)
  BY DEF ConstantsAssumption, ProcessShippingEvent
<1>2. /\ aliases' = AliasesAfterShipping(x, c)
      /\ InsertIfNew(NewEvent(x, c, x.tracking), sender)
      /\ rows' = RebuildShipment(rows, c, events', aliases')
  BY DEF ProcessShippingEvent
<1>3. /\ c \in Canonical /\ AliasInv(aliases') /\ Grows(aliases, aliases')
      /\ Leads(x, x.tracking, c, aliases')
  BY <1>1, <1>2, ShippingAliases, AliasInvIsInvariant
<1>4. x.tracking \in Tracking
  BY <1>1 DEF Extraction
<1> HIDE DEF c
<1> QED  BY <1>1, <1>2, <1>3, <1>4, FilingKeepsIInv

LEMMA DeleteIInv ==
  ASSUME IInv, ConstantsAssumption, NEW c \in Canonical, DeleteShipment(c)
  PROVE  IInv'
<1>1. /\ events' = {e \in events : e.canonical # c}
      /\ DOMAIN aliases' = {k \in DOMAIN aliases : aliases[k].canonical # c}
      /\ \A k \in DOMAIN aliases' : aliases'[k] = aliases[k]
      /\ aliases' = [k \in DOMAIN aliases' |-> aliases'[k]]
      /\ DOMAIN rows' = DOMAIN rows \ {c}
      /\ \A d \in DOMAIN rows' : rows'[d] = rows[d]
      /\ rows' = [d \in DOMAIN rows' |-> rows'[d]]
      /\ lastId' = lastId
  BY DEF DeleteShipment, Without, AliasesOf
<1>2. senderOf' \in [1 .. MaxId -> Sender]
  BY DEF DeleteShipment, IInv, TypeOK, Sender
<1>3. TypeOK'
  <2>1. events' \subseteq Event /\ IsFiniteSet(events')
    BY <1>1, FS_Subset DEF IInv, TypeOK
  <2> QED  BY <1>1, <1>2, <2>1 DEF IInv, TypeOK
<1>4. RowIdsDistinct' /\ NoDuplicateEvents'
  BY <1>1 DEF IInv, RowIdsDistinct, NoDuplicateEvents, EventKey
<1>5. OneTrackingAlias' /\ TrackingAnchored'
  BY <1>1 DEF IInv, OneTrackingAlias, TrackingAnchored, AliasesOf
<1>6. EventsReachable'
  BY <1>1 DEF IInv, EventsReachable, AliasesOf
<1>7. \A d : d # c => EventsOf(d, events') = EventsOf(d, events)
  BY <1>1 DEF EventsOf
<1>8. EventsHaveRow' /\ RowReflectsEvents'
  BY <1>1, <1>7 DEF IInv, EventsHaveRow, RowReflectsEvents
<1> QED  BY <1>3, <1>4, <1>5, <1>6, <1>8 DEF IInv

LEMMA RebuildAllIInv ==
  ASSUME IInv, RebuildAll
  PROVE  IInv'
<1>1. /\ UNCHANGED <<aliases, events, senderOf, lastId>>
      /\ DOMAIN rows' = DOMAIN rows
      /\ rows' = [c \in DOMAIN rows' |-> rows'[c]]
  BY DEF RebuildAll
<1>2. ASSUME NEW c \in DOMAIN rows
      PROVE  rows'[c].timeline = Timeline(EventsOf(c, events))
  <2> DEFINE v == [ timeline        |-> Timeline(EventsOf(c, events)),
                    mergeConfidence |-> MergeConfidence(c, aliases),
                    firstSeen       |-> IF c \in DOMAIN rows THEN rows[c].firstSeen
                                        ELSE Min(Dates(EventsOf(c, events))) ]
  <2>1. EventsOf(c, events) # {}
    BY DEF IInv, RowReflectsEvents
  <2>2. RebuildShipment(rows, c, events, aliases) = Put(rows, c, v)
    BY <2>1 DEF RebuildShipment, UpsertShipment
  <2>3. v.timeline = Timeline(EventsOf(c, events))
    OBVIOUS
  <2> HIDE DEF v
  <2>4. rows'[c] = v
    BY <2>2 DEF RebuildAll, Put
  <2> QED  BY <2>3, <2>4
<1>3. EventsHaveRow' /\ RowReflectsEvents'
  BY <1>1, <1>2 DEF IInv, EventsHaveRow, RowReflectsEvents, EventsOf
<1>4. TypeOK' /\ RowIdsDistinct' /\ NoDuplicateEvents'
  BY <1>1 DEF IInv, TypeOK, RowIdsDistinct, NoDuplicateEvents, EventKey
<1>5. OneTrackingAlias' /\ TrackingAnchored' /\ EventsReachable'
  BY <1>1 DEF IInv, OneTrackingAlias, TrackingAnchored, EventsReachable, AliasesOf
<1> QED  BY <1>3, <1>4, <1>5 DEF IInv

LEMMA StutterIInv == IInv /\ UNCHANGED vars => IInv'
BY DEF vars, IInv, TypeOK, RowIdsDistinct, NoDuplicateEvents, EventKey, OneTrackingAlias,
       TrackingAnchored, EventsReachable, AliasesOf, EventsHaveRow,
       RowReflectsEvents, EventsOf

\* Every call keeps the inductive invariant, so it holds of all reachable tables.
THEOREM Invariance == Spec => []IInv
<1>1. Init => IInv
  BY InitIInv, ConstantsAssumption
<1>2. IInv /\ [Next]_vars => IInv'
  <2> SUFFICES ASSUME IInv, [Next]_vars
               PROVE  IInv'
    OBVIOUS
  <2>1. ASSUME NEW x \in Extractions, NEW s \in Sender, ResolveAndInsert(x, s)
        PROVE  IInv'
    BY <2>1, ConstantsAssumption, OrderConfirmationIInv, ShippingEventIInv
       DEF ResolveAndInsert
  <2>2. ASSUME NEW c \in Canonical, DeleteShipment(c)
        PROVE  IInv'
    BY <2>2, ConstantsAssumption, DeleteIInv
  <2>3. CASE RebuildAll
    BY <2>3, RebuildAllIInv
  <2>4. CASE UNCHANGED vars
    BY <2>4, StutterIInv
  <2> QED  BY <2>1, <2>2, <2>3, <2>4 DEF Next
<1> QED  BY <1>1, <1>2, PTL DEF Spec

-----------------------------------------------------------------------------
(* The invariants of the runs *)

\* The tables always hold what their columns may hold.
THEOREM TypeCorrect == Spec => []TypeOK
BY Invariance, PTL DEF IInv

\* The merge safety check of _register_tracking_alias does its work in every
\* reachable alias table: one tracking number per shipment.
THEOREM MergeSafety == Spec => []OneTrackingAlias
BY Invariance, PTL DEF IInv

\* And it never keeps a shipment named after a tracking number from answering to it.
THEOREM Anchoring == Spec => []TrackingAnchored
BY Invariance, PTL DEF IInv

\* The event on record for any e-mail can always be found again through the
\* aliases, so later mail about the same parcel joins it.
THEOREM Findability == Spec => []EventsReachable
BY Invariance, PTL DEF IInv

\* The shipment table always agrees with the event table, in both directions.
THEOREM RowsAgree == Spec => [](EventsHaveRow /\ RowReflectsEvents)
BY Invariance, PTL DEF IInv

\* insert_if_new never files the same event twice.
THEOREM NoDuplicates == Spec => []NoDuplicateEvents
BY Invariance, PTL DEF IInv

-----------------------------------------------------------------------------
(* What the rows tell *)

\* Rows with distinct ids are a log, shipment by shipment, to which the chronology algorithms apply.
LEMMA EventsAreLog ==
  ASSUME NEW E, E \subseteq Event, IsFiniteSet(E),
         \A e, f \in E : e.id = f.id => e = f, ConstantsAssumption
  PROVE  \A c : EventLog(EventsOf(c, E))
<1>1. EventLog(E)
  BY DEF EventLog, Event, ConstantsAssumption
<1>2. \A c : EventsOf(c, E) \subseteq E
  BY DEF EventsOf
<1> QED  BY <1>1, <1>2, PartOfLog

\* The row of a listed shipment says what the references say of its events: its
\* grade is the one of the sequence, and its status is delivered exactly when a
\* delivery was reported.
RowsAreHonest ==
  \A c \in DOMAIN rows :
    LET S == EventsOf(c, events)
    IN  /\ rows[c].timeline.severity = SeverityOf(S)
        /\ rows[c].timeline.currentStatus = "delivered"
             <=> \E e \in S : Delivered(e)

\* Loop, sort and rebuild taken together: the grade and the delivery on the
\* dashboard are properties of the mail filed, not of the order it came in.
THEOREM RowsStayHonest == Spec => []RowsAreHonest
<1>1. ASSUME IInv, NEW c \in DOMAIN rows
      PROVE  /\ rows[c].timeline.severity = SeverityOf(EventsOf(c, events))
             /\ rows[c].timeline.currentStatus = "delivered"
                  <=> \E e \in EventsOf(c, events) : Delivered(e)
  <2> DEFINE S == EventsOf(c, events)
  <2>1. EventLog(S)
    BY <1>1, ConstantsAssumption, EventsAreLog DEF IInv, TypeOK, RowIdsDistinct
  <2>2. S # {} /\ rows[c].timeline = Timeline(S)
    BY <1>1 DEF IInv, RowReflectsEvents
  <2> HIDE DEF S
  <2>3. /\ Timeline(S).severity = check_chronology(S).severity
        /\ Timeline(S).currentStatus = select_current_status(S).status
    BY DEF Timeline
  <2>4. /\ check_chronology(S).severity = SeverityOf(S)
        /\ Delivered(select_current_status(S)) <=> \E e \in S : Delivered(e)
    BY <2>1, <2>2, GradeIsReference, DeliveredWins
  <2> QED  BY <2>2, <2>3, <2>4 DEF Delivered, S
<1>2. IInv => RowsAreHonest
  BY <1>1 DEF RowsAreHonest
<1> QED  BY <1>2, Invariance, PTL

-----------------------------------------------------------------------------
(* What no step may do *)

\* A shipment that stays listed keeps all the events it had.
LEMMA ListedKeepsEvents ==
  ASSUME IInv, ConstantsAssumption, [Next]_vars,
         NEW c \in DOMAIN rows, c \in DOMAIN rows'
  PROVE  EventsOf(c, events) \subseteq EventsOf(c, events')
<1>1. ASSUME NEW x \in Extractions, NEW s \in Sender, ResolveAndInsert(x, s)
      PROVE  events \subseteq events'
  BY <1>1, OrderConfirmationIInv, ShippingEventIInv DEF ResolveAndInsert
<1>2. ASSUME NEW d \in Canonical, DeleteShipment(d)
      PROVE  EventsOf(c, events) \subseteq EventsOf(c, events')
  <2>1. c # d
    BY <1>2 DEF DeleteShipment, Without
  <2> QED  BY <1>2, <2>1 DEF DeleteShipment, EventsOf
<1>3. CASE RebuildAll \/ UNCHANGED vars
  BY <1>3 DEF RebuildAll, vars, EventsOf
<1> QED  BY <1>1, <1>2, <1>3 DEF Next, EventsOf

\* A step reads and writes rows that agree with their events.
LEMMA StepRows ==
  ASSUME IInv, IInv', NEW c \in DOMAIN rows, c \in DOMAIN rows'
  PROVE  LET S == EventsOf(c, events)
             T == EventsOf(c, events')
         IN  /\ S \subseteq Event /\ S # {} /\ EventLog(S)
             /\ T \subseteq Event /\ T # {} /\ EventLog(T)
             /\ rows[c].timeline = Timeline(S)
             /\ rows'[c].timeline = Timeline(T)
<1>1. /\ EventsOf(c, events) \subseteq events
      /\ EventsOf(c, events') \subseteq events'
  BY DEF EventsOf
<1>2. /\ events \subseteq Event /\ IsFiniteSet(events)
      /\ events' \subseteq Event /\ IsFiniteSet(events')
  BY DEF IInv, TypeOK
<1>3. EventLog(EventsOf(c, events)) /\ EventLog(EventsOf(c, events'))
  BY <1>2, ConstantsAssumption, EventsAreLog DEF IInv, RowIdsDistinct
<1> QED  BY <1>1, <1>2, <1>3 DEF IInv, RowReflectsEvents

\* Delivered is terminal in the table, not only in the algorithm: no mail, retry,
\* rebuild or deletion of another shipment takes it back.
THEOREM DeliveredStays == Spec => DeliveredIsFinal
<1>1. ASSUME IInv, IInv', [Next]_vars, NEW c \in DOMAIN rows \cap DOMAIN rows',
             rows[c].timeline.currentStatus = "delivered"
      PROVE  rows'[c].timeline.currentStatus = "delivered"
  <2> DEFINE S == EventsOf(c, events)
             T == EventsOf(c, events')
  <2>1. S \subseteq T
    BY <1>1, ConstantsAssumption, ListedKeepsEvents
  <2>2. /\ S # {} /\ EventLog(S) /\ T # {} /\ EventLog(T)
        /\ rows[c].timeline = Timeline(S) /\ rows'[c].timeline = Timeline(T)
    BY <1>1, StepRows
  <2> HIDE DEF S, T
  <2>3. /\ Timeline(S).currentStatus = select_current_status(S).status
        /\ Timeline(T).currentStatus = select_current_status(T).status
    BY DEF Timeline
  <2> QED  BY <1>1, <2>1, <2>2, <2>3, DeliveredWins DEF Delivered
<1>2. IInv /\ IInv' /\ [Next]_vars
        => [ \A c \in DOMAIN rows \cap DOMAIN rows' :
               rows[c].timeline.currentStatus = "delivered"
                 => rows'[c].timeline.currentStatus = "delivered" ]_vars
  BY <1>1
<1> QED  BY <1>2, Invariance, PTL DEF Spec, DeliveredIsFinal

\* A non-empty set of events has a last date, and it is one of its dates.
LEMMA LastDate ==
  ASSUME NEW S, EventLog(S), S # {}
  PROVE  /\ Max(Dates(S)) \in Dates(S)
         /\ Max(Dates(S)) \in Nat
         /\ \A e \in S : e.date <= Max(Dates(S))
<1>1. \A e \in S : e.date \in Nat
  BY DEF EventLog
<1>2. Latest(S) \in S /\ \A f \in S : f.date <= Latest(S).date
  BY <1>1, LatestExists
<1>3. \E d \in Dates(S) : \A m \in Dates(S) : d >= m
  BY <1>1, <1>2 DEF Dates
<1>4. Max(Dates(S)) \in Dates(S) /\ \A m \in Dates(S) : Max(Dates(S)) >= m
  BY <1>3 DEF Max
<1> QED  BY <1>1, <1>4 DEF Dates

\* A listed shipment's history never shrinks: the counts and dates the dashboard
\* shows are those of a set of events that only grows.
THEOREM HistoryGrows == Spec => HistoryOnlyGrows
<1>1. ASSUME IInv, IInv', [Next]_vars, NEW c \in DOMAIN rows \cap DOMAIN rows'
      PROVE  /\ rows'[c].timeline.eventCount >= rows[c].timeline.eventCount
             /\ rows'[c].timeline.lastSeen >= rows[c].timeline.lastSeen
  <2> DEFINE S == EventsOf(c, events)
             T == EventsOf(c, events')
  <2>1. S \subseteq T
    BY <1>1, ConstantsAssumption, ListedKeepsEvents
  <2>2. /\ S # {} /\ EventLog(S) /\ T # {} /\ EventLog(T) /\ IsFiniteSet(T)
        /\ rows[c].timeline = Timeline(S) /\ rows'[c].timeline = Timeline(T)
    BY <1>1, StepRows DEF EventLog
  <2> HIDE DEF S, T
  <2>3. /\ Timeline(S).eventCount = Cardinality(S)
        /\ Timeline(T).eventCount = Cardinality(T)
        /\ Timeline(S).lastSeen = Max(Dates(S))
        /\ Timeline(T).lastSeen = Max(Dates(T))
    BY DEF Timeline
  <2>4. Cardinality(T) >= Cardinality(S)
    <3>1. /\ IsFiniteSet(S)
          /\ Cardinality(S) <= Cardinality(T)
      BY <2>1, <2>2, FS_Subset
    <3>2. Cardinality(S) \in Nat /\ Cardinality(T) \in Nat
      BY <2>2, <3>1, FS_CardinalityType
    <3> QED  BY <3>1, <3>2
  <2>5. Max(Dates(T)) >= Max(Dates(S))
    <3>1. /\ Max(Dates(S)) \in Nat /\ Max(Dates(T)) \in Nat
          /\ \A e \in T : e.date <= Max(Dates(T))
          /\ Max(Dates(S)) \in Dates(S)
      BY <2>2, LastDate
    <3>2. PICK e \in S : e.date = Max(Dates(S))
      BY <3>1 DEF Dates
    <3> QED  BY <2>1, <3>1, <3>2
  <2> QED  BY <2>2, <2>3, <2>4, <2>5
<1>2. IInv /\ IInv' /\ [Next]_vars
        => [ \A c \in DOMAIN rows \cap DOMAIN rows' :
               /\ rows'[c].timeline.eventCount >= rows[c].timeline.eventCount
               /\ rows'[c].timeline.lastSeen >= rows[c].timeline.lastSeen ]_vars
  BY <1>1
<1> QED  BY <1>2, Invariance, PTL DEF Spec, HistoryOnlyGrows

\* A deletion is the only step that removes events, and it leaves neither an event,
\* nor an alias, nor a row of the shipment it removes them from.
THEOREM DeletionTotal == Spec => DeletionIsTotal
<1>1. ASSUME IInv, [Next]_vars, NEW e \in events \ events'
      PROVE  /\ EventsOf(e.canonical, events') = {}
             /\ AliasesOf(e.canonical, aliases') = {}
             /\ e.canonical \notin DOMAIN rows'
  <2>1. ASSUME NEW x \in Extractions, NEW s \in Sender, ResolveAndInsert(x, s)
        PROVE  FALSE
    BY <1>1, <2>1, ConstantsAssumption, OrderConfirmationIInv,
       ShippingEventIInv DEF ResolveAndInsert
  <2>2. ASSUME NEW c \in Canonical, DeleteShipment(c)
        PROVE  /\ EventsOf(e.canonical, events') = {}
               /\ AliasesOf(e.canonical, aliases') = {}
               /\ e.canonical \notin DOMAIN rows'
    <3>1. e.canonical = c
      BY <1>1, <2>2 DEF DeleteShipment
    <3>2. EventsOf(c, events') = {}
      BY <2>2 DEF DeleteShipment, EventsOf
    <3>3. AliasesOf(c, aliases') = {}
      BY <2>2 DEF DeleteShipment, AliasesOf, Without
    <3>4. c \notin DOMAIN rows'
      BY <2>2 DEF DeleteShipment, Without
    <3> QED  BY <3>1, <3>2, <3>3, <3>4
  <2>3. CASE RebuildAll \/ UNCHANGED vars
    BY <1>1, <2>3 DEF RebuildAll, vars
  <2> QED  BY <1>1, <2>1, <2>2, <2>3 DEF Next
<1>2. IInv /\ [Next]_vars
        => [ \A e \in events \ events' :
               /\ EventsOf(e.canonical, events') = {}
               /\ AliasesOf(e.canonical, aliases') = {}
               /\ e.canonical \notin DOMAIN rows' ]_vars
  BY <1>1
<1> QED  BY <1>2, Invariance, PTL DEF Spec, DeletionIsTotal

-----------------------------------------------------------------------------
(* The implementation of ParcelTimelines.  In every reachable state both abstract *)
(* variables are functions of the events alone (this is where the rows' agreement *)
(* with their events is needed), so it is enough to see what a call does to the   *)
(* events: nothing, one more, or all those of one shipment gone.                  *)

\* The abstract reading of a set of events.
Filings(E) == [c \in {e.canonical : e \in E} |-> EventsOf(c, E)]

Shows(E) == [c \in {e.canonical : e \in E} |-> Abstract!Shown(EventsOf(c, E))]

\* The two modules say the same of a set of events.
LEMMA ShownIsTimeline ==
  ASSUME NEW S
  PROVE  Abstract!Shown(S) =
           [ status  |-> Timeline(S).currentStatus,
             since   |-> Timeline(S).currentDate,
             reports |-> Timeline(S).eventCount ]
<1>1. Abstract!select_current_status(S) = select_current_status(S)
  BY DEF select_current_status, Abstract!select_current_status,
         IsTerminal, Abstract!IsTerminal, NeedsAction, Abstract!NeedsAction,
         IsMain, Abstract!IsMain, Latest, Abstract!Latest,
         TERMINAL_STATUSES, Abstract!TERMINAL_STATUSES,
         SIDE_STATUSES, Abstract!SIDE_STATUSES
<1>2. Abstract!Cardinality(S) = Cardinality(S)
  BY DEF Cardinality, Abstract!Cardinality
<1> QED  BY <1>1, <1>2 DEF Abstract!Shown, Timeline

\* Rows that agree with their events show what the events amount to.
LEMMA RowsShowEvents ==
  ASSUME NEW E, NEW R,
         \A e \in E : e.canonical \in DOMAIN R,
         \A c \in DOMAIN R : /\ EventsOf(c, E) # {}
                             /\ R[c].timeline = Timeline(EventsOf(c, E))
  PROVE  [c \in DOMAIN R |->
            [ status  |-> R[c].timeline.currentStatus,
              since   |-> R[c].timeline.currentDate,
              reports |-> R[c].timeline.eventCount ]] = Shows(E)
<1>1. DOMAIN R = {e.canonical : e \in E}
  BY DEF EventsOf
<1>2. \A c \in DOMAIN R :
        [ status  |-> R[c].timeline.currentStatus,
          since   |-> R[c].timeline.currentDate,
          reports |-> R[c].timeline.eventCount ] = Abstract!Shown(EventsOf(c, E))
  BY ShownIsTimeline
<1> QED  BY <1>1, <1>2 DEF Shows

\* So the abstract variables follow the events, before a step and after it.
LEMMA ViewOfEvents ==
  /\ IInv  => History = Filings(events) /\ ShownRows = Shows(events)
  /\ IInv' => History' = Filings(events') /\ ShownRows' = Shows(events')
<1>1. ASSUME IInv PROVE History = Filings(events) /\ ShownRows = Shows(events)
  BY <1>1, RowsShowEvents
     DEF IInv, EventsHaveRow, RowReflectsEvents, History, Filings, ShownRows
<1>2. ASSUME IInv' PROVE History' = Filings(events') /\ ShownRows' = Shows(events')
  BY <1>2, RowsShowEvents
     DEF IInv, EventsHaveRow, RowReflectsEvents, History, Filings, ShownRows
<1> QED  BY <1>1, <1>2

-----------------------------------------------------------------------------
(* What a call does to the events *)

\* e is filed under an id of its own, later than, and different from, all others.
Files(e) ==
  /\ e.canonical \in Canonical
  /\ \A f \in events : f.id < e.id /\ Abstract!Report(f) # Abstract!Report(e)
  /\ events' = events \cup {e}

\* Processing an extraction files one event or finds it on file.
LEMMA FilingStep ==
  ASSUME IInv, NEW x, NEW c \in Canonical, NEW tracking, NEW sender,
         InsertIfNew(NewEvent(x, c, tracking), sender)
  PROVE  events' = events \/ \E e : Files(e)
<1> DEFINE e == NewEvent(x, c, tracking)
<1>1. CASE SameKey(e) = {} /\ events' = events \cup {e}
  <2>1. e.canonical \in Canonical /\ e.id = lastId + 1
    BY DEF NewEvent
  <2> HIDE DEF e
  <2>2. ASSUME NEW f \in events
        PROVE  f.id < e.id /\ Abstract!Report(f) # Abstract!Report(e)
    <3>1. f.id \in Nat /\ f.id <= lastId /\ lastId \in Nat
      BY ConstantsAssumption DEF IInv, TypeOK, Event, ConstantsAssumption
    <3>2. EventKey(f) # EventKey(e)
      BY <1>1 DEF SameKey
    <3> QED  BY <2>1, <3>1, <3>2 DEF Abstract!Report, EventKey
  <2> QED  BY <1>1, <2>1, <2>2 DEF Files
<1> QED  BY <1>1 DEF InsertIfNew

LEMMA StepOnEvents ==
  ASSUME IInv, [Next]_vars
  PROVE  \/ events' = events
         \/ \E e : Files(e)
         \/ \E c \in Canonical : events' = {e \in events : e.canonical # c}
<1>1. ASSUME NEW x \in Extractions, NEW s \in Sender, ResolveAndInsert(x, s)
      PROVE  events' = events \/ \E e : Files(e)
  <2>1. x \in Extraction /\ AliasInv(aliases)
    BY ConstantsAssumption, AliasInvIsInvariant DEF ConstantsAssumption
  <2>2. CASE ProcessOrderConfirmation(x, s)
    BY <2>1, <2>2, OrderConfirmationAliases, FilingStep DEF ProcessOrderConfirmation
  <2>3. CASE ProcessShippingEvent(x, s)
    BY <2>1, <2>3, ConstantsAssumption, ShippingAliases, FilingStep
       DEF ProcessShippingEvent
  <2> QED  BY <1>1, <2>2, <2>3 DEF ResolveAndInsert
<1>2. ASSUME NEW c \in Canonical, DeleteShipment(c)
      PROVE  events' = {e \in events : e.canonical # c}
  BY <1>2 DEF DeleteShipment
<1>3. CASE RebuildAll \/ UNCHANGED vars
  BY <1>3 DEF RebuildAll, vars
<1> QED  BY <1>1, <1>2, <1>3 DEF Next

-----------------------------------------------------------------------------
(* What that is to the parcels *)

\* One more event is one more report on its parcel, and changes no other parcel.
LEMMA FilesIsFile ==
  ASSUME NEW e, Files(e),
         History = Filings(events), ShownRows = Shows(events),
         History' = Filings(events'), ShownRows' = Shows(events')
  PROVE  Abstract!File(e.canonical)
<1> DEFINE p == e.canonical
<1>1. DOMAIN History = {f.canonical : f \in events} /\ DOMAIN History' = DOMAIN History \cup {p}
  BY DEF Files, Filings
<1>2. /\ \A q \in DOMAIN History : History[q] = EventsOf(q, events)
      /\ \A q \in DOMAIN History' : History'[q] = EventsOf(q, events')
  BY DEF Filings
<1>3. /\ EventsOf(p, events') = EventsOf(p, events) \cup {e}
      /\ \A q : q # p => EventsOf(q, events') = EventsOf(q, events)
      /\ p \notin DOMAIN History => EventsOf(p, events) = {}
  BY <1>1 DEF Files, EventsOf
<1>4. History' = Abstract!Filed(p, e)
  <2>1. \A q \in DOMAIN History' :
          History'[q] = (IF q \in DOMAIN History THEN History[q] ELSE {})
                          \cup (IF q = p THEN {e} ELSE {})
    BY <1>1, <1>2, <1>3
  <2>2. History' = [q \in DOMAIN History' |-> History'[q]]
    BY DEF Filings
  <2> QED  BY <1>1, <2>1, <2>2 DEF Abstract!Filed
<1>5. ASSUME NEW f \in Abstract!OnFile
      PROVE  f.id < e.id /\ Abstract!Report(f) # Abstract!Report(e)
  BY <1>5, <1>2 DEF Abstract!OnFile, EventsOf, Files
<1>6. ShownRows' = [q \in DOMAIN History' |->
                      IF q = p THEN Abstract!Shown(History'[p]) ELSE ShownRows[q]]
  <2>1. \A q \in DOMAIN History' : ShownRows'[q] = Abstract!Shown(EventsOf(q, events'))
    BY DEF Shows, Filings
  <2>2. \A q \in DOMAIN History : ShownRows[q] = Abstract!Shown(EventsOf(q, events))
    BY DEF Shows, Filings
  <2>3. ShownRows' = [q \in DOMAIN History' |-> ShownRows'[q]]
    BY DEF Shows, Filings
  <2>4. \A q \in DOMAIN History' :
          ShownRows'[q] = IF q = p THEN Abstract!Shown(History'[p]) ELSE ShownRows[q]
    BY <1>1, <1>2, <1>3, <2>1, <2>2
  <2> QED  BY <2>3, <2>4
<1>7. p \in DOMAIN History' /\ e \in History'[p]
  BY <1>1, <1>2, <1>3
<1> QED  BY <1>4, <1>5, <1>6, <1>7 DEF Abstract!File

\* The events of one id gone is its parcel dismissed, if there is one.
LEMMA DeletedIsDismissed ==
  ASSUME NEW c, events' = {e \in events : e.canonical # c},
         History = Filings(events), ShownRows = Shows(events),
         History' = Filings(events'), ShownRows' = Shows(events')
  PROVE  Abstract!Dismiss(c) \/ UNCHANGED <<History, ShownRows>>
<1>1. CASE c \notin {e.canonical : e \in events}
  BY <1>1, events' = events
<1>2. CASE c \in {e.canonical : e \in events}
  <2>1. /\ {e.canonical : e \in events'} = {e.canonical : e \in events} \ {c}
        /\ \A q : q # c => EventsOf(q, events') = EventsOf(q, events)
    BY DEF EventsOf
  <2>2. c \in DOMAIN History /\ DOMAIN History' = DOMAIN History \ {c}
    BY <1>2, <2>1 DEF Filings
  <2>3. Filings(events') = [q \in DOMAIN History \ {c} |-> History[q]]
    BY <2>1, <2>2 DEF Filings
  <2>4. Shows(events') = [q \in DOMAIN History \ {c} |-> ShownRows[q]]
    BY <2>1, <2>2 DEF Filings, Shows
  <2> QED  BY <2>2, <2>3, <2>4 DEF Abstract!Dismiss
<1> QED  BY <1>1, <1>2

-----------------------------------------------------------------------------
(* The theorem *)

LEMMA InitialParcels == Init => Abstract!Init
BY DEF Init, EmptyTable, History, ShownRows, EventsOf, Abstract!Init

LEMMA StepOnParcels ==
  ASSUME IInv, IInv', [Next]_vars
  PROVE  [Abstract!Next]_<<History, ShownRows>>
<1>1. /\ History = Filings(events) /\ ShownRows = Shows(events)
      /\ History' = Filings(events') /\ ShownRows' = Shows(events')
  BY ViewOfEvents
<1>2. CASE events' = events
  BY <1>1, <1>2
<1>3. ASSUME NEW e, Files(e)  PROVE Abstract!Next
  <2>1. Abstract!File(e.canonical) /\ e.canonical \in Canonical
    BY <1>1, <1>3, FilesIsFile DEF Files
  <2> QED  BY <2>1 DEF Abstract!Next
<1>4. ASSUME NEW c \in Canonical, events' = {e \in events : e.canonical # c}
      PROVE  [Abstract!Next]_<<History, ShownRows>>
  BY <1>1, <1>4, DeletedIsDismissed DEF Abstract!Next
<1> QED  BY <1>2, <1>3, <1>4, StepOnEvents

\* The resolution service implements the parcels its user is promised: aliases,
\* replays, merges refused and rebuilds never show as anything but one report added
\* to one parcel, or one parcel dismissed.
THEOREM ResolutionImplementsTimelines == Spec => ImplementsTimelines
<1>1. Init => Abstract!Init
  BY InitialParcels
<1>2. IInv /\ IInv' /\ [Next]_vars => [Abstract!Next]_<<History, ShownRows>>
  BY StepOnParcels
<1> QED  BY <1>1, <1>2, Invariance, PTL DEF Spec, ImplementsTimelines, Abstract!Spec

=============================================================================
