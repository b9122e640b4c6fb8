-------------------------- MODULE RebuildRaceProofs --------------------------
(***************************************************************************)
(* Proofs about RebuildRace: whatever the server does between the reads of *)
(* a rebuild and its write, the damage is confined to the one shipment     *)
(* that was read outside the lock, and all others are repaired.            *)
(***************************************************************************)
EXTENDS RebuildRace, TLAPS

raceState == <<vars, raceVars>>

-----------------------------------------------------------------------------
(* The writers, as the rows of one shipment see them *)

\* T is R with the row of c set to a timeline.
OneRowSet(R, T, c, timeline) ==
  /\ DOMAIN T = DOMAIN R \cup {c}
  /\ T[c].timeline = timeline
  /\ \A d \in DOMAIN R : d # c => T[d] = R[d]

\* An upsert of a row: the others stay.
LEMMA UpsertEffect ==
  \A R, c, timeline, confidence, firstSeen :
    OneRowSet(R, UpsertShipment(R, c, timeline, confidence, firstSeen), c, timeline)
<1> TAKE R, c, timeline, confidence, firstSeen
<1> DEFINE v == [ timeline        |-> timeline,
                  mergeConfidence |-> confidence,
                  firstSeen       |-> IF c \in DOMAIN R THEN R[c].firstSeen
                                      ELSE firstSeen ]
<1>1. UpsertShipment(R, c, timeline, confidence, firstSeen) = Put(R, c, v)
  BY DEF UpsertShipment
<1>2. v.timeline = timeline
  OBVIOUS
<1> HIDE DEF v
<1> QED  BY <1>1, <1>2 DEF Put, OneRowSet

\* A rebuilt row says what the events say; a shipment without events is left alone.
LEMMA RebuildEffect ==
  \A R, c, E, A :
    /\ EventsOf(c, E) = {} => RebuildShipment(R, c, E, A) = R
    /\ EventsOf(c, E) # {} =>
         OneRowSet(R, RebuildShipment(R, c, E, A), c, Timeline(EventsOf(c, E)))
BY UpsertEffect DEF RebuildShipment

\* A mail that is resolved adds events to one shipment at most and rebuilds it.
LEMMA ResolveEffect ==
  ASSUME NEW x, NEW s, ResolveAndInsert(x, s)
  PROVE  \E c : /\ events \subseteq events'
                /\ \A e \in events' \ events : e.canonical = c
                /\ \/ EventsOf(c, events') = {} /\ rows' = rows
                   \/ /\ EventsOf(c, events') # {}
                      /\ OneRowSet(rows, rows', c, Timeline(EventsOf(c, events')))
<1>1. \E c, tracking : /\ InsertIfNew(NewEvent(x, c, tracking), s)
                       /\ rows' = RebuildShipment(rows, c, events', aliases')
  BY DEF ResolveAndInsert, ProcessOrderConfirmation, ProcessShippingEvent
<1>2. \A c, tracking : NewEvent(x, c, tracking).canonical = c
  BY DEF NewEvent
<1>3. \A e : InsertIfNew(e, s) => events' = events \/ events' = events \cup {e}
  BY DEF InsertIfNew
<1>4. PICK c : /\ \E tracking : InsertIfNew(NewEvent(x, c, tracking), s)
               /\ rows' = RebuildShipment(rows, c, events', aliases')
  BY <1>1
<1>5. events \subseteq events' /\ \A e \in events' \ events : e.canonical = c
  BY <1>2, <1>3, <1>4
<1>6. \/ EventsOf(c, events') = {} /\ rows' = rows
      \/ /\ EventsOf(c, events') # {}
         /\ OneRowSet(rows, rows', c, Timeline(EventsOf(c, events')))
  BY <1>4, RebuildEffect
<1> QED  BY <1>5, <1>6

\* What a rebuild's write leaves in the row of each shipment.
LEMMA WriteEffect ==
  ASSUME WriteRows
  PROVE  /\ UNCHANGED events /\ DOMAIN rows \subseteq DOMAIN rows'
         /\ \A c \in DOMAIN todo : EventsOf(c, events) # {} =>
              c \in DOMAIN rows' /\ rows'[c].timeline = Timeline(EventsOf(c, events))
         /\ \A c \in DOMAIN rows' :
              (c \notin DOMAIN todo \/ EventsOf(c, events) = {}) /\ c # target =>
                c \in DOMAIN rows /\ rows'[c] = rows[c]
<1> DEFINE first == UpsertShipment(rows, target, Timeline(seen.events),
                                   seen.confidence, Min(Dates(seen.events)))
           rebuilt(c) == RebuildShipment(first, c, events, aliases)
           written == DOMAIN first \cup {d \in DOMAIN todo : EventsOf(d, events) # {}}
<1>1. OneRowSet(rows, first, target, Timeline(seen.events))
  BY UpsertEffect
<1>2. \A c : /\ EventsOf(c, events) = {} => rebuilt(c) = first
             /\ EventsOf(c, events) # {} =>
                  OneRowSet(first, rebuilt(c), c, Timeline(EventsOf(c, events)))
  BY RebuildEffect
<1>3. /\ rows' = [c \in written |-> IF c \in DOMAIN todo THEN rebuilt(c)[c] ELSE first[c]]
      /\ UNCHANGED events
  BY DEF WriteRows
<1> HIDE DEF first, rebuilt
<1> QED  BY <1>1, <1>2, <1>3 DEF OneRowSet

-----------------------------------------------------------------------------
(* The invariant *)

RaceInv == EventsHaveRow /\ rebuilds \in Nat

LEMMA RaceInvKept == RaceInv /\ [RaceNext]_raceState => RaceInv'
<1> SUFFICES ASSUME RaceInv, [RaceNext]_raceState
             PROVE  RaceInv'
  OBVIOUS
<1>1. ASSUME NEW x \in Extractions, NEW s \in Sender, ResolveAndInsert(x, s),
             UNCHANGED raceVars
      PROVE  RaceInv'
  <2>1. PICK c : /\ events \subseteq events'
                 /\ \A e \in events' \ events : e.canonical = c
                 /\ \/ EventsOf(c, events') = {} /\ rows' = rows
                    \/ /\ EventsOf(c, events') # {}
                       /\ OneRowSet(rows, rows', c, Timeline(EventsOf(c, events')))
    BY <1>1, ResolveEffect
  <2>2. DOMAIN rows \subseteq DOMAIN rows'
        /\ (EventsOf(c, events') # {} => c \in DOMAIN rows')
    BY <2>1 DEF OneRowSet
  <2>3. \A e \in events' : e.canonical = c => EventsOf(c, events') # {}
    BY DEF EventsOf
  <2> QED  BY <1>1, <2>1, <2>2, <2>3 DEF RaceInv, EventsHaveRow, raceVars
<1>2. ASSUME NEW c \in Canonical, DeleteShipment(c), UNCHANGED raceVars
      PROVE  RaceInv'
  BY <1>2 DEF RaceInv, EventsHaveRow, DeleteShipment, Without, raceVars
<1>3. CASE WriteRows
  <2>1. rebuilds' = rebuilds + 1
    BY <1>3 DEF WriteRows
  <2> QED  BY <1>3, <2>1, WriteEffect DEF RaceInv, EventsHaveRow
<1>4. CASE ListShipments \/ (\E c \in Canonical : ReadEvents(c)) \/ ReadAliases
           \/ Interrupted \/ UNCHANGED raceState
  <2>1. UNCHANGED <<events, rows, rebuilds>>
    BY <1>4 DEF ListShipments, ReadEvents, ReadAliases, Interrupted, raceState, raceVars, vars
  <2> QED  BY <2>1 DEF RaceInv, EventsHaveRow
<1> QED  BY <1>1, <1>2, <1>3, <1>4 DEF RaceNext, Serve

LEMMA RaceInvariance == RaceSpec => []RaceInv
<1>1. RaceInit => RaceInv
  BY DEF RaceInit, Init, RaceInv, EventsHaveRow
<1>2. RaceSpec <=> RaceInit /\ [][RaceNext]_raceState
  BY DEF RaceSpec, raceState
<1> QED  BY <1>1, <1>2, RaceInvKept, PTL

-----------------------------------------------------------------------------
(* The theorems *)

\* No interleaving of a rebuild with the server's writers leaves an event whose
\* shipment is not listed.
THEOREM RebuildKeepsRows == RaceSpec => []EventsHaveRow
BY RaceInvariance, PTL DEF RaceInv

\* A row that a step leaves wrong was wrong before, or is the one the rebuild read
\* before it held the lock.
THEOREM DamageIsConfined == RaceSpec => StaleOnlyAtTarget
<1> DEFINE Confined ==
             \A c \in DOMAIN rows' :
               ~RowCorrect(c)' /\ (c \in DOMAIN rows => RowCorrect(c))
                 => phase = "ready" /\ c = target
<1>1. ASSUME [RaceNext]_raceState
      PROVE  [Confined]_raceState
  <2> SUFFICES ASSUME RaceNext, NEW c \in DOMAIN rows',
                      ~RowCorrect(c)', c \in DOMAIN rows => RowCorrect(c)
               PROVE  phase = "ready" /\ c = target
    BY <1>1
  <2>1. ASSUME NEW x \in Extractions, NEW s \in Sender, ResolveAndInsert(x, s)
        PROVE  FALSE
    <3>1. PICK d : /\ events \subseteq events'
                   /\ \A e \in events' \ events : e.canonical = d
                   /\ \/ EventsOf(d, events') = {} /\ rows' = rows
                      \/ /\ EventsOf(d, events') # {}
                         /\ OneRowSet(rows, rows', d, Timeline(EventsOf(d, events')))
      BY <2>1, ResolveEffect
    <3>2. CASE c = d
      <4>1. EventsOf(c, events') = {}
        BY <3>1, <3>2 DEF RowCorrect, OneRowSet
      <4>2. c \in DOMAIN rows
        BY <3>1, <3>2, <4>1
      <4> QED  BY <3>1, <4>1, <4>2 DEF RowCorrect, EventsOf
    <3>3. CASE c # d
      <4>1. EventsOf(c, events') = EventsOf(c, events)
        BY <3>1, <3>3 DEF EventsOf
      <4>2. c \in DOMAIN rows /\ rows'[c] = rows[c]
        BY <3>1, <3>3 DEF OneRowSet
      <4> QED  BY <4>1, <4>2 DEF RowCorrect
    <3> QED  BY <3>2, <3>3
  <2>2. ASSUME NEW d \in Canonical, DeleteShipment(d)
        PROVE  FALSE
    <3>1. /\ c # d /\ c \in DOMAIN rows /\ rows'[c] = rows[c]
          /\ events' = {e \in events : e.canonical # d}
      BY <2>2 DEF DeleteShipment, Without
    <3>2. EventsOf(c, events') = EventsOf(c, events)
      BY <3>1 DEF EventsOf
    <3> QED  BY <3>1, <3>2 DEF RowCorrect
  <2>3. CASE WriteRows
    <3>1. phase = "ready"
      BY <2>3 DEF WriteRows
    <3>2. ASSUME c # target  PROVE FALSE
      <4>1. CASE c \in DOMAIN todo /\ EventsOf(c, events) # {}
        BY <2>3, <4>1, WriteEffect DEF RowCorrect
      <4>2. CASE c \notin DOMAIN todo \/ EventsOf(c, events) = {}
        <5>1. c \in DOMAIN rows /\ rows'[c] = rows[c] /\ UNCHANGED events
          BY <2>3, <3>2, <4>2, WriteEffect
        <5> QED  BY <5>1 DEF RowCorrect
      <4> QED  BY <4>1, <4>2
    <3> QED  BY <3>1, <3>2
  <2>4. CASE ListShipments \/ (\E d \in Canonical : ReadEvents(d)) \/ ReadAliases
             \/ Interrupted
    <3>1. UNCHANGED <<events, rows>>
      BY <2>4 DEF ListShipments, ReadEvents, ReadAliases, Interrupted, vars
    <3> QED  BY <3>1 DEF RowCorrect
  <2> QED  BY <2>1, <2>2, <2>3, <2>4 DEF RaceNext, Serve
<1>2. RaceSpec => [][RaceNext]_raceState
  BY DEF RaceSpec, raceState
<1>3. StaleOnlyAtTarget <=> [][Confined]_raceState
  BY DEF StaleOnlyAtTarget, raceState
<1> QED  BY <1>1, <1>2, <1>3, PTL

\* Every shipment a rebuild reads under its lock is right after it, whatever was
\* processed and deleted since it was listed.
THEOREM RebuildRepairs == RaceSpec => RestRepaired
<1> DEFINE Repaired ==
             rebuilds' > rebuilds =>
               \A c \in DOMAIN todo : EventsOf(c, events) # {} => RowCorrect(c)'
<1>1. ASSUME RaceInv, [RaceNext]_raceState
      PROVE  [Repaired]_raceState
  <2> SUFFICES ASSUME RaceNext, rebuilds' > rebuilds, NEW c \in DOMAIN todo,
                      EventsOf(c, events) # {}
               PROVE  RowCorrect(c)'
    BY <1>1
  <2>1. WriteRows
    <3>1. WriteRows \/ UNCHANGED rebuilds
      BY DEF RaceNext, Serve, ListShipments, ReadEvents, ReadAliases, Interrupted, raceVars
    <3> QED  BY <1>1, <3>1 DEF RaceInv
  <2> QED  BY <2>1, WriteEffect DEF RowCorrect
<1>2. RaceSpec => [][RaceNext]_raceState
  BY DEF RaceSpec, raceState
<1>3. RestRepaired <=> [][Repaired]_raceState
  BY DEF RestRepaired, raceState
<1> QED  BY <1>1, <1>2, <1>3, RaceInvariance, PTL

=============================================================================
