----------------------------- MODULE RebuildRace -----------------------------
(***************************************************************************)
(* `parsli rebuild` beside a running server: rebuild_all one statement at  *)
(* a time.  The driver opens a transaction, and takes the write lock, only *)
(* at the first INSERT.  Until then every SELECT of the rebuild stands on  *)
(* its own: the list of shipments, and the events and the aliases of the   *)
(* first shipment it will write, are read outside the lock; everything     *)
(* after that first write happens under it.  Mail being resolved and       *)
(* shipments being deleted write first, so they stay single steps.         *)
(***************************************************************************)
EXTENDS ShipmentResolution

CONSTANT MaxRebuilds   \* bound: number of rebuilds that commit

VARIABLES
  phase,    \* "idle", "listed", "read" or "ready"
  todo,     \* shipments listed and not yet visited: id -> date listed with
  target,   \* the first shipment found to have events
  seen,     \* the events and merge confidence read for it
  rebuilds  \* number of rebuilds that wrote and committed

raceVars == <<phase, todo, target, seen, rebuilds>>

Nothing == [events |-> {}, confidence |-> 100]

RaceInit ==
  /\ Init
  /\ phase = "idle"
  /\ todo = EmptyTable
  /\ target = None
  /\ seen = Nothing
  /\ rebuilds = 0

\* list_all, newest status first.
ListShipments ==
  /\ phase = "idle"
  /\ rebuilds < MaxRebuilds
  /\ todo' = [c \in DOMAIN rows |-> rows[c].timeline.currentDate]
  /\ phase' = IF rows = EmptyTable THEN "idle" ELSE "listed"
  /\ UNCHANGED <<vars, target, seen, rebuilds>>

NextListed(c) == c \in DOMAIN todo /\ \A d \in DOMAIN todo : todo[d] <= todo[c]

\* list_for_shipment of the next shipment; one whose events are gone is skipped.
ReadEvents(c) ==
  /\ phase = "listed"
  /\ NextListed(c)
  /\ todo' = Without(todo, {c})
  /\ \/ /\ EventsOf(c, events) # {}
        /\ target' = c
        /\ seen' = [Nothing EXCEPT !.events = EventsOf(c, events)]
        /\ phase' = "read"
     \/ /\ EventsOf(c, events) = {}
        /\ phase' = IF DOMAIN todo = {c} THEN "idle" ELSE "listed"
        /\ UNCHANGED <<target, seen>>
  /\ UNCHANGED <<vars, rebuilds>>

ReadAliases ==
  /\ phase = "read"
  /\ seen' = [seen EXCEPT !.confidence = MergeConfidence(target, aliases)]
  /\ phase' = "ready"
  /\ UNCHANGED <<vars, todo, target, rebuilds>>

\* Faulty variant: only the first shipment is written.
WriteFirstOnly ==
  /\ phase = "ready"
  /\ rows' = UpsertShipment(rows, target, Timeline(seen.events),
                            seen.confidence, Min(Dates(seen.events)))
  /\ phase' = "idle"
  /\ todo' = EmptyTable
  /\ target' = None
  /\ seen' = Nothing
  /\ rebuilds' = rebuilds + 1
  /\ UNCHANGED <<aliases, events, senderOf, lastId>>

\* Faulty variant: the table is replaced by the shipments that were listed.
ReplaceTable ==
  /\ phase = "ready"
  /\ LET first == UpsertShipment(EmptyTable, target, Timeline(seen.events),
                                 seen.confidence, Min(Dates(seen.events)))
     IN  rows' = [ c \in {target} \cup
                         {d \in DOMAIN todo : EventsOf(d, events) # {}} |->
                     RebuildShipment(first, c, events, aliases)[c] ]
  /\ phase' = "idle"
  /\ todo' = EmptyTable
  /\ target' = None
  /\ seen' = Nothing
  /\ rebuilds' = rebuilds + 1
  /\ UNCHANGED <<aliases, events, senderOf, lastId>>

\* The first upsert takes the lock with what was read before; the remaining
\* shipments are read and written under it, up to the commit.
WriteRows ==
  /\ phase = "ready"
  /\ LET first == UpsertShipment(rows, target, Timeline(seen.events),
                                 seen.confidence, Min(Dates(seen.events)))
         rebuilt(c) == RebuildShipment(first, c, events, aliases)
     IN  rows' = [ c \in DOMAIN first \cup
                         {d \in DOMAIN todo : EventsOf(d, events) # {}} |->
                     IF c \in DOMAIN todo THEN rebuilt(c)[c] ELSE first[c] ]
  /\ phase' = "idle"
  /\ todo' = EmptyTable
  /\ target' = None
  /\ seen' = Nothing
  /\ rebuilds' = rebuilds + 1
  /\ UNCHANGED <<aliases, events, senderOf, lastId>>

\* The command is stopped before its commit: nothing it wrote stays.
Interrupted ==
  /\ phase # "idle"
  /\ phase' = "idle"
  /\ todo' = EmptyTable
  /\ target' = None
  /\ seen' = Nothing
  /\ UNCHANGED <<vars, rebuilds>>

\* The server's writers.
Serve ==
  /\ \/ \E x \in Extractions, s \in Sender : ResolveAndInsert(x, s)
     \/ \E c \in Canonical : DeleteShipment(c)
  /\ UNCHANGED raceVars

RaceNext ==
  \/ Serve
  \/ ListShipments
  \/ \E c \in Canonical : ReadEvents(c)
  \/ ReadAliases
  \/ WriteRows
  \/ Interrupted

RaceSpec == RaceInit /\ [][RaceNext]_<<vars, raceVars>>

-----------------------------------------------------------------------------
(* Properties *)

\* A row agrees with the events on record.
RowCorrect(c) ==
  /\ EventsOf(c, events) # {}
  /\ rows[c].timeline = Timeline(EventsOf(c, events))

\* Only the rebuild's own write can leave a row that disagrees with its events, and
\* it does so at most for the one shipment it read before it held the lock.
StaleOnlyAtTarget ==
  [][ \A c \in DOMAIN rows' :
        ~RowCorrect(c)' /\ (c \in DOMAIN rows => RowCorrect(c))
          => phase = "ready" /\ c = target ]_<<vars, raceVars>>

\* The rebuild repairs what it does under the lock: after its write, every shipment
\* that has events and was listed behind the first is right, whatever happened
\* between the listing and the write.
RestRepaired ==
  [][ rebuilds' > rebuilds =>
        \A c \in DOMAIN todo :
          EventsOf(c, events) # {} => RowCorrect(c)' ]_<<vars, raceVars>>

=============================================================================
