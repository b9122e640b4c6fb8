------------------------- MODULE MCChronologyProofs -------------------------
(***************************************************************************)
(* The chronology algorithms over every history, of any length, of any     *)
(* statuses, at any dates.  What ChronologyProofs shows of a set of events *)
(* becomes a theorem about the histories that mail can build: these are    *)
(* event logs, and a step adds one event to one.                           *)
(***************************************************************************)
EXTENDS MCChronology, ChronologyProofs

\* Every event is one that Observe files, and its id is its turn.
HistoryInv ==
  /\ IsFiniteSet(events)
  /\ \A e \in events : /\ e.id \in 1 .. Cardinality(events)
                       /\ e.date \in 1 .. MaxDate
                       /\ e.status \in Statuses
  /\ \A e, f \in events : e.id = f.id => e = f

\* What has been observed is a log in the sense of ChronologyProofs.
LEMMA HistoryIsLog == HistoryAssumption /\ HistoryInv => EventLog(events)
BY FS_CardinalityType DEF HistoryAssumption, HistoryInv, EventLog

\* The next event gets an id that none has.
LEMMA ObserveEffect ==
  ASSUME HistoryInv, NEW s \in Statuses, NEW d \in 1 .. MaxDate, Observe(s, d)
  PROVE  \E e : /\ events' = events \cup {e} /\ e \notin events
                /\ HistoryInv'
<1> DEFINE n == Cardinality(events)
           e == [id |-> n + 1, date |-> d, status |-> s]
<1>1. n \in Nat
  BY FS_CardinalityType DEF HistoryInv
<1>2. events' = events \cup {e}
  BY DEF Observe
<1>3. e.id = n + 1 /\ e.date = d /\ e.status = s
  OBVIOUS
<1> HIDE DEF e
<1>4. \A f \in events : f.id \in 1 .. n /\ f.id # e.id
  BY <1>1, <1>3 DEF HistoryInv
<1>5. e \notin events
  BY <1>4
<1>6. IsFiniteSet(events') /\ Cardinality(events') = n + 1
  BY <1>2, <1>5, FS_AddElement DEF HistoryInv
<1>7. \A f \in events' : /\ f.id \in 1 .. Cardinality(events')
                         /\ f.date \in 1 .. MaxDate
                         /\ f.status \in Statuses
  <2> HIDE DEF n
  <2> QED  BY <1>1, <1>2, <1>3, <1>4, <1>6 DEF HistoryInv
<1>8. \A f, g \in events' : f.id = g.id => f = g
  BY <1>2, <1>4 DEF HistoryInv
<1> QED  BY <1>2, <1>5, <1>6, <1>7, <1>8 DEF HistoryInv

\* Observed histories are finite and number their events without gaps or
\* repetition, as the insertion order of shipment_events does.
THEOREM HistoriesAreLogs == Spec => []HistoryInv
<1>1. Init => HistoryInv
  BY FS_EmptySet DEF Init, HistoryInv
<1>2. HistoryInv /\ [Next]_events => HistoryInv'
  BY ObserveEffect DEF Next, HistoryInv
<1> QED  BY <1>1, <1>2, PTL DEF Spec

\* The grade accumulated in the loop is the reference's, for every history.
THEOREM SeverityIsExact == Spec => []SeverityMatchesReference
<1>1. HistoryInv => SeverityMatchesReference
  BY HistoryAssumption, HistoryIsLog, GradeIsReference DEF SeverityMatchesReference
<1> QED  BY <1>1, HistoriesAreLogs, PTL

\* And so are the reason codes and their order.
THEOREM CodesAreExact == Spec => []CodesMatchReference
<1>1. ASSUME HistoryInv  PROVE CodesMatchReference
  <2> DEFINE codes == check_chronology(events).codes
             places == {i \in DOMAIN codes : codes[i] = Regression}
  <2>1. /\ codes \in Seq(ReasonCode)
        /\ Cardinality(TerminalPlaces(codes)) =
             Cardinality({e \in events : IsMain(e) /\ AfterDelivery(e, events)})
        /\ \A i, j \in DOMAIN codes :
             codes[i] \in TerminalCodes /\ codes[j] = Regression => j < i
        /\ (\E i \in DOMAIN codes : codes[i] = Regression)
             <=> RegressionBeforeDelivery(events)
    BY <1>1, HistoryAssumption, HistoryIsLog, CodesAreReference
  <2> HIDE DEF codes
  <2>2. IsFiniteSet(places) /\ (Cardinality(places) > 0 <=> places # {})
    <3>1. IsFiniteSet(DOMAIN codes)
      BY <2>1, FS_Interval
    <3>2. IsFiniteSet(places)
      BY <3>1, FS_Subset
    <3> QED  BY <3>2, FS_EmptySet, FS_CardinalityType
  <2>3. TerminalPlaces(codes) = {i \in DOMAIN codes : codes[i] \in TerminalCodes}
    BY DEF TerminalPlaces
  <2>4. places = {i \in DOMAIN codes : codes[i] \in {Regression}}
    OBVIOUS
  <2>5. Cardinality(places) > 0 <=> RegressionBeforeDelivery(events)
    BY <2>1, <2>2
  <2> HIDE DEF places
  <2> QED  BY <2>1, <2>3, <2>4, <2>5
           DEF CodesMatchReference, TerminalCodes, Regression, codes
<1> QED  BY <1>1, HistoriesAreLogs, PTL

\* The status shown is contradicted by nothing newer that outranks it.
THEOREM CurrentIsAuthoritative == Spec => []CurrentStatusIsAuthoritative
<1>1. HistoryInv => CurrentStatusIsAuthoritative
  BY HistoryAssumption, HistoryIsLog, StatusIsAuthoritative
     DEF CurrentStatusIsAuthoritative, Current
<1> QED  BY <1>1, HistoriesAreLogs, PTL

\* No new event, wherever its date falls, improves the grade.
THEOREM GradeNeverImproves == Spec => SeverityNeverImproves
<1>1. ASSUME HistoryInv, HistoryInv', [Next]_events
      PROVE  Grade(events') >= Grade(events)
  <2>1. EventLog(events) /\ EventLog(events')
    BY <1>1, HistoryAssumption, HistoryIsLog DEF HistoryInv, EventLog
  <2>2. events \subseteq events'
    BY <1>1, ObserveEffect DEF Next
  <2>3. /\ check_chronology(events).severity = SeverityOf(events)
        /\ check_chronology(events').severity = SeverityOf(events')
    BY <2>1, GradeIsReference
  <2>4. /\ SeverityOf(events) = "conflict" => SeverityOf(events') = "conflict"
        /\ SeverityOf(events) = "warning" => SeverityOf(events') \in {"warning", "conflict"}
    BY <2>2, GradeOnlyWorsens
  <2>5. \A S : SeverityOf(S) \in Severity
    BY DEF SeverityOf, Severity
  <2> DEFINE was == check_chronology(events).severity
             is == check_chronology(events').severity
  <2>6. /\ was \in Severity /\ is \in Severity
        /\ was = "conflict" => is = "conflict"
        /\ was = "warning" => is \in {"warning", "conflict"}
    BY <2>3, <2>4, <2>5
  <2>7. /\ Grade(events) = CASE was = "ok" -> 0 [] was = "warning" -> 1 [] OTHER -> 2
        /\ Grade(events') = CASE is = "ok" -> 0 [] is = "warning" -> 1 [] OTHER -> 2
    BY DEF Grade
  <2> HIDE DEF was, is
  <2> QED  BY <2>6, <2>7 DEF Severity
<1>2. HistoryInv /\ HistoryInv' /\ [Next]_events
        => [Grade(events') >= Grade(events)]_events
  BY <1>1
<1> QED  BY <1>2, HistoriesAreLogs, PTL DEF Spec, SeverityNeverImproves

\* Old mail that arrives late does not move the status.
THEOREM LateMailIsHarmless == Spec => LateMailDoesNotMoveStatus
<1> DEFINE Unmoved ==
             \A e \in events' \ events :
               /\ events # {}
               /\ NeedsAction(Current) \/ IsMain(Current)
               /\ e.date < Current.date
               /\ ~Delivered(e)
               => Current' = Current
<1>1. ASSUME HistoryInv, HistoryInv', [Next]_events
      PROVE  Unmoved
  <2> SUFFICES ASSUME NEW e \in events' \ events, events # {}, ~Delivered(e),
                      NeedsAction(Current) \/ IsMain(Current), e.date < Current.date
               PROVE  Current' = Current
    OBVIOUS
  <2>1. events' = events \cup {e}
    BY <1>1, ObserveEffect DEF Next
  <2>2. EventLog(events')
    BY <1>1, HistoryAssumption, HistoryIsLog DEF HistoryInv, EventLog
  <2>3. select_current_status(events \cup {e}) = select_current_status(events)
    BY <2>1, <2>2, LateMailLeavesStatus DEF Current
  <2> QED  BY <2>1, <2>3 DEF Current
<1>2. HistoryInv /\ HistoryInv' /\ [Next]_events => [Unmoved]_events
  BY <1>1
<1> QED  BY <1>2, HistoriesAreLogs, PTL DEF Spec, LateMailDoesNotMoveStatus

=============================================================================
