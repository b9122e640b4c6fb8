---------------------------- MODULE MCChronology ----------------------------
(***************************************************************************)
(* Checks the chronology algorithms over every history of at most          *)
(* MaxEvents events: a history grows one event at a time, in insertion     *)
(* order, the dates in any order, as mail is processed.                    *)
(***************************************************************************)
EXTENDS Chronology, FiniteSets

CONSTANTS
  Statuses,   \* the statuses that occur in this instance
  MaxDate,    \* events are dated 1 .. MaxDate
  MaxEvents   \* bound on the length of a history

ASSUME HistoryAssumption == Statuses \subseteq ShipmentStatus /\ MaxDate \in Nat

VARIABLE events

Init == events = {}

Observe(s, d) ==
  /\ Cardinality(events) < MaxEvents
  /\ events' = events \cup
                 {[id |-> Cardinality(events) + 1, date |-> d, status |-> s]}

Next == \E s \in Statuses, d \in 1 .. MaxDate : Observe(s, d)

Spec == Init /\ [][Next]_events

-----------------------------------------------------------------------------
(* Properties *)

\* The grade check_chronology accumulates in its loop is exactly: conflict iff
\* some main event follows a delivered event, else warning iff some event before
\* delivery falls two or more ranks below an earlier one, else ok.
SeverityMatchesReference == check_chronology(events).severity = SeverityOf(events)

\* Each conflict or regression the loop meets leaves one reason code, in date
\* order, and a regression is never reported once delivery was seen: the first
\* code, the one the dashboard shows, is a regression only when the earliest
\* problem lies before delivery.
CodesMatchReference ==
  LET codes == check_chronology(events).codes
      terminalCodes == ReasonCode \ {"status_date_regression"}
      count(C) == Cardinality({i \in DOMAIN codes : codes[i] \in C})
  IN  /\ count(terminalCodes) =
           Cardinality({e \in events : IsMain(e) /\ AfterDelivery(e, events)})
      /\ \A i, j \in DOMAIN codes :
           /\ codes[i] \in terminalCodes
           /\ codes[j] = "status_date_regression"
           => j < i
      /\ count({"status_date_regression"}) > 0 <=> RegressionBeforeDelivery(events)

Grade(S) == CASE check_chronology(S).severity = "ok"      -> 0
              [] check_chronology(S).severity = "warning" -> 1
              [] OTHER                                    -> 2

\* A late or misdated mail can only make a parcel's history look worse: no new
\* event, wherever its date falls, turns a conflict or a warning back into a
\* better grade.
SeverityNeverImproves == [][Grade(events') >= Grade(events)]_events

-----------------------------------------------------------------------------

Current == select_current_status(events)

\* The status shown is never contradicted by newer mail that outranks it:
\* delivered wins whatever its date; otherwise no action or main event is dated
\* after the one shown, and an action event of the same date is preferred; and
\* unknown or delayed is shown only when nothing better exists.
CurrentStatusIsAuthoritative ==
  events # {} =>
    /\ (\E e \in events : Delivered(e)) => Delivered(Current)
    /\ ~Delivered(Current) =>
         \A e \in events : NeedsAction(e) \/ IsMain(e) =>
           /\ NeedsAction(Current) \/ IsMain(Current)
           /\ e.date <= Current.date
           /\ e.date = Current.date /\ NeedsAction(e) => NeedsAction(Current)
    /\ Current.status = "unknown" => \A e \in events : e.status = "unknown"

\* Old mail that arrives late does not move the status: inserting an event dated
\* strictly before the one shown leaves it shown, unless the late mail reports the
\* delivery or only an uninformative status was shown.
LateMailDoesNotMoveStatus ==
  [][ \A e \in events' \ events :
        /\ events # {}
        /\ NeedsAction(Current) \/ IsMain(Current)
        /\ e.date < Current.date
        /\ ~Delivered(e)
        => Current' = Current ]_events

=============================================================================
