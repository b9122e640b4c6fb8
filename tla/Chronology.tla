----------------------------- MODULE Chronology -----------------------------
(***************************************************************************)
(* domain/chronology.py: the two pure algorithms run over the events of    *)
(* one shipment whenever its row is rebuilt.  check_chronology walks the   *)
(* events in date order and grades impossible sequences;                   *)
(* select_current_status picks the event whose status the parcel shows.    *)
(*                                                                         *)
(* An event is a record with at least id, date and status.  The id is the  *)
(* insertion order: the repository lists events by date, rows of equal     *)
(* date come in insertion order, and both algorithms sort stably.          *)
(***************************************************************************)
EXTENDS Integers, Statuses, Folds

\* The order in which check_chronology meets the events.
Before(e, f) == e.date < f.date \/ (e.date = f.date /\ e.id < f.id)

IsMain(e) == e.status \notin SIDE_STATUSES
IsTerminal(e) == e.status \in TERMINAL_STATUSES
NeedsAction(e) == e.status \in {"action_required", "payment_required"}

-----------------------------------------------------------------------------
(* check_chronology *)

Severity == {"ok", "warning", "conflict"}

ReasonCode ==
  { "duplicate_terminal_status", "terminal_status_followed_by_non_terminal",
    "status_date_regression" }

\* Faulty variants of the step, for the sensitivity of the checks.  One rank
\* lower counts as a regression:
StepStrictRegression(acc, e) ==
  LET rank == status_rank(e.status)
  IN  CASE acc.delivered ->
             [acc EXCEPT !.codes = Append(@, "duplicate_terminal_status"),
                         !.severity = "conflict"]
        [] ~acc.delivered /\ IsTerminal(e) -> [acc EXCEPT !.delivered = TRUE]
        [] ~acc.delivered /\ ~IsTerminal(e) /\ rank < acc.highest ->
             [acc EXCEPT !.codes = Append(@, "status_date_regression"),
                         !.severity = "warning"]
        [] OTHER -> [acc EXCEPT !.highest = IF rank > @ THEN rank ELSE @]

\* A second delivery passes unnoticed:
StepIgnoresDuplicate(acc, e) ==
  LET rank == status_rank(e.status)
  IN  CASE acc.delivered /\ IsTerminal(e) -> acc
        [] acc.delivered /\ ~IsTerminal(e) ->
             [acc EXCEPT
                !.codes = Append(@, "terminal_status_followed_by_non_terminal"),
                !.severity = "conflict"]
        [] ~acc.delivered /\ IsTerminal(e) -> [acc EXCEPT !.delivered = TRUE]
        [] ~acc.delivered /\ ~IsTerminal(e) /\ rank < acc.highest - 1 ->
             [acc EXCEPT !.codes = Append(@, "status_date_regression"),
                         !.severity = "warning"]
        [] OTHER -> [acc EXCEPT !.highest = IF rank > @ THEN rank ELSE @]

\* The regression test comes first and sets the severity outright:
StepRegressionFirst(acc, e) ==
  LET rank == status_rank(e.status)
  IN  CASE ~IsTerminal(e) /\ rank < acc.highest - 1 ->
             [acc EXCEPT !.codes = Append(@, "status_date_regression"),
                         !.severity = "warning"]
        [] IsTerminal(e) /\ acc.delivered ->
             [acc EXCEPT !.codes = Append(@, "duplicate_terminal_status"),
                         !.severity = "conflict"]
        [] IsTerminal(e) /\ ~acc.delivered -> [acc EXCEPT !.delivered = TRUE]
        [] OTHER -> [acc EXCEPT !.highest = IF rank > @ THEN rank ELSE @]

\* One iteration of the loop over the main events.
ChronologyStep(acc, e) ==
  LET rank == status_rank(e.status)
      note(code, severity) ==
        [acc EXCEPT !.codes = Append(@, code), !.severity = severity]
      regressed ==
        note("status_date_regression",
             IF acc.severity = "ok" THEN "warning" ELSE acc.severity)
  IN  CASE acc.delivered /\ IsTerminal(e) ->
             note("duplicate_terminal_status", "conflict")
        [] acc.delivered /\ ~IsTerminal(e) ->
             note("terminal_status_followed_by_non_terminal", "conflict")
        [] ~acc.delivered /\ IsTerminal(e) -> [acc EXCEPT !.delivered = TRUE]
        [] ~acc.delivered /\ ~IsTerminal(e) /\ rank < acc.highest - 1 ->
             regressed
        [] OTHER ->
             [acc EXCEPT !.highest = IF rank > @ THEN rank ELSE @]

\* The event met last.
LastOf(T) == CHOOSE e \in T : \A f \in T : f = e \/ Before(f, e)

WalkStart ==
  [severity |-> "ok", codes |-> << >>, delivered |-> FALSE, highest |-> -1]

\* The loop over main events in Before order: what it knows after the last of them
\* is a step from what it knew after the others.
Walk(S) ==
  MapThenFoldSet(LAMBDA e, acc : ChronologyStep(acc, e), WalkStart,
                 LAMBDA e : e, LastOf, S)

check_chronology(S) ==
  LET final == Walk({e \in S : IsMain(e)})
  IN  [severity |-> final.severity, codes |-> final.codes]

-----------------------------------------------------------------------------
(* select_current_status, for a non-empty set of events *)

\* Faulty variant: the last event inserted stands for the latest.
LastInserted(S) == CHOOSE e \in S : \A f \in S : f.id <= e.id

\* The head of the stable sort by descending date: the latest date, and the
\* first inserted of the events that share it.
Latest(S) ==
  CHOOSE e \in S :
    \A f \in S : f.date < e.date \/ (f.date = e.date /\ e.id <= f.id)

\* Faulty variants: the delivery does not win over later mail,
CurrentWithoutDelivered(S) ==
  LET main == {e \in S : IsMain(e)}
  IN  IF main # {} THEN Latest(main) ELSE Latest(S)

\* and a main event of the same date hides a request for action.
CurrentActionLosesTies(S) ==
  LET delivered == {e \in S : IsTerminal(e)}
      action    == {e \in S : NeedsAction(e)}
      main      == {e \in S : IsMain(e)}
  IN  CASE delivered # {} -> Latest(delivered)
        [] delivered = {} /\ action # {} /\ main # {} ->
             IF Latest(action).date > Latest(main).date
             THEN Latest(action) ELSE Latest(main)
        [] delivered = {} /\ action = {} /\ main # {} -> Latest(main)
        [] OTHER -> Latest(S)

select_current_status(S) ==
  LET delivered == {e \in S : IsTerminal(e)}
      action    == {e \in S : NeedsAction(e)}
      main      == {e \in S : IsMain(e)}
      known     == {e \in S : e.status # "unknown"}
  IN  CASE delivered # {} -> Latest(delivered)
        [] delivered = {} /\ action # {} /\ main # {} ->
             IF Latest(action).date >= Latest(main).date
             THEN Latest(action) ELSE Latest(main)
        [] delivered = {} /\ action # {} /\ main = {} -> Latest(action)
        [] delivered = {} /\ action = {} /\ main # {} -> Latest(main)
        [] action = {} /\ main = {} /\ known # {} -> Latest(known)
        [] OTHER -> Latest(S)

-----------------------------------------------------------------------------
(* What check_chronology promises, stated without the loop *)

Delivered(e) == e.status = "delivered"

AfterDelivery(e, S) == \E d \in S : Delivered(d) /\ Before(d, e)

MainEventAfterDelivery(S) == \E e \in S : IsMain(e) /\ AfterDelivery(e, S)

RegressionBeforeDelivery(S) ==
  \E f, e \in S :
    /\ IsMain(f) /\ IsMain(e) /\ ~Delivered(e) /\ Before(f, e)
    /\ status_rank(e.status) < status_rank(f.status) - 1
    /\ ~AfterDelivery(e, S)

SeverityOf(S) ==
  CASE MainEventAfterDelivery(S) -> "conflict"
    [] ~MainEventAfterDelivery(S) /\ RegressionBeforeDelivery(S) -> "warning"
    [] OTHER -> "ok"

=============================================================================
