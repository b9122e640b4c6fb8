-------------------------- MODULE ParcelTimelines --------------------------
(***************************************************************************)
(* What the resolution promises its user, without aliases, row ids handed  *)
(* out, rebuilds or replays: parcels have histories; a step adds one       *)
(* report to the history of one parcel, new or known, or dismisses one     *)
(* parcel with all it has; and every parcel is shown with the status its   *)
(* own history amounts to.                                                 *)
(***************************************************************************)
EXTENDS Chronology, FiniteSets

CONSTANT Parcels

VARIABLES
  history,  \* parcel -> the reports on file about it
  shown     \* parcel -> what the list of parcels says of it

Report(e) == <<e.email, e.date, e.status, e.tracking, e.order>>

Shown(S) ==
  [ status  |-> select_current_status(S).status,
    since   |-> select_current_status(S).date,
    reports |-> Cardinality(S) ]

OnFile == UNION {history[p] : p \in DOMAIN history}

Filed(p, e) ==
  [q \in DOMAIN history \cup {p} |->
     (IF q \in DOMAIN history THEN history[q] ELSE {})
       \cup (IF q = p THEN {e} ELSE {})]

Init ==
  /\ history = [p \in {} |-> {}]
  /\ shown = [p \in {} |-> {}]

\* e is whatever report the step adds: later than all on file, and none of them
\* again.
File(p) ==
  /\ p \in DOMAIN history'
  /\ \E e \in history'[p] :
       /\ \A f \in OnFile : f.id < e.id /\ Report(f) # Report(e)
       /\ history' = Filed(p, e)
  /\ shown' = [q \in DOMAIN history' |->
                 IF q = p THEN Shown(history'[p]) ELSE shown[q]]

Dismiss(p) ==
  /\ p \in DOMAIN history
  /\ history' = [q \in DOMAIN history \ {p} |-> history[q]]
  /\ shown' = [q \in DOMAIN history \ {p} |-> shown[q]]

Next == \E p \in Parcels : File(p) \/ Dismiss(p)

Spec == Init /\ [][Next]_<<history, shown>>

=============================================================================
