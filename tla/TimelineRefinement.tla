------------------------- MODULE TimelineRefinement -------------------------
(***************************************************************************)
(* ShipmentResolution implements ParcelTimelines: a parcel is a canonical  *)
(* id that has events, its history are those events, and what is shown of  *)
(* it is what its row says.  Replays, rebuilds and the deletion of unknown *)
(* ids are stuttering steps.                                               *)
(***************************************************************************)
EXTENDS ShipmentResolution

History == [c \in {e.canonical : e \in events} |-> EventsOf(c, events)]

ShownRows ==
  [c \in DOMAIN rows |->
     [ status  |-> rows[c].timeline.currentStatus,
       since   |-> rows[c].timeline.currentDate,
       reports |-> rows[c].timeline.eventCount ]]

Abstract ==
  INSTANCE ParcelTimelines WITH
    Parcels <- Canonical, history <- History, shown <- ShownRows

\* Whatever is processed, replayed, deleted and rebuilt, in any order: each call
\* adds at most one report to one parcel, or removes one parcel with everything
\* about it, and the list shows of every parcel what its own history says.
ImplementsTimelines == Abstract!Spec

=============================================================================
