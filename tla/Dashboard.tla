----------------------------- MODULE Dashboard -----------------------------
(***************************************************************************)
(* services/dashboard_projection_service.py and the counters of            *)
(* api/routes_dev.py: what the screens show, computed at every request     *)
(* from the resolution's tables and the two tables the pipeline fills,     *)
(* processed_emails and email_extractions, one row per mail and processing *)
(* version.                                                                *)
(***************************************************************************)
EXTENDS ShipmentResolution

CONSTANT MaxVersion  \* bound: processing versions ever deployed

ASSUME DashboardAssumption == MaxVersion \in Nat \ {0}

Reading == Emails \X (1 .. MaxVersion)

VARIABLES
  extractions,  \* email_extractions: reading -> FinalClassificationResult
  processed,    \* processed_emails: reading -> its is_relevant
  versionOf     \* the processing_version column of shipment_events, by row id

\* _to_event_projection: the extraction of the version the event was made by.
EventNeedsReview(e) ==
  LET reading == <<e.email, versionOf[e.id]>>
  IN  reading \in DOMAIN extractions /\ extractions[reading].review

\* Faulty variant: the readings of the newest version only.
CanonicalsOfLastVersion ==
  {e.canonical : e \in
     {f \in events : LET reading == <<f.email, Max({r[2] : r \in DOMAIN extractions})>>
                     IN  reading \in DOMAIN extractions /\ extractions[reading].review}}

\* _load_needs_review_canonicals: the join is on the mail, whatever the version.
NeedsReviewCanonicals ==
  {e.canonical : e \in
     {f \in events : \E r \in DOMAIN extractions :
                       r[1] = f.email /\ extractions[r].review}}

\* _load_sender_info: the store's confirmation wins over earlier carrier mail.
SenderInfo(c) ==
  LET S         == EventsOf(c, events)
      confirmed == {e \in S : e.status = "order_confirmed"}
  IN  IF S = {} THEN None
      ELSE senderOf[Earliest(IF confirmed = {} THEN S ELSE confirmed).id]

\* _resolve_display_merchant, without the sender domain as the last resort.
DisplayMerchant(c) ==
  IF rows[c].timeline.merchant # None THEN rows[c].timeline.merchant
  ELSE SenderInfo(c)

ShipmentKind(c) ==
  IF rows[c].timeline.primaryTracking # None THEN "tracked" ELSE "order_only"

\* _to_summary and get_shipment_detail
SummaryRow(c) ==
  [ merchant     |-> DisplayMerchant(c),
    tracking     |-> rows[c].timeline.primaryTracking,
    order        |-> rows[c].timeline.primaryOrder,
    status       |-> rows[c].timeline.currentStatus,
    kind         |-> ShipmentKind(c),
    needs_review |-> \/ rows[c].timeline.severity # "ok"
                     \/ c \in NeedsReviewCanonicals ]

\* get_dashboard_projection
DashboardProjection ==
  LET shown(P(_)) == Cardinality({c \in DOMAIN rows : P(SummaryRow(c))})
      delivered(r) == r.status \in TERMINAL_STATUSES
      orderOnly(r) == r.kind = "order_only"
      review(r)    == r.needs_review
      any(r)       == TRUE
  IN  [ total_count        |-> shown(any),
        active_count       |-> shown(any) - shown(delivered),
        delivered_count    |-> shown(delivered),
        order_only_count   |-> shown(orderOnly),
        needs_review_count |-> shown(review) ]

\* GET /dev/observability: distinct mails against rows of every version.
TotalProcessed == Cardinality({r[1] : r \in DOMAIN processed})
TotalRelevant  == Cardinality({r \in DOMAIN processed : processed[r]})
TotalIgnored   == TotalProcessed - TotalRelevant

=============================================================================
