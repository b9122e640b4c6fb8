------------------------------- MODULE Parsli -------------------------------
(***************************************************************************)
(* The components together, for one mailbox: preferences choose what an    *)
(* initial sync fetches, an incremental sync takes whatever the history    *)
(* names, each stored mail goes through rules, model and reconciler into   *)
(* the extraction table and through the resolution into a timeline, and    *)
(* the dashboard shows the outcome.  The user edits preferences and        *)
(* deletes parcels meanwhile, and a release reads all mail again.          *)
(*                                                                         *)
(* A sync is cut at its calls to Gmail, as in MailSync; the tables of one  *)
(* mail are written in one transaction.  Which mail the history names and  *)
(* how batches fail is MailSync's subject: here any stored mail that is    *)
(* not processed yet may be next.                                          *)
(***************************************************************************)
EXTENDS Dashboard, Preferences

CONSTANTS
  Own,              \* the mailbox's address
  Edits,            \* entries the user may add: domain or address, and list
  SenderName,       \* the display name each mail comes with
  Text,             \* what the patterns of each version find in each mail
  RequiredAnswers,  \* the model's answers to the full prompt
  AuditAnswers,     \* and to the audit prompt
  MaxSyncs          \* bound: number of syncs

Rec == INSTANCE Reconciler WITH Identifiers <- Trackings \cup Orders

ASSUME ParsliAssumption ==
  /\ None \notin ShipmentStatus \cup EmailType
  /\ Mails = Emails
  /\ Own \in Addresses
  /\ Edits \subseteq (Domains \X {"allow", "block"}) \cup (Addresses \X {"exclude_sender"})
  /\ SenderName \in [Emails -> Sender]
  /\ Text \in [1 .. MaxVersion -> [Emails -> Rec!Mail]]
  /\ RequiredAnswers \subseteq Rec!ModelResult
  /\ AuditAnswers \subseteq Rec!ModelAudit

VARIABLES
  table,      \* domain_preferences: domain or address -> list
  sync,       \* what the sync in flight does, the preferences it has read, and the
              \* address the profile call named
  syncs,      \* number of syncs begun
  trust,      \* email_messages: mail -> sender_trust_level
  batch,      \* unprocessed ids another sync has read and not come to
  version,    \* processing_version of the running release
  dismissed   \* history: mails of parcels the user deleted

resolution == <<aliases, events, senderOf, rows, lastId>>
readings   == <<extractions, processed, versionOf>>
fetching   == <<table, sync, syncs, trust>>
parsliVars == <<resolution, readings, fetching, batch, version, dismissed>>

Syncing(phase, prefs, account_email) ==
  [phase |-> phase, prefs |-> prefs, account_email |-> account_email]

NoSync == Syncing("idle", DomainPreferences(EmptyTable), None)

ParsliInit ==
  /\ Init
  /\ extractions = EmptyTable
  /\ processed = EmptyTable
  /\ versionOf = [i \in 1 .. MaxId |-> 0]
  /\ table = EmptyTable
  /\ sync = NoSync
  /\ syncs = 0
  /\ trust = EmptyTable
  /\ batch = {}
  /\ version = 1
  /\ dismissed = {}

-----------------------------------------------------------------------------
(* Preferences and fetching: initial_sync and incremental_sync *)

EditPreferences ==
  /\ sync # NoSync \/ syncs < MaxSyncs
  /\ \/ \E e \in Edits : table' = Upsert(table, e[1], e[2])
     \/ \E k \in DOMAIN table : table' = RemoveRow(table, k)
  /\ UNCHANGED <<resolution, readings, sync, syncs, trust, batch, version, dismissed>>

\* An initial sync reads them before it asks for the profile, an incremental one
\* after the history has answered.
ReadPreferences ==
  /\ sync.phase = "idle"
  /\ syncs < MaxSyncs
  /\ syncs' = syncs + 1
  /\ \E p \in {"profiling", "ingesting"} :
       sync' = Syncing(p, DomainPreferences(table), None)
  /\ UNCHANGED <<resolution, readings, table, trust, batch, version, dismissed>>

\* Faulty variant: the preferences are not read again after the insert.
ExcludeOwnLater ==
  /\ sync.phase = "profiling"
  /\ sync' = Syncing("fetching", sync.prefs, Own)
  /\ table' = Upsert(table, Own, "exclude_sender")
  /\ UNCHANGED <<resolution, readings, syncs, trust, batch, version, dismissed>>

\* The profile answers, and the mailbox's own address joins the excluded senders; or
\* get_account_email swallows an exception, and the fetch goes on without it.
ExcludeOwnAddress ==
  /\ sync.phase = "profiling"
  /\ \/ /\ sync' = Syncing("fetching", sync.prefs, None)
        /\ UNCHANGED table
     \/ /\ Own \in sync.prefs.exclude_senders
        /\ sync' = Syncing("fetching", sync.prefs, Own)
        /\ UNCHANGED table
     \/ /\ Own \notin sync.prefs.exclude_senders
        /\ table' = Upsert(table, Own, "exclude_sender")
        /\ sync' = Syncing("fetching", DomainPreferences(table'), Own)
  /\ UNCHANGED <<resolution, readings, syncs, trust, batch, version, dismissed>>

\* Faulty variant: a mail met again is scored again.
IngestAgain(M) ==
  [m \in DOMAIN trust \cup M |->
     IF m \in M THEN score(FromDomain[m], sync.prefs.blocklist) ELSE trust[m]]

\* _ingest_one: a mail already stored is only touched.
Ingest(M) ==
  [m \in DOMAIN trust \cup M |->
     IF m \in DOMAIN trust THEN trust[m]
     ELSE score(FromDomain[m], sync.prefs.blocklist)]

FetchCandidates ==
  /\ sync.phase = "fetching"
  /\ trust' = Ingest(Candidates(sync.prefs))
  /\ sync' = NoSync
  /\ UNCHANGED <<resolution, readings, table, syncs, batch, version, dismissed>>

\* The history names messages, whoever sent them and whatever they say.
IngestHistory ==
  /\ sync.phase = "ingesting"
  /\ \E M \in SUBSET Mails : trust' = Ingest(M)
  /\ sync' = NoSync
  /\ UNCHANGED <<resolution, readings, table, syncs, batch, version, dismissed>>

-----------------------------------------------------------------------------
(* process_new_emails and resolve_and_insert *)

Unprocessed == {m \in DOMAIN trust : <<m, version>> \notin DOMAIN processed}

\* A second sync reads its ids before this one commits.
ReadBatch ==
  /\ batch = {}
  /\ batch' = Unprocessed
  /\ UNCHANGED <<resolution, readings, fetching, version, dismissed>>

\* What the pipeline may make of a mail: no answer leaves the rules alone.
Outcomes(m, v, blocked) ==
  LET rules == Rec!extract(Text[v][m])
      mode  == Rec!select_mode(rules, Text[v][m].shaped, blocked, TRUE)
      answers ==
        CASE mode = "skip_model"     -> {}
          [] mode = "model_audit"    -> {Rec!AuditToClassification(a, rules) :
                                           a \in AuditAnswers}
          [] mode = "model_required" -> RequiredAnswers
  IN  {Rec!reconcile(rules, model, Text[v][m].shaped) : model \in {None} \cup answers}

\* The same, computed once.
OutcomeTable ==
  [m \in Emails |-> [v \in 1 .. MaxVersion |-> [b \in BOOLEAN |-> Outcomes(m, v, b)]]]

Resolved(m, final) ==
  [ email |-> m, relevant |-> final.relevant, type |-> final.type,
    status |-> final.status, confidence |-> final.confidence,
    tracking |-> final.tracking, order |-> final.order,
    merchant |-> final.merchant ]

\* Extractions holds what the pipeline may hand over.
ASSUME ExtractionsAssumption ==
  \A m \in Emails, v \in 1 .. MaxVersion, b \in BOOLEAN :
    \A final \in Outcomes(m, v, b) : Resolved(m, final) \in Extractions

\* _persist: one row in each table, replaced when the mail is read again.
Persist(m, final) ==
  /\ extractions' = Put(extractions, <<m, version>>, final)
  /\ processed' = Put(processed, <<m, version>>, final.relevant)

\* resolve_and_insert with its early returns.
Resolve(x, sender) ==
  \/ ResolveAndInsert(x, sender)
  \/ /\ \/ ~CreatesShipmentData(x)
        \/ x.order = None /\ (x.tracking = None \/ x.type = "order_confirmation")
     /\ UNCHANGED resolution

ProcessMail(m) ==
  /\ m \in Unprocessed \cup batch
  /\ \E final \in OutcomeTable[m][version][trust[m] = "blocked"] :
       /\ Persist(m, final)
       /\ Resolve(Resolved(m, final), SenderName[m])
       /\ versionOf' = IF lastId' = lastId THEN versionOf
                       ELSE [versionOf EXCEPT ![lastId'] = version]
  /\ batch' = batch \ {m}
  /\ UNCHANGED <<fetching, version, dismissed>>

-----------------------------------------------------------------------------
(* The user deletes a parcel; a new release starts with nothing in flight. *)

Delete(c) ==
  /\ c \in DOMAIN rows
  /\ DeleteShipment(c)
  /\ dismissed' = dismissed \cup {e.email : e \in EventsOf(c, events)}
  /\ UNCHANGED <<readings, fetching, batch, version>>

Upgrade ==
  /\ version < MaxVersion
  /\ version' = version + 1
  /\ sync' = NoSync
  /\ batch' = {}
  /\ UNCHANGED <<resolution, readings, table, syncs, trust, dismissed>>

ParsliNext ==
  \/ EditPreferences \/ ReadPreferences \/ ExcludeOwnAddress
  \/ FetchCandidates \/ IngestHistory
  \/ ReadBatch \/ \E m \in Emails : ProcessMail(m)
  \/ \E c \in Canonical : Delete(c)
  \/ Upgrade

ParsliSpec == ParsliInit /\ [][ParsliNext]_parsliVars

-----------------------------------------------------------------------------
(* Properties *)

\* The readings in which the rules alone see the delivery of an identified parcel.
DeliveriesByRules ==
  { r \in Reading :
      LET rules == Rec!extract(Text[r[2]][r[1]])
      IN  /\ rules.status = "delivered" /\ ~rules.invoice
          /\ rules.tracking # {} \/ rules.orders # {} }

\* A mail the rules read as the delivery of an identified parcel, whatever the model
\* answers and whatever was processed before and after it, ends as a parcel the
\* dashboard shows delivered, until the user deletes it.
DeliveryIsShown ==
  \A r \in DOMAIN extractions :
    r \in DeliveriesByRules =>
      \/ r[1] \in dismissed
      \/ \E e \in events : /\ e.email = r[1]
                           /\ SummaryRow(e.canonical).status = "delivered"

\* The dashboard never hides what the timeline shows: a parcel with an event whose
\* extraction needs review is listed as needing review, whichever versions read its
\* mail, and its count includes it.
ReviewIsNotHidden ==
  (\E e \in events : EventNeedsReview(e)) =>
    /\ \A e \in events : EventNeedsReview(e) => SummaryRow(e.canonical).needs_review
    /\ DashboardProjection.needs_review_count > 0

\* A mail on record as blocked was decided by the rules alone, however often and in
\* whatever order it was fetched, blocked, unblocked and processed.
BlockedDecidedByRules ==
  \A r \in DOMAIN extractions :
    trust[r[1]] = "blocked" => extractions[r].method = "rules_only"

\* What an initial sync adds comes from no domain on the blocklist it read, and not
\* from the address its profile call named, whichever query found it and whatever the
\* user did to the preferences meanwhile.
ExclusionsHold ==
  [][ sync.phase = "fetching" =>
        \A m \in DOMAIN trust' \ DOMAIN trust :
          /\ ~CoveredBy(FromDomain[m], sync.prefs.blocklist)
          /\ From[m] # Own \/ sync.account_email = None ]_parsliVars

\* "self-sent messages are never returned by Gmail queries" (sync_service.py:83-84).
SelfSentNeverReturned ==
  sync.phase = "fetching" => \A m \in Candidates(sync.prefs) : From[m] # Own

\* To the three tables of the resolution, all of this is calls of the resolution:
\* whatever syncs, releases and edits do, what holds of ShipmentResolution for the
\* extractions of this pipeline holds here.
ImplementsResolution == Spec

\* Counting mail does not depend on how many releases have read it.
IgnoredIsACount == TotalIgnored >= 0

=============================================================================
