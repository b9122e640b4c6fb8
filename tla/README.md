# Parsli in TLA+

Parsli reads the mail of one or more Gmail accounts, recognises the messages that
are about parcels (rules first, a local language model second), and keeps a
timeline per shipment that a small dashboard shows.  It is a Python back end
(`src/backend/src/parsli/`, FastAPI over SQLite) and a React front end
(`src/frontend/`).  Paths below are relative to the back-end package unless they
start with `src/`.

This directory holds a formal model of Parsli: the accounts and their tokens, the
preferences and the synchronisation of mail, the reading of a mail by rules and
model, the resolution of mail into shipments, the algorithms that decide what a
shipment shows, the dashboard, and all of these together.  The models are checked
with TLC on small instances, and the central safety results, up to one that spans
the whole chain, are proved with TLAPS for every instance.

## 1. Inventory

| Component | State it keeps | Operations | What makes it correct |
|---|---|---|---|
| Statuses, chronology (`domain/statuses.py`, `domain/chronology.py`) | none | `check_chronology`, `select_current_status` | the grade and the status shown depend on the history alone, not on how the loop runs; late mail does not disturb them |
| Shipment resolution (`services/shipment_resolution_service.py`, `domain/merge.py`) | `shipment_aliases`, `shipment_events`, `shipments` | `resolve_and_insert`, `rebuild_all` | every event in a listed shipment, findable by its identifiers; rows agree with events; parcels are not mixed |
| Shipment deletion (`api/routes_dashboard.py`) | the same tables | `DELETE /shipments/{id}` | nothing of the shipment stays |
| Command line rebuild (`cli.py`) | the same tables | `parsli rebuild` | rows repaired, none damaged |
| Mail synchronisation (`services/sync_service.py`, `services/email_processing_service.py`) | `gmail_sync_state`, `email_messages`, `processed_emails` | `initial_sync`, `incremental_sync`, the processing phase of both | no mail skipped, none processed again without end, all of it eventually |
| Gmail client, fetcher, ingestor (`gmail/`) | none (Gmail's own) | list, history, fetch, profile | what a call that fails or answers partly means to its caller |
| OAuth tokens (`gmail/auth.py`, its callers in `api/routes_sync.py` and `cli.py`) | token files, pending flows per process | start, complete, refresh, remove | a removed token stays removed; tokens of two mailboxes are not mixed up |
| Domain preferences, queries, sender trust (`services/domain_preference_service.py`, `gmail/query_builder.py`, `gmail/sender_trust.py`) | `domain_preferences`, the trust column of `email_messages` | add and remove on three lists, build queries, score | what is excluded is not fetched; mail stored as blocked never reaches the model |
| Extraction pipeline (`processing/`, `domain/identifiers.py`) | `email_extractions`, `processed_emails` | clean, rules, model, reconcile, persist | type, status, identifiers and relevance of the result fit together; the model does not overrule the rules unnoticed |
| Model clients (`model/`) | an HTTP client | `extract` | unreachable is told apart from a bad answer |
| Dashboard projection (`services/dashboard*.py`) | none | read-only | what needs review is not hidden, what was delivered is shown |
| Observability (`services/candidate_observability_service.py`, `api/routes_dev.py`) | query runs, candidate matches | written once per initial sync | counts |
| Languages, privacy, configuration | static | load, hash, redact | pure |
| Front end (`src/frontend/`) | view state, ids being synced | Sync, Remove, Delete, display | starts the right kind of sync |

### How the parts interact

`routes_sync.py` starts a sync in a thread of the server's pool.  The sync calls
Gmail, stores the new messages and the mailbox's history id in one transaction,
and in a second one takes up to 100 unprocessed messages (of any account), fetches
each again, runs the pipeline on it, and hands the extraction to the resolution
service, which updates aliases, events and the shipment row.  The front end keeps
a *set* of accounts being synced, so two accounts may sync at once; the command
line (`parsli sync`, `parsli rebuild`) runs in a process of its own against the
same database file.  The dashboard deletes shipments while all of this runs.

### What is hard

*Interleaving.*  SQLite has one writer.  With the driver's default transactions a
session takes the write lock at its first INSERT, UPDATE or DELETE and holds it to
the commit; SELECTs before that stand on their own.  Three pieces of code read first and write later: the selection of
unprocessed mail, the incremental sync's read of its history id, and `parsli
rebuild`.  A writer that waits longer than the busy timeout gets an exception and
its transaction is rolled back.

*Ordering.*  Gmail is queried by keyword and by history; the batches have no ORDER
BY.  Confirmation, shipping and delivery mail of one parcel may be processed in any
order, and dates do not follow the order of processing.

*Failure.*  Any Gmail call may raise (some exceptions are swallowed and look like
an empty answer), the model server may be down (HTTP 503, the transaction is
rolled back), the process may stop between the two transactions.

*Repetition.*  An initial sync may be run again, mail may be processed twice or
again under another processing version, and a language model need not read a mail
the same way twice.

PROJECT.json lists each of these at its line, with the properties that cover it.

## 2. The modules

| Module | Models | Extends |
|---|---|---|
| `Statuses` | `domain/statuses.py`, `EmailType` | |
| `Chronology` | `domain/chronology.py` as a fold and as choices of latest events | `Statuses` |
| `ShipmentResolution` | the resolution service over its three tables, deletion, rebuild at rest | `Chronology` |
| `RebuildRace` | `parsli rebuild` one statement at a time beside the server | `ShipmentResolution` |
| `MailSync` | both syncs between mailbox and database | |
| `ParcelTimelines` | what the resolution promises: histories of parcels, one report at a time | `Chronology` |
| `TimelineRefinement` | the mapping from the three tables to `ParcelTimelines` | `ShipmentResolution` |
| `Accounts` | token files, flows, consents, refreshes of the server and the command line | |
| `Classification` | `rule_engine.py`, `identifiers.py`, mode selection and audit answers of `model_classifier.py` | `Statuses` |
| `Reconciler` | `reconciler.py` | `Classification` |
| `Pipeline` | one mail through `pipeline.py` and `extraction_orchestrator.py` | `Reconciler` |
| `Preferences` | the preference table, the queries, their candidates, the trust score | |
| `Dashboard` | the projection and the developer page's counters over the tables | `ShipmentResolution` |
| `Parsli` | the components above (all but `MailSync` and `Accounts`) as one system for one mailbox | `Dashboard`, `Preferences`; an instance of `Reconciler` |
| `ChronologyProofs`, `MCChronologyProofs` | theorems: the two algorithms on any set of events; the same along growing histories | `Chronology`; `MCChronology` |
| `ShipmentResolutionProofs` | theorems about the resolution, the refinement included | `TimelineRefinement`, `ChronologyProofs` |
| `RebuildRaceProofs`, `MailSyncProofs`, `AccountsProofs`, `PipelineProofs`, `ParsliProofs` | theorems and proofs | the module they are named after |
| `MC...` | small instances | the module they are named after |

Each module also defines a few operators marked "faulty variant": the forms a
plausible slip would give an operation.  Nothing refers to them; PROJECT.json pairs
each property with the variant that violates it, which shows that the property
depends on the code.

### Chronology

`check_chronology` is a fold of `ChronologyStep`, one branch per branch of the
Python loop.  The repository lists events by date and Python sorts stably, so
events of the same date come in insertion order (`Before`), and the descending sort
of `select_current_status` puts the *first* inserted of them first (`Latest`).
`status_rank(e) < highest - 1` is kept: a drop of one rank is tolerated.  The fold
(`Walk`) goes over the *set* of main events and takes the last one in `Before` order
(`LastOf`) off at each level, which visits them as the loop does.

Under the algorithms stand what they promise, without a loop: `SeverityOf` and
its parts.  The properties of `MCChronology` and the theorems compare the two.

### ShipmentResolution

| Variable | Table |
|---|---|
| `aliases` | `shipment_aliases`: a function from (type, value) to canonical id and confidence |
| `events` | `shipment_events`: a set of rows |
| `senderOf` | the column `sender_display_name`, the only one an UPDATE touches |
| `rows` | `shipments`: a function from canonical id to row |
| `lastId` | the last row id of `shipment_events`: insertion order |

| Action | Code |
|---|---|
| `ProcessOrderConfirmation`, `ProcessShippingEvent` | the two paths of `resolve_and_insert`, with the lookup or derivation of the canonical id (`CanonicalForOrder`, `CanonicalForShipping`), the merge check (`RegisterTrackingAlias`), `insert_if_new` with its sender backfill (`InsertIfNew`) and the row's rebuild (`RebuildShipment`) |
| `DeleteShipment` | the dashboard's DELETE |
| `RebuildAll` | `rebuild_all` while nothing else writes |

An extraction that is not relevant, is of a non-physical type, or names no
identifier meets an early return and is not a step (`CreatesShipmentData`).  The
constant `Extractions` is the set of results the pipeline may hand over, so a mail
that can be read in two ways is two members of it.

Abstractions.  A canonical id is a truncated SHA-256 of the alias key; hashing is
taken to be injective, so the key itself is the id.  Identifiers and merchants are
values after `upper()` and `strip()`.  The carrier patterns enter as the set
`Structured` of tracking numbers that match one.  `evidence_email_id`, labels,
evidence texts, processing version and timestamps of the rows themselves are left
out: nothing reads them to decide anything.  No property speaks of `senderOf`, and
the runs have no sender names.  Two different tracking numbers are
refused by `can_merge_tracking_numbers` in both of its last branches, which
differ in wording only, so the operator is equality.  SQLite may use the id of a
deleted last event again; the order of insertion, all that ids are used for, is
the same.

A call is one step because its transaction has already written when it reads: in
the processing phase `processed_emails` is written before the resolution starts,
and the deletion begins with a DELETE.

### RebuildRace

`parsli rebuild` opens a session and writes nothing until the first upsert.  So
the list of shipments (`ListShipments`), the first shipment's events
(`ReadEvents`) and aliases (`ReadAliases`) are read in steps of their own; the
first upsert takes the lock, and the rest of the loop, up to the commit, is one
step (`WriteRows`).  `Interrupted` ends the command before its commit.
The server's writers are the actions of `ShipmentResolution`.

### MailSync

| Variable | Meaning |
|---|---|
| `mailbox`, `removed` | Gmail: messages each account received, and those deleted for good |
| `messages` | `email_messages` |
| `processed` | `processed_emails` at the current version |
| `syncState` | `gmail_sync_state`: history id and completion of the initial sync |
| `job` | what each request in flight holds between its steps |
| `resolved`, `missed` | history variables: how often each message was resolved, and what arrived behind an initial sync's listing |

A request goes `idle → listed → process → batch → idle` (initial) or
`idle → history → process → batch → idle` (incremental).

| Action | Code |
|---|---|
| `ListCandidates` | the paginated keyword queries |
| `CommitInitial` | fetch and store what is new, ask for the history id (which may come back `None` and then is not written), commit |
| `AskHistory`, `HistoryFails` | read the stored history id, call `get_history`: one page of ids and the *current* id, or `([], None)` |
| `CommitIncremental` | fetch and store what is new, store the new id or the start id, commit; the ORM writes the column only when the value differs from the one loaded |
| `SelectBatch` | `get_unprocessed_ids`: any `BatchSize` unprocessed ids, of any account |
| `CommitBatch` | fetch with this account's client, process, resolve, commit |
| `Fail` | an exception or the end of the process in any of these |
| `Deliver`, `Remove` | Gmail |

Only mail that the keyword queries match is in the model, so the initial listing
returns the whole mailbox; a message's number is the history id of its arrival.
An account that was never synced and one whose initial sync has not committed are
the same (`None`): nothing but the completed flag and the history id is read.
The lookback window is not modelled: mail does not age within a behaviour.

### ParcelTimelines and TimelineRefinement

`ParcelTimelines` knows parcels, the reports on file about each and what the list of
parcels shows.  A step files one new report with one parcel (`File`) or dismisses
one parcel with everything it has (`Dismiss`).  Under the mapping a parcel is a
canonical id with events, its history is `EventsOf`, and `shown` is the status, its
date and the number of events of its row.  `ImplementsTimelines` says that each call of the resolution is
such a step or none: replays, rebuilds and deletions of unknown ids stutter, and no
call adds to two parcels, moves a report, or lets a row say something else than its
history.

### Accounts

| Variable | Meaning |
|---|---|
| `files` | the token file of each account: the consent whose token it holds, `Torn`, or `None` |
| `flows`, `pending` | who started each authorisation flow; `_pending_flows` of all processes |
| `granted`, `redirects` | Google and the browser: consents given, redirects not yet delivered |
| `call` | each sync request of the server and each run of `parsli sync`, around its refresh |
| `deleted` | history: consents whose token a removal deleted |

A refresh is two steps (`LoadToken`, `RefreshDone`) because Google's answer comes
between them.  `LoadToken` finds a token that is good or is sent to Google;
`TokenMissing` is a file that is absent, or that holds an expired token without a
refresh token (`renewable` says which consents come with one); a torn file ends the
call without a change.  Every other operation runs in one, since it reads and writes one file
or one dictionary.  `AuthCallback` pops the flow and, if the exchange succeeds,
saves the token under the address Google names; `CliCallback` is the command line's
server on the shared port, which gets the redirect of whichever flow of a command
line comes in and saves under the account it was started for.  `RestartServer`
forgets the server's flows and may leave a file torn, as may a command line run
that is killed (`KillCli`): `write_text` truncates first.  A token is identified with the consent it descends from, as a refresh does
not change the mailbox it opens.

### Classification, Reconciler, Pipeline

A mail is abstracted to what the patterns find in it (`Mail`): the statuses whose
phrases match in subject and body, numbers with their carrier family, place and
context, order numbers with their label, invoice words, sender class.  From these
the operators are the code's: precedence and confidence of statuses
(`detect_status`), filters and ranking of candidates
(`extract_tracking_candidates`, `select_best_tracking`), the removal of numbers
labelled as orders, the invoice path.  A confidence is a percentage; the rules' own lie in
0 .. 100, the model's are any integers, as `model/base.py:57` does not bound them.
`Reconciler` is the branch structure of `reconcile`, `_reconcile_email_type`, relevance and
ignore reason; evidence texts, amounts and pickup codes are left out.  `min` keeps
the first of equal candidates; `place` is the order in which the extractor lists
them.

`Pipeline` puts one mail through them.  Its stages are those between which the
outcome may differ: after the rules the model is not asked, answers, gives no usable
answer (`NoAnswer`), or cannot be reached, which raises out of the batch
(`Unavailable`).

### Preferences, Dashboard, Parsli

`domain_preferences` has one row per domain or address, so adding an entry to a list
moves it from another one, and removing it from any list removes the row.  A query
carries its words, the domains it is restricted to and those and the senders it
excludes; a mail has the set of queries whose words it contains (`Terms`).
`score` gives the blocklist precedence over the fixed lists.

`Dashboard` computes what the screens show, with the two joins the code makes: the
list's review flag over the extractions of every version
(`NeedsReviewCanonicals`), the detail's events over their own (`EventNeedsReview`,
for which `versionOf` holds the version column of the events).

`Parsli` composes them.

| Action | Code |
|---|---|
| `EditPreferences` | the settings routes, at any time |
| `ReadPreferences`, `ExcludeOwnAddress`, `FetchCandidates` | an initial sync, cut at its calls to Gmail; the address the profile call names is added to the preferences, which are read again; a call that fails names none, and the sync goes on without it |
| `ReadPreferences`, `IngestHistory` | an incremental sync: whatever the history names is stored, without a query |
| `ReadBatch`, `ProcessMail` | the processing phase; another sync may hold ids read earlier |
| `Delete`, `Upgrade` | the dashboard's DELETE; a release with another processing version |

`ProcessMail` is the whole of `_process_one` and what follows it: any outcome of
`Pipeline` for the mail (`Outcomes`), one row in each of the two tables (`Persist`),
and a call of the resolution or one of its early returns (`Resolve`).  What `MailSync`
is about (history ids, batches that fail, several accounts) is left out here: any
stored, unprocessed mail may be next.  `Extractions`, a constant of
`ShipmentResolution`, is what the pipeline may produce (`ExtractionsAssumption`).

## 3. Runs

| Run | Instance | Shows |
|---|---|---|
| `MCChronology` | 7 statuses (three ranks, delivery, each kind of side status), 3 dates, up to 4 events | the loops equal their loop-free definitions; effect of one more mail |
| `MCResolution` | 6 mails: confirmation, shipping mail (read in three ways: another status, another merchant), delivery, a second parcel twice (before everything and after the delivery), another merchant; two mails that must be ignored; 5 events | six invariants, three action properties, and the refinement of `ParcelTimelines` |
| `MCRebuildRace` | 2 shipments, 4 mails, 2 rebuilds | what the rebuild's unlocked reads can and cannot damage |
| `SyncOverlap` | 1 account, 2 requests, 3 messages, deletions, profile call may fail | no mail is skipped; a stored history id is never lost and goes back only at the commit of an overtaken sync; a mail is resolved again by no more syncs than were in flight |
| `SyncLive` | 1 account, 2 requests, 2 messages, batches of 1 | the two liveness properties |
| `Pipeline` | 72 mails (phrases of each confidence, invoices, structured, bare and telephone numbers in subject and body, labelled or not), any model answer at the confidences 49, 50, 69, 70, 89, 90, two others and one out of scale, audits included | six properties of the outcome |
| `Accounts` | 2 mailboxes, 1 server request, 2 command line runs, 3 flows, 2 consents | a removed token comes back through nothing but a refresh that had read it; tokens are not mixed up |
| `Parsli` | a parcel with shipping and delivery mail, a note to self on another order; 2 syncs, 2 versions, blocking the shop | the chain end to end |

The instances of `Accounts` and `SyncOverlap` use symmetry: accounts, requests and runs enter only through
equality.

Why the bounds suffice.  A chronology property compares two events in the presence
of a delivery and of the maximum so far: four events hold every such pattern, and
the seven statuses give every combination of rank difference (0, 1, 2 and more) and
side kind.  A resolution hazard needs two identifiers, two mails that share one of
them, and a third that arrives earlier or later than either; the six mails give
each combination.  Five events in all let every mail of the first purchase be on
record at once, or fewer of them with a deletion and a return, or with a second
reading.
Overlap needs two requests: a third only repeats what the second can do to the
first.  Three messages let one be behind, one within and one beyond a page or a
batch.

`Pipeline` gives the model every type, the statuses below, at and above each branch,
and confidences at and just below 50, 70 and 90 in every combination with the rules'
own, of which 70 and 90 are two; the mails with several numbers meet the filters of the candidates.
`Accounts` needs two mailboxes to mix up, two runs of the command line to share the
port, a third flow for the 401 that starts one by itself, and a request that
refreshes meanwhile; two consents are the fewest that can be confused.  In `Parsli`
two versions let a mail be read differently after an upgrade, and three events hold
all that the mails yield; two syncs are one before and one after any edit.  Its
preferences only block a domain and exclude addresses, so the allow list is in the
module but not in this instance.

Deadlock is not checked where a behaviour ends once `MaxId` ids are handed out,
`MaxEvents` events observed, a mail is through the pipeline, or the bounds on
flows, syncs and versions are used up.  `MailSync` never stops and is checked for
it.

### Where code and documentation disagree

Four runs check one property each that the repository states, and TLC finds a
behaviour of the code that violates it.  The findings in PROJECT.json quote the
lines.

| Run | What happens |
|---|---|
| `SyncPaging` | the later pages of a long history are skipped |
| `SyncTwoAccounts` | leftovers of two accounts block each other's batches for ever |
| `AccountsCli` | the command line saves a mailbox's token under another account's name |
| `ParsliSelf` | a profile call that fails leaves the own address unexcluded, and the queries find what the mailbox sent to itself |

The passing runs state what holds in spite of them: `NoMailSkipped` with a history
of one page, `IngestedIsProcessed` with one account, `OwnCredentials` with consents
given to the command line excepted, `ExclusionsHold` for the address the profile
call named.

Other disagreements have no run of their own.  The first group is stated as a
property in the modules; adding it to the named cfg produces the behaviour.

| Property | cfg | What happens |
|---|---|---|
| `FirstSeenIsEarliest` | `MCResolution` | `repositories.py:372-391` keeps `first_seen_at` of the first insert; an older mail processed later does not move it, nor does a rebuild, which says "from scratch" (`shipment_resolution_service.py:138`) |
| `DeliveredIsFinal` | `MCRebuildRace` | a rebuild that read a shipment before its delivery was committed writes the old status back (`chronology.py:94` "`delivered` is terminal") |
| `NoMailLost` | `SyncOverlap` | mail that arrives between the listing of an initial sync and its read of the history id (`sync_service.py:132`) is never stored; `NoMailSkipped` excepts this window (`missed`) |
| `CompletedCanContinue` | `SyncOverlap` | a first initial sync whose profile call fails completes without a history id (`client.py:105-109` swallows the exception, `sync_service.py:132-138` goes on); every incremental sync then refuses, and the front end no longer offers an initial one |
| `NewMailIsIngested` | `SyncLive`, `MayRemove = TRUE` | a message deleted at Gmail before it was fetched makes every later incremental sync fail from the same id |
| `StatusFromBody` | `Pipeline` | a status may come from the subject although `rule_engine.py:147-148` says that it is matched in the body only: `:152` passes text that begins with the subject |
| `DisagreementRecorded` | `Pipeline` | when rules and model agree on the type and not on the status, neither a conflict reason nor a review flag is set; `reconciler.py:4-5` promises that every disagreement is recorded |
| `IgnoredIsACount` | `Parsli` | the developer page's count of ignored mail (`routes_dev.py:124`) falls below zero after an upgrade: distinct mails minus rows of every version |

The second group was met while modelling, in code that is modelled as it is:

- A refresh that fails raises Google's `RefreshError` and ends as HTTP 500;
  `auth.py:118-121` promises `TokenMissingError`, which would start a new flow.  A
  torn token file raises `ValueError`, which `_sync_or_401` shows as 400.
- A refresh in flight writes the token back after the account was removed
  (`RefreshDone` after `RemoveAccount`), although the dialog says that it "deletes the
  stored token".  So does a redirect that comes after the removal for a consent given
  before it (`AuthCallback`, `CliCallback`): the removal leaves pending flows alone.
  `RemovalIsFinal` says what is left: a deleted token, once no refresh that had read
  it is out, never comes back.
- Overlapping syncs resolve mail more than once and may move the history id back: the
  unprocessed ids and the start id are read before the transaction holds the lock
  (`email_processing_service.py:91`, `sync_service.py:166-176`).  `RepeatsAreBounded`
  and `HistoryIdIsKept` say how far that goes, `NoMailSkipped` that an id moved back
  only repeats work, `NoDuplicateEvents` that a repetition leaves the timelines alone.
- A mail in which the rules find a tracking number and no status, and which the model
  calls `non_shipping` with a known status, is recorded as relevant, is not flagged,
  and has no event: the resolution's list of types
  (`shipment_resolution_service.py:48-52`) is longer than the reconciler's
  (`reconciler.py:106`).  `ParcelsAreNotLost` speaks of mail with a status.
- A late redirect of an earlier command line run ends the run that listens now
  (`CliCallback`, second alternative).
- `remove_allowlist` and its likes delete a row whatever list it is on.
- The preferences screen says "Never process email from these domains": an
  incremental sync stores and processes whatever the history names
  (`IngestHistory`), and a mail stored before its sender was blocked keeps its trust
  level.  "Always treat email from these domains as parcel-relevant" is a query, and
  default exclusions apply to it too.
- A parcel deleted "permanently" comes back when an upgrade reads its mail again.
- The list flags a parcel by the extractions of older versions, which the detail view
  of the parcel does not show.
- Processing a mail again at the same version leaves `classification_method` of the
  first reading in its row (`repositories.py:163-171`).

Some properties hold only where the passing run checks them, and a change of a cfg
shows why:

- `RowReflectsEvents` in `MCRebuildRace`: a rebuild may bring back the row of a
  shipment that was deleted after it was read, without any event.
- A mail read again with another merchant registers an alias, and its event is taken
  for known (`EventKey` has neither canonical id nor merchant): the alias leads to a
  shipment without events or row, until further mail arrives for it.
- The merge check guards the tracking *alias* only: the event of a second parcel
  that names the same order is filed in the first parcel's timeline.


### Fairness

`Fairness` in `MailSync` assumes that

- a request does not stay between two steps for ever (`WF` of `Proceed`, failure
  included): every call returns or raises, the database has a busy timeout;
- the user keeps pressing Sync for each account (`SF` of `Sync`): nothing in the
  code starts a sync by itself;
- a step that is possible again and again succeeds at some time (`SF` of each
  committing step, per account): Gmail, the model server and the database are not
  out of reach each single time.

It assumes nothing of initial syncs that are run again, of failed history calls, of
the order of mail, nor that a given message is ever picked by the unordered
batch: that leftovers are picked in the end is the result.

## 4. Proofs

All proofs are for arbitrary constants that satisfy the assumptions the module and
those it extends name (`ConstantsAssumption`, `HistoryAssumption`,
`AccountsAssumption`, `PipelineAssumption`, `ParsliAssumption`, ...), which TLC
evaluates in each run.

**ChronologyProofs** proves what `check_chronology` and `select_current_status`
return for every finite set of events with natural dates and distinct ids
(`EventLog`), of any size.

- The loop.  The community modules define a fold as the choice of a function that
  satisfies a recursion.  No induction theorem is at hand to show that there is one
  (their hypotheses are operators), so the lemmas take a subset with the fewest
  elements for which a claim fails (`MinimalSet`, from `LeastNat`), and what is
  known of the set without its last event.  `WalkEquation` is the result: the walk
  over a set is one `ChronologyStep` from the walk over the rest.
- The loop invariant.  `Knows` relates the accumulator to the events met: whether a
  delivery was among them, the highest rank before it, the grade of the
  reference, and which codes stand where.  One lemma per branch of the step keeps
  it, and `WalkKnows` carries it to every set.  `GradeIsReference` and
  `CodesAreReference` follow: the grade is `SeverityOf`, the terminal codes number the
  main events after a delivery, and regressions come before them.
- The choice.  `CurrentCases` resolves the nested `next(...)` calls into four groups of
  events; `StatusIsAuthoritative` and `LateMailLeavesStatus` are the priorities
  of the docstring, and what an old mail may change.

**MCChronologyProofs** carries these to histories that grow one mail at a time.  The
invariant is that ids are `1 .. n` without repetition, so that a history is an
`EventLog` and a new event differs from all on file; `MaxEvents`, `MaxDate` and the
statuses in play stay arbitrary.  Nothing TLC checks in this run is left unproved.

**ShipmentResolutionProofs** proves `Spec => []P` for the type invariant and the six
safety invariants `EventsHaveRow`, `RowReflectsEvents`, `NoDuplicateEvents`,
`OneTrackingAlias`, `TrackingAnchored`, `EventsReachable`, and the three action
properties `DeliveredIsFinal`, `HistoryOnlyGrows` and `DeletionIsTotal`.

The inductive invariant `IInv` joins these with what they lean on:

- `TrackingAnchored` is what makes `OneTrackingAlias` inductive.  A new tracking
  alias is registered for a canonical id that another alias may already lead to;
  that no tracking alias leads there is known from the check in
  `RegisterTrackingAlias`, but for an id *derived* from a tracking number only
  because that number's own alias is still there.
- `EventsReachable` needs that an alias never changes its canonical id
  (`UpsertAlias`) and that a deletion takes aliases and events together.  When the
  alias of a tracking number is refused, the event is still reachable by its order.
- `RowReflectsEvents` for the shipments a step does *not* touch needs that the new
  event belongs to the shipment that is rebuilt, also when the event is a duplicate
  filed under another shipment.
- the ids of events are distinct (`RowIdsDistinct`) and at most `lastId`, so that a
  new one is new, `Latest` and `Earliest` choose among comparable events, and the
  events of a shipment are an `EventLog`.

The last is what joins the two layers: `RowsStayHonest` says that the row of a listed
shipment is graded `SeverityOf` its events and shows delivered exactly if one of
them is a delivery, whatever mail came in which order.

`DeliveredIsFinal` follows from `RowReflectsEvents` before and after the step: a row
that shows delivered has a delivered event, the step keeps the shipment's events
(`ListedKeepsEvents`), and `select_current_status` picks a delivered event whenever
there is one (`DeliveredWins`, in `ChronologyProofs`).

The same module proves `ResolutionImplementsTimelines`: the initial
tables map to no parcels, and under `IInv` each call maps to `File`, `Dismiss` or a
stutter.  The cases are: a known event (its row already says what it would be
rebuilt to, by `RowReflectsEvents`), a new event (`lastId` orders it after all on
file, and its key differs from theirs), a deletion and a rebuild.

**RebuildRaceProofs** proves `EventsHaveRow`, `StaleOnlyAtTarget` and `RestRepaired`
for any mail and any number of rebuilds.  Little is needed of the past: the
invariant is `EventsHaveRow` and that `rebuilds` counts.  What matters is the effect
of each writer on the rows (`ResolveEffect`, `WriteEffect`): a mail adds events to
one shipment and rebuilds it, a deletion takes a shipment's events and row together,
and the write of a rebuild sets the row of `target` from what was read before the
lock and the others from the events on record.

**MailSyncProofs** proves for any number of accounts, messages and overlapping
requests

- `SyncTypeCorrect`: `TypeOK`, with the forms of the requests (`RequestsSound`);
- `NothingSkipped`: with `HistoryPage >= MaxMail`, that is a history that fits one
  page, `NoMailSkipped`.  The inductive invariant adds what a request holds:
  everything between the start id of an incremental request and the latest id it
  got is in its answer or was there before, and everything behind its start id is
  stored, missed or removed; so that whichever request commits last, and however
  old its answer is, the id it stores is covered;
- `RepeatsBounded`, that is `RepeatsAreBounded`.  The invariant counts: the times a
  mail was resolved and the requests whose batch holds it are together at most the
  number of requests, and a mail not yet processed was never resolved (`Counted`), so
  that a new batch only takes up mail nobody has resolved;
- `HistoryIdKept`, that is `HistoryIdIsKept`.  No id that is stored or that a request
  will store is ahead of the mailbox, and the latter is not behind the one the request
  started from (`IdsReached`): an initial sync only moves the stored id on, and so
  does an incremental one that was not overtaken.

`NothingSkipped` has the hypothesis of its run: `SyncPaging` refutes `NoMailSkipped`
without it.  The others have none, failed profile calls and deletions at Gmail
included; `RepeatsAreBounded` needs finitely many requests to be a number.

**AccountsProofs** proves `TypeOK`, `RemovalIsFinal` and `OwnCredentials` for any
number of accounts, requests, runs, flows and consents.  `RemovalIsFinal` is a matter
of where tokens come from: what a step writes into a file is the consent of a
redirect or a token whose refresh is out (`TokenOrigins`), and what a refresh takes
to Google was in a file (`RefreshOrigins`); a redirect is used up when its token is
saved, so a token that was in a file has none left (`GrantsUsed`).
`OwnCredentials` needs that consents and
flows are only added, so that what a token opens never changes, and that the grant
a call holds was one of the account's (`GrantsUsed`, `Working`).

**PipelineProofs** proves the seven properties of the `Pipeline` run for any mail
and any answer.  The invariant, `Provenance`, says that each result is what its stage
computes from the ones before; the properties then are facts about `reconcile`.
They rest on `VerdictFromBranch`, which turns the nested conditions of `Decide` into
a list of branches (`Branch`) with the condition each is taken under, and on
`MergedType` and `BestTracking` about the candidates: the model's numbers are
appended below the rules' own, so the best is still one of theirs.

**ParsliProofs** composes.  `ParsliImplementsResolution` shows that
every step of `Parsli` is a call of the resolution or leaves its tables alone; with
it the resolution's `IInv` holds of the whole system (`ResolutionInvariance`).  On
this rest

- `ReviewsAreShown`: an event that needs review has a listed row, by
  `EventsHaveRow`, and the flag of the row joins every version, its own included;
- `DeliveriesAreShown`, the theorem that spans the chain.  A mail the rules read as
  the delivery of a parcel with an identifier keeps that status whatever the model
  says and stays relevant with an identifier (`DeliveryReconciled`,
  `DeliveryOutcome`), so the resolution does not return early; the event it files, or
  finds on file, is a delivery (`FiledEvent`); no later step but the user's deletion
  takes it away (`DeliveriesFiledKept`); and a parcel with a delivered event is shown
  delivered (`ArrivedIsShown`, from `RowReflectsEvents` and `DeliveredWins`).

`BlockedMailStaysWithRules` and `ExclusionsAreKept` have an invariant of their own,
`FetchInv`: what is read or waits to be read is stored, and stored mail keeps
the trust level it was stored with; a sync that fetches, and whose profile call named the
mailbox's address, has it among the excluded senders.

`ImplementsResolution` is proved and not in the cfg of `Parsli`.

Left to TLC: of the properties of the passing runs, the two liveness properties
`IngestedIsProcessed` and `NewMailIsIngested`, since fairness and ENABLED are outside
the prover; and what the runs of section 3 refute.

## 5. Not modelled

The text-level work (the regular expressions, cleaning, prompts, HTML and header
decoding, normalisation of domains) is string processing; what it finds enters as
constants.  Of the dashboard, labels, source labels and the event list of the
detail view are presentation.  Candidate observability is written once per initial
sync and only read by the developer page.  The front end, but for the choice of
sync, displays.  `rebuild_affected` and `reprocess_email` have no caller.

`MailSync` and `Parsli` are two views of a sync: the first has history ids,
failures and several accounts and one kind of mail, the second preferences, trust
and content.  `Accounts` ends where a call has its credentials.  Composed in one
module they would square each other's states without an interaction the code has:
they share no table but `email_messages`, which both model.

## 6. Plan

Done: `Statuses`, `Chronology`; `ShipmentResolution`; `RebuildRace`; `MailSync`;
`Classification`, `Reconciler`, `Pipeline`; `Accounts`; `Preferences`, `Dashboard`,
`Parsli`; `ParcelTimelines` and its refinement; the proofs of section 4.

Next: an instance of `Parsli` with an allow list and sender names; an
abstract specification of synchronisation that `MailSync` implements where its
hypotheses hold; rows under a rebuild beside the server, beyond `RestRepaired`.
