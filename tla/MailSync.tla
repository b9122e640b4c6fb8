------------------------------ MODULE MailSync ------------------------------
(***************************************************************************)
(* services/sync_service.py between the mailboxes and the database: how an *)
(* initial and an incremental sync bring the mail of each account in and   *)
(* hand it, batch by batch, to the pipeline and the resolution.            *)
(*                                                                         *)
(* Sync requests run on the server's thread pool, one session per          *)
(* transaction.  A request is cut into steps where another may come        *)
(* between: the calls to Gmail and the reads that no write precedes, and   *)
(* the two transactions, each one step at its commit.  Whatever raises     *)
(* inside a step (Gmail, the model server, a database locked too long, a   *)
(* crash of the process) ends the request and rolls its transaction back.  *)
(*                                                                         *)
(* A message is <<account, n>>: the n-th the account ever received, n      *)
(* being the history id of its arrival.  Only mail that the keyword        *)
(* queries match is in the model.                                          *)
(***************************************************************************)
EXTENDS Integers, FiniteSets

CONSTANTS
  None,         \* no sync state, no history id
  Accounts,     \* connected Gmail accounts
  Requests,     \* request threads: bound on the syncs in flight
  MaxMail,      \* bound: messages one mailbox ever receives
  HistoryPage,  \* messages in one response of the history call
  BatchSize,    \* incremental_batch_size
  ProfileFails, \* whether the call for the current history id may fail
  MayRemove     \* whether mail may be deleted at Gmail

HistoryId == 0 .. MaxMail
SyncState == [historyId: HistoryId \cup {None}]

ASSUME ConstantsAssumption ==
  /\ None \notin Nat
  /\ None \notin SyncState
  /\ IsFiniteSet(Requests)
  /\ MaxMail \in Nat
  /\ HistoryPage \in Nat \ {0}
  /\ BatchSize \in Nat \ {0}
  /\ ProfileFails \in BOOLEAN
  /\ MayRemove \in BOOLEAN

Message == Accounts \X (1 .. MaxMail)

\* What a request holds between its steps: the ids it found, the history id it
\* started from, the one Gmail answered with, the batch it is processing.
Job ==
  [ pc: {"idle", "listed", "history", "process", "batch"},
    account: Accounts \cup {None}, ids: SUBSET Message,
    start: HistoryId \cup {None}, latest: HistoryId \cup {None},
    batch: SUBSET Message ]

VARIABLES
  mailbox,    \* Gmail: number of messages each account ever received
  removed,    \* Gmail: messages deleted for good (a discarded draft, emptied trash)
  messages,   \* email_messages
  processed,  \* processed_emails at the current processing version
  resolved,   \* history: how often each message was resolved at this version
  missed,     \* history: messages that arrived behind an initial sync's listing
  syncState,  \* gmail_sync_state: None before the initial sync completed
  job         \* the requests in flight

vars == <<mailbox, removed, messages, processed, resolved, missed, syncState, job>>
database == <<messages, processed, resolved, missed, syncState>>

Request(pc, a, ids, start, latest, batch) ==
  [ pc |-> pc, account |-> a, ids |-> ids, start |-> start,
    latest |-> latest, batch |-> batch ]

Idle == Request("idle", None, {}, None, None, {})

\* The mail of an account is in the database; its unprocessed mail is next.
Processing(a) == Request("process", a, {}, None, None, {})

Init ==
  /\ mailbox = [a \in Accounts |-> 0]
  /\ removed = {}
  /\ messages = {}
  /\ processed = {}
  /\ resolved = [m \in Message |-> 0]
  /\ missed = {}
  /\ syncState = [a \in Accounts |-> None]
  /\ job = [r \in Requests |-> Idle]

-----------------------------------------------------------------------------
(* Gmail *)

Received(a) == {m \in Message : m[1] = a /\ m[2] <= mailbox[a]}

Deliver(a) ==
  /\ mailbox[a] < MaxMail
  /\ mailbox' = [mailbox EXCEPT ![a] = @ + 1]
  /\ UNCHANGED <<removed, database, job>>

Remove(m) ==
  /\ MayRemove
  /\ m \in Received(m[1]) \ removed
  /\ removed' = removed \cup {m}
  /\ UNCHANGED <<mailbox, database, job>>

\* fetch_raw answers with the account's own mail; for anything else it raises.
Fetchable(a) == Received(a) \ removed

\* One response of history.list: the first page of what was added after start.
HistoryAfter(a, start) ==
  {m \in Received(a) : start < m[2] /\ m[2] <= start + HistoryPage}

-----------------------------------------------------------------------------
(* initial_sync *)

\* The candidate queries, paginated to the end.
ListCandidates(r, a) ==
  /\ job[r] = Idle
  /\ job' = [job EXCEPT ![r] =
               Request("listed", a, Fetchable(a), None, None, {})]
  /\ UNCHANGED <<mailbox, removed, database>>

\* Faulty variant: the upsert no longer tells a NULL history id from one to write.
InitialOverwrites(r) ==
  LET a == job[r].account
  IN  /\ job[r].pc = "listed"
      /\ job[r].ids \ messages \subseteq Fetchable(a)
      /\ \E h \in {mailbox[a]} \cup (IF ProfileFails THEN {None} ELSE {}) :
           syncState' = [syncState EXCEPT ![a] = [historyId |-> h]]
      /\ messages' = messages \cup job[r].ids
      /\ missed' = missed \cup (Received(a) \ messages')
      /\ job' = [job EXCEPT ![r] = Processing(a)]
      /\ UNCHANGED <<mailbox, removed, processed, resolved>>

\* Every new candidate is fetched and stored; only then the current history id is
\* asked for, and a NULL never overwrites one that is stored.
CommitInitial(r) ==
  LET a == job[r].account
      stored == IF syncState[a] = None THEN None ELSE syncState[a].historyId
  IN  /\ job[r].pc = "listed"
      /\ job[r].ids \ messages \subseteq Fetchable(a)
      /\ \/ syncState' = [syncState EXCEPT ![a] = [historyId |-> mailbox[a]]]
         \/ /\ ProfileFails
            /\ syncState' = [syncState EXCEPT ![a] = [historyId |-> stored]]
      /\ messages' = messages \cup job[r].ids
      /\ missed' = missed \cup (Received(a) \ messages')
      /\ job' = [job EXCEPT ![r] = Processing(a)]
      /\ UNCHANGED <<mailbox, removed, processed, resolved>>

-----------------------------------------------------------------------------
(* incremental_sync *)

CanContinue(a) == syncState[a] # None /\ syncState[a].historyId # None

\* The stored history id is read, then Gmail is asked for what came after it.
AskHistory(r, a) ==
  /\ job[r] = Idle
  /\ CanContinue(a)
  /\ LET start == syncState[a].historyId
     IN  job' = [job EXCEPT ![r] = Request("history", a, HistoryAfter(a, start),
                                           start, mailbox[a], {})]
  /\ UNCHANGED <<mailbox, removed, database>>

\* Faulty variant: the exception strikes after the latest history id was read.
HistoryFailsLate(r, a) ==
  /\ job[r] = Idle
  /\ CanContinue(a)
  /\ job' = [job EXCEPT ![r] =
               Request("history", a, {}, syncState[a].historyId, mailbox[a], {})]
  /\ UNCHANGED <<mailbox, removed, database>>

\* get_history swallows every exception and answers ([], None).
HistoryFails(r, a) ==
  /\ job[r] = Idle
  /\ CanContinue(a)
  /\ job' = [job EXCEPT ![r] =
               Request("history", a, {}, syncState[a].historyId, None, {})]
  /\ UNCHANGED <<mailbox, removed, database>>

\* Faulty variants: the current history id is stored, as an initial sync does;
CommitCurrentHistory(r) ==
  LET a == job[r].account
  IN  /\ job[r].pc = "history"
      /\ job[r].ids \ messages \subseteq Fetchable(a)
      /\ messages' = messages \cup job[r].ids
      /\ syncState' = [syncState EXCEPT ![a] = [historyId |-> mailbox[a]]]
      /\ job' = [job EXCEPT ![r] = Processing(a)]
      /\ UNCHANGED <<mailbox, removed, processed, resolved, missed>>

\* without new mail there is nothing to process.
CommitReturnsEarly(r) ==
  LET a == job[r].account
      latest == IF job[r].latest = None THEN job[r].start ELSE job[r].latest
  IN  /\ job[r].pc = "history"
      /\ job[r].ids \ messages \subseteq Fetchable(a)
      /\ messages' = messages \cup job[r].ids
      /\ syncState' = [syncState EXCEPT ![a] = [historyId |-> latest]]
      /\ job' = [job EXCEPT ![r] =
                   IF job[r].ids = {} THEN Idle
                   ELSE Processing(a)]
      /\ UNCHANGED <<mailbox, removed, processed, resolved, missed>>

\* The session writes the history id only when it differs from the one it loaded.
CommitIncremental(r) ==
  LET a == job[r].account
      latest == IF job[r].latest = None THEN job[r].start ELSE job[r].latest
  IN  /\ job[r].pc = "history"
      /\ job[r].ids \ messages \subseteq Fetchable(a)
      /\ messages' = messages \cup job[r].ids
      /\ syncState' = IF latest = job[r].start THEN syncState
                      ELSE [syncState EXCEPT ![a] = [historyId |-> latest]]
      /\ job' = [job EXCEPT ![r] = Processing(a)]
      /\ UNCHANGED <<mailbox, removed, processed, resolved, missed>>

-----------------------------------------------------------------------------
(* _process_and_resolve *)

\* Faulty variants: the version filter is dropped, the ids come from the mailbox.
UnprocessedOrNot == messages
UnprocessedAtGmail == UNION {Received(a) : a \in Accounts} \ processed

\* get_unprocessed_ids: LIMIT without ORDER BY and without the account.
Unprocessed == messages \ processed

SelectBatch(r) ==
  /\ job[r].pc = "process"
  /\ \/ /\ Unprocessed = {}
        /\ job' = [job EXCEPT ![r] = Idle]
     \/ \E B \in SUBSET Unprocessed :
          /\ \/ Cardinality(B) = BatchSize
             \/ Cardinality(B) < BatchSize /\ B = Unprocessed
          /\ B # {}
          /\ job' = [job EXCEPT ![r] =
                       Request("batch", job[r].account, {}, None, None, B)]
  /\ UNCHANGED <<mailbox, removed, database>>

\* Every mail of the batch is fetched again, through the pipeline, and resolved;
\* one commit for all of them.
CommitBatch(r) ==
  /\ job[r].pc = "batch"
  /\ job[r].batch \subseteq Fetchable(job[r].account)
  /\ processed' = processed \cup job[r].batch
  /\ resolved' = [m \in Message |->
                    resolved[m] + IF m \in job[r].batch THEN 1 ELSE 0]
  /\ job' = [job EXCEPT ![r] = Idle]
  /\ UNCHANGED <<mailbox, removed, messages, missed, syncState>>

\* An exception in any step, or the end of the process.
Fail(r) ==
  /\ job[r] # Idle
  /\ job' = [job EXCEPT ![r] = Idle]
  /\ UNCHANGED <<mailbox, removed, database>>

-----------------------------------------------------------------------------

Start(r) ==
  \E a \in Accounts :
    ListCandidates(r, a) \/ AskHistory(r, a) \/ HistoryFails(r, a)

Proceed(r) ==
  \/ CommitInitial(r)
  \/ CommitIncremental(r)
  \/ SelectBatch(r)
  \/ CommitBatch(r)
  \/ Fail(r)

Next ==
  \/ \E a \in Accounts : Deliver(a)
  \/ \E m \in Message : Remove(m)
  \/ \E r \in Requests : Start(r) \/ Proceed(r)

Spec == Init /\ [][Next]_vars

\* What the Sync button starts: the initial sync until one has completed.
Sync(r, a) ==
  IF syncState[a] = None THEN ListCandidates(r, a) ELSE AskHistory(r, a)

\* A request ends: no step waits for ever.  The user keeps pressing Sync for every
\* account, and a step that can succeed again and again does not fail every time:
\* Gmail and the model server are not out of reach for ever, nor the database
\* locked.  Nothing is assumed of an initial sync that is run again, or of a
\* history call that failed.
Fairness ==
  /\ \A r \in Requests : WF_vars(Proceed(r))
  /\ \A a \in Accounts :
       /\ SF_vars(\E r \in Requests : Sync(r, a))
       /\ SF_vars(\E r \in Requests : job[r].account = a /\ CommitInitial(r))
       /\ SF_vars(\E r \in Requests : /\ job[r].account = a /\ job[r].latest # None
                                       /\ CommitIncremental(r))
       /\ SF_vars(\E r \in Requests : job[r].account = a /\ SelectBatch(r))
       /\ SF_vars(\E r \in Requests : job[r].account = a /\ CommitBatch(r))

FairSpec == Spec /\ Fairness

-----------------------------------------------------------------------------
(* Properties *)

\* The tables and the requests hold what their fields may hold.
TypeOK ==
  /\ mailbox \in [Accounts -> HistoryId]
  /\ removed \subseteq Message
  /\ processed \subseteq messages /\ messages \subseteq Message
  /\ resolved \in [Message -> Nat]
  /\ missed \subseteq Message
  /\ syncState \in [Accounts -> SyncState \cup {None}]
  /\ job \in [Requests -> Job]

Behind(a) == \* the messages a stored history id says are dealt with
  IF CanContinue(a)
  THEN {m \in Message : m[1] = a /\ m[2] <= syncState[a].historyId} ELSE {}

\* However syncs overlap, fail or are retried, the stored history id never runs
\* ahead of the stored mail: apart from what arrived while an initial sync was
\* running and what was deleted at Gmail, everything behind it is in the database.
NoMailSkipped ==
  \A a \in Accounts : Behind(a) \subseteq messages \cup missed \cup removed

\* No mail at all is lost to a sync, not even what arrives during one.
NoMailLost == \A a \in Accounts : Behind(a) \subseteq messages \cup removed

\* A batch is read without a lock, so overlapping syncs resolve a mail more than
\* once; but only those that read it before its first commit do, and however many
\* syncs follow, fail or are retried, none reads it again.
RepeatsAreBounded == \A m \in Message : resolved[m] <= Cardinality(Requests)

\* The commit of an incremental sync that another one overtook: since it read the
\* history id it started from, a different one was stored.
Overtaken(r, a) ==
  /\ job[r].pc = "history" /\ job[r].account = a
  /\ job[r].start # syncState[a].historyId
  /\ job'[r].pc = "process"

\* A stored history id is never lost, not even by an initial sync that is run again
\* and cannot learn the current one; and it goes back only when a sync commits that
\* another one overtook.
HistoryIdIsKept ==
  [][ \A a \in Accounts :
        CanContinue(a) =>
          /\ CanContinue(a)'
          /\ \/ syncState'[a].historyId >= syncState[a].historyId
             \/ \E r \in Requests : Overtaken(r, a) ]_vars

\* The initial sync that the front end starts only once leaves an id to go on from.
CompletedCanContinue == \A a \in Accounts : syncState[a] # None => CanContinue(a)

\* Mail in the database is eventually processed, whichever sync brought it in and
\* however often that one failed.
IngestedIsProcessed == \A m \in Message : m \in messages ~> m \in processed

\* Mail that arrives after the initial sync completed is eventually in the
\* database, unless it was deleted at Gmail before or an initial sync, run once
\* more, passed over it.
NewMailIsIngested ==
  \A m \in Message :
    m \in Received(m[1]) /\ CanContinue(m[1]) /\ m \notin Behind(m[1])
      ~> m \in messages \cup removed \cup missed

=============================================================================
