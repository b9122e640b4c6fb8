--------------------------- MODULE MailSyncProofs ---------------------------
(***************************************************************************)
(* For every number of accounts, requests and messages.  First what the    *)
(* requests and tables hold, whatever overlaps and fails.  Then, when one  *)
(* response of the history call holds all that was added (the code reads   *)
(* no second one), that the stored history id never runs ahead of the      *)
(* stored mail.  Last, what overlapping syncs may do to each other: how    *)
(* often they resolve the same mail, and when a stored history id goes     *)
(* back.                                                                   *)
(***************************************************************************)
EXTENDS MailSync, FiniteSetTheorems, TLAPS

-----------------------------------------------------------------------------
(* What the requests hold *)

\* The id a request in state "history" is about to store.
Pending(r) == IF job[r].latest = None THEN job[r].start ELSE job[r].latest

\* A request works for an account, on mail that is stored, from a known id.
RequestsSound ==
  \A r \in Requests :
    /\ job[r].batch \subseteq messages
    /\ job[r].pc \in {"listed", "history"} => job[r].account \in Accounts
    /\ job[r].pc = "history" => job[r].start \in HistoryId

Typed == TypeOK /\ RequestsSound

\* The initial state is well formed.
LEMMA InitTyped == ConstantsAssumption /\ Init => Typed
BY DEF ConstantsAssumption, Init, Typed, TypeOK, RequestsSound, Idle, Request, Job,
   HistoryId

\* The id an answered history call would store is a history id.
LEMMA PendingIsId ==
  ASSUME Typed, NEW r \in Requests, job[r].pc = "history"
  PROVE  Pending(r) \in HistoryId
BY DEF Typed, TypeOK, RequestsSound, Pending, Job

\* One request moves at a time; what it may become keeps the requests well formed.
LEMMA JobTyped ==
  ASSUME Typed, NEW r \in Requests, NEW j \in Job,
         job' = [job EXCEPT ![r] = j],
         messages \subseteq messages',
         j.batch \subseteq messages',
         j.pc \in {"listed", "history"} => j.account \in Accounts,
         j.pc = "history" => j.start \in HistoryId
  PROVE  /\ job' \in [Requests -> Job] /\ RequestsSound'
         /\ job'[r] = j
         /\ \A q \in Requests \ {r} : job'[q] = job[q]
<1>1. /\ job' \in [Requests -> Job] /\ job'[r] = j
      /\ \A q \in Requests \ {r} : job'[q] = job[q]
  BY DEF Typed, TypeOK
<1>2. RequestsSound'
  BY <1>1 DEF Typed, RequestsSound
<1> QED  BY <1>1, <1>2

\* What a request may be between two steps.
LEMMA JobForms ==
  ASSUME NEW a \in Accounts \cup {None}
  PROVE  /\ Idle \in Job /\ Idle.pc = "idle" /\ Idle.batch = {}
         /\ Processing(a) \in Job
         /\ Processing(a).pc = "process" /\ Processing(a).batch = {}
BY DEF Idle, Processing, Request, Job

\* The steps that write no table.
LEMMA ReadOnlyTyped ==
  ASSUME Typed, ConstantsAssumption, NEW r \in Requests,
         Start(r) \/ SelectBatch(r) \/ Fail(r)
  PROVE  /\ Typed'
         /\ UNCHANGED <<mailbox, removed, messages, processed, resolved, missed, syncState>>
         /\ \A q \in Requests \ {r} : job'[q] = job[q]
         /\ job'[r].batch \cap processed = {}
<1>1. UNCHANGED <<mailbox, removed, messages, processed, resolved, missed, syncState>>
  BY DEF Start, ListCandidates, AskHistory, HistoryFails, SelectBatch, Fail, database
<1>2. PICK j \in Job :
        /\ job' = [job EXCEPT ![r] = j]
        /\ j.batch \subseteq Unprocessed
        /\ j.pc \in {"listed", "history"} => j.account \in Accounts
        /\ j.pc = "history" => j.start \in HistoryId
  <2>1. ASSUME NEW a \in Accounts, ListCandidates(r, a)
        PROVE  \E j \in Job : /\ job' = [job EXCEPT ![r] = j]
                              /\ j.batch = {} /\ j.account = a /\ j.pc = "listed"
    <3> DEFINE j == Request("listed", a, Fetchable(a), None, None, {})
    <3>1. Fetchable(a) \subseteq Message
      BY DEF Fetchable, Received
    <3>2. j \in Job /\ j.batch = {} /\ j.account = a /\ j.pc = "listed"
      BY <3>1 DEF Request, Job
    <3>3. job' = [job EXCEPT ![r] = j]
      BY <2>1 DEF ListCandidates
    <3> HIDE DEF j
    <3> QED  BY <3>2, <3>3
  <2>2. ASSUME NEW a \in Accounts, AskHistory(r, a) \/ HistoryFails(r, a)
        PROVE  \E j \in Job : /\ job' = [job EXCEPT ![r] = j]
                              /\ j.batch = {} /\ j.account = a
                              /\ j.start \in HistoryId
    <3>1. syncState[a].historyId \in HistoryId /\ mailbox[a] \in HistoryId
      BY <2>2 DEF AskHistory, HistoryFails, CanContinue, Typed, TypeOK, SyncState
    <3>2. HistoryAfter(a, syncState[a].historyId) \subseteq Message
      BY DEF HistoryAfter, Received
    <3> DEFINE start == syncState[a].historyId
               j == Request("history", a, HistoryAfter(a, start), start, mailbox[a], {})
               k == Request("history", a, {}, start, None, {})
    <3>3. /\ j \in Job /\ j.batch = {} /\ j.account = a /\ j.start = start
          /\ k \in Job /\ k.batch = {} /\ k.account = a /\ k.start = start
      BY <3>1, <3>2 DEF Request, Job
    <3>4. job' = [job EXCEPT ![r] = j] \/ job' = [job EXCEPT ![r] = k]
      BY <2>2 DEF AskHistory, HistoryFails
    <3> HIDE DEF j, k
    <3> QED  BY <3>1, <3>3, <3>4
  <2>3. ASSUME SelectBatch(r)
        PROVE  \E j \in Job : /\ job' = [job EXCEPT ![r] = j]
                              /\ j.batch \subseteq Unprocessed
                              /\ j.pc \in {"idle", "batch"}
    <3>1. Unprocessed \subseteq Message /\ job[r].account \in Accounts \cup {None}
      BY DEF Unprocessed, Typed, TypeOK, Job
    <3>2. CASE job' = [job EXCEPT ![r] = Idle]
      BY <3>2, JobForms
    <3>3. ASSUME NEW B \in SUBSET Unprocessed,
                 job' = [job EXCEPT ![r] =
                           Request("batch", job[r].account, {}, None, None, B)]
          PROVE  \E j \in Job : /\ job' = [job EXCEPT ![r] = j]
                                /\ j.batch \subseteq Unprocessed
                                /\ j.pc \in {"idle", "batch"}
      <4>1. Request("batch", job[r].account, {}, None, None, B) \in Job
        BY <3>1 DEF Request, Job
      <4> QED  BY <3>3, <4>1 DEF Request
    <3> QED  BY <2>3, <3>2, <3>3 DEF SelectBatch
  <2>4. CASE Fail(r)
    BY <2>4, JobForms DEF Fail
  <2> QED  BY <2>1, <2>2, <2>3, <2>4 DEF Start
<1>3. Unprocessed \subseteq messages /\ Unprocessed \cap processed = {}
  BY DEF Unprocessed
<1>4. /\ job' \in [Requests -> Job] /\ RequestsSound'
      /\ job'[r] = j
      /\ \A q \in Requests \ {r} : job'[q] = job[q]
  BY <1>1, <1>2, <1>3, JobTyped
<1>5. TypeOK'
  BY <1>1, <1>4 DEF Typed, TypeOK
<1> QED  BY <1>1, <1>2, <1>3, <1>4, <1>5 DEF Typed

\* The commit of an initial sync: it leaves the history id alone, or sets it to the
\* current one and records as missed what it passes over.
LEMMA CommitInitialTyped ==
  ASSUME Typed, ConstantsAssumption, NEW r \in Requests, CommitInitial(r)
  PROVE  \E a \in Accounts :
           /\ Typed' /\ a = job[r].account
           /\ messages' = messages \cup job[r].ids
           /\ missed' = missed \cup (Received(a) \ messages')
           /\ UNCHANGED <<mailbox, removed, processed, resolved>>
           /\ \A q \in Requests \ {r} : job'[q] = job[q]
           /\ job'[r].pc = "process" /\ job'[r].batch = {}
           /\ \/ syncState' = [syncState EXCEPT ![a] = [historyId |-> mailbox[a]]]
              \/ /\ ProfileFails /\ syncState[a] = None
                 /\ syncState' = [syncState EXCEPT ![a] = [historyId |-> None]]
              \/ ProfileFails /\ syncState' = syncState
<1>1. PICK a \in Accounts : a = job[r].account
  BY DEF CommitInitial, Typed, RequestsSound
<1>2. /\ messages' = messages \cup job[r].ids
      /\ missed' = missed \cup (Received(a) \ messages')
      /\ job' = [job EXCEPT ![r] = Processing(a)]
      /\ UNCHANGED <<mailbox, removed, processed, resolved>>
  BY <1>1 DEF CommitInitial
<1>3. job[r].ids \subseteq Message /\ Received(a) \subseteq Message
  BY DEF Typed, TypeOK, Job, Received
<1>4. \/ syncState' = [syncState EXCEPT ![a] = [historyId |-> mailbox[a]]]
      \/ /\ ProfileFails /\ syncState[a] = None
         /\ syncState' = [syncState EXCEPT ![a] = [historyId |-> None]]
      \/ ProfileFails /\ syncState' = syncState
  <2>1. syncState \in [Accounts -> SyncState \cup {None}]
    BY DEF Typed, TypeOK
  <2>2. syncState[a] # None
          => syncState = [syncState EXCEPT ![a] =
                            [historyId |-> syncState[a].historyId]]
    BY <2>1 DEF SyncState
  <2> QED  BY <1>1, <2>2 DEF CommitInitial
<1>5. /\ job' \in [Requests -> Job] /\ RequestsSound'
      /\ job'[r] = Processing(a)
      /\ \A q \in Requests \ {r} : job'[q] = job[q]
  BY <1>2, JobForms, JobTyped
<1>6. syncState' \in [Accounts -> SyncState \cup {None}]
  BY <1>4 DEF Typed, TypeOK, SyncState
<1>7. TypeOK'
  BY <1>2, <1>3, <1>5, <1>6 DEF Typed, TypeOK
<1> QED  BY <1>1, <1>2, <1>4, <1>5, <1>7, JobForms DEF Typed

\* The commit of an incremental sync: it stores the mail and the id together.
LEMMA CommitIncrementalTyped ==
  ASSUME Typed, ConstantsAssumption, NEW r \in Requests, CommitIncremental(r)
  PROVE  \E a \in Accounts :
           /\ Typed' /\ a = job[r].account
           /\ messages' = messages \cup job[r].ids
           /\ UNCHANGED <<mailbox, removed, processed, resolved, missed>>
           /\ \A q \in Requests \ {r} : job'[q] = job[q]
           /\ job'[r].pc = "process" /\ job'[r].batch = {}
           /\ \/ Pending(r) = job[r].start /\ syncState' = syncState
              \/ syncState' = [syncState EXCEPT ![a] = [historyId |-> Pending(r)]]
<1>1. PICK a \in Accounts : a = job[r].account
  BY DEF CommitIncremental, Typed, RequestsSound
<1>2. Pending(r) \in HistoryId
  BY PendingIsId DEF CommitIncremental
<1>3. /\ messages' = messages \cup job[r].ids
      /\ job' = [job EXCEPT ![r] = Processing(a)]
      /\ UNCHANGED <<mailbox, removed, processed, resolved, missed>>
      /\ \/ Pending(r) = job[r].start /\ syncState' = syncState
         \/ syncState' = [syncState EXCEPT ![a] = [historyId |-> Pending(r)]]
  BY <1>1 DEF CommitIncremental, Pending
<1>4. job[r].ids \subseteq Message
  BY DEF Typed, TypeOK, Job
<1>5. /\ job' \in [Requests -> Job] /\ RequestsSound'
      /\ job'[r] = Processing(a)
      /\ \A q \in Requests \ {r} : job'[q] = job[q]
  BY <1>3, JobForms, JobTyped
<1>6. syncState' \in [Accounts -> SyncState \cup {None}]
  BY <1>2, <1>3 DEF Typed, TypeOK, SyncState
<1>7. TypeOK'
  BY <1>3, <1>4, <1>5, <1>6 DEF Typed, TypeOK
<1> QED  BY <1>1, <1>3, <1>5, <1>7, JobForms DEF Typed

\* A processed batch adds to the processed mail and ends its request.
LEMMA CommitBatchTyped ==
  ASSUME Typed, ConstantsAssumption, NEW r \in Requests, CommitBatch(r)
  PROVE  /\ Typed'
         /\ processed' = processed \cup job[r].batch
         /\ resolved' = [m \in Message |->
                           resolved[m] + IF m \in job[r].batch THEN 1 ELSE 0]
         /\ UNCHANGED <<mailbox, removed, messages, missed, syncState>>
         /\ \A q \in Requests \ {r} : job'[q] = job[q]
         /\ job'[r].pc = "idle" /\ job'[r].batch = {}
<1>1. /\ processed' = processed \cup job[r].batch
      /\ resolved' = [m \in Message |->
                        resolved[m] + IF m \in job[r].batch THEN 1 ELSE 0]
      /\ job' = [job EXCEPT ![r] = Idle]
      /\ UNCHANGED <<mailbox, removed, messages, missed, syncState>>
  BY DEF CommitBatch
<1>2. job[r].batch \subseteq messages
  BY DEF Typed, RequestsSound
<1>3. /\ job' \in [Requests -> Job] /\ RequestsSound'
      /\ job'[r] = Idle
      /\ \A q \in Requests \ {r} : job'[q] = job[q]
  BY <1>1, JobForms, JobTyped
<1>4. TypeOK'
  BY <1>1, <1>2, <1>3 DEF Typed, TypeOK
<1> QED  BY <1>1, <1>3, <1>4, JobForms DEF Typed

\* The mail that arrives, or is deleted at Gmail.
LEMMA GmailTyped ==
  ASSUME Typed, ConstantsAssumption,
         (\E a \in Accounts : Deliver(a)) \/ (\E m \in Message : Remove(m))
  PROVE  /\ Typed'
         /\ UNCHANGED <<messages, processed, resolved, missed, syncState, job>>
         /\ removed \subseteq removed'
         /\ \A a \in Accounts : mailbox'[a] >= mailbox[a]
<1>1. UNCHANGED <<messages, processed, resolved, missed, syncState, job>>
  BY DEF Deliver, Remove, database
<1>2. removed \subseteq removed' /\ removed' \subseteq Message
  BY DEF Deliver, Remove, Typed, TypeOK
<1>3. /\ mailbox' \in [Accounts -> HistoryId]
      /\ \A a \in Accounts : mailbox'[a] >= mailbox[a]
  BY DEF Deliver, Remove, Typed, TypeOK, HistoryId, ConstantsAssumption
<1>4. TypeOK'
  BY <1>1, <1>2, <1>3 DEF Typed, TypeOK
<1> QED  BY <1>1, <1>2, <1>3, <1>4 DEF Typed, RequestsSound

\* Nothing changes if nothing happens.
LEMMA StutterTyped == Typed /\ UNCHANGED vars => Typed'
BY DEF vars, Typed, TypeOK, RequestsSound

\* The type invariant and the forms of the requests hold for any constants.
LEMMA TypedInvariance == Spec => []Typed
<1>1. Init => Typed
  BY InitTyped, ConstantsAssumption
<1>2. Typed /\ [Next]_vars => Typed'
  BY ConstantsAssumption, ReadOnlyTyped, CommitInitialTyped, CommitIncrementalTyped,
     CommitBatchTyped, GmailTyped, StutterTyped DEF Next, Proceed
<1> QED  BY <1>1, <1>2, PTL DEF Spec

\* Whatever overlaps and fails, the tables and the requests hold what they may, and
\* only stored mail is processed.
THEOREM SyncTypeCorrect == Spec => []TypeOK
BY TypedInvariance, PTL DEF Typed

-----------------------------------------------------------------------------
(* No mail is skipped.  NoMailSkipped is not inductive: a request that waits for its *)
(* commit holds a history id it will store.  The invariant adds what such a request  *)
(* knows: all that lies behind that id is stored already, or is among the ids it     *)
(* will store in the same transaction.                                               *)

Stored == messages \cup missed \cup removed

HistoryCovered ==
  \A r \in Requests :
    job[r].pc = "history" =>
      \A m \in Message :
        m[1] = job[r].account /\ m[2] <= Pending(r)
          => m \in Stored \cup job[r].ids

IInv == Typed /\ NoMailSkipped /\ HistoryCovered

\* The initial state satisfies the invariant.
LEMMA InitIInv == ConstantsAssumption /\ Init => IInv
<1>1. Init => NoMailSkipped /\ HistoryCovered
  BY DEF Init, NoMailSkipped, HistoryCovered, Behind, CanContinue, Idle, Request
<1> QED  BY <1>1, InitTyped DEF IInv

\* Tables only grow, so what was behind a history id stays behind it: a step that
\* leaves the sync states and the other requests alone keeps both parts.
LEMMA CoveredGrows ==
  ASSUME IInv, Stored \subseteq Stored',
         NEW r \in Requests,
         \A q \in Requests \ {r} : job'[q] = job[q],
         job'[r].pc # "history"
  PROVE  HistoryCovered'
BY DEF IInv, HistoryCovered, Pending

\* The same for the stored history ids.
LEMMA SkippedGrows ==
  ASSUME IInv, Stored \subseteq Stored', UNCHANGED syncState
  PROVE  NoMailSkipped'
BY DEF IInv, NoMailSkipped, Behind, CanContinue, Stored

\* What happens at Gmail moves no history id and only adds to the removed mail.
LEMMA GmailIInv ==
  ASSUME IInv, ConstantsAssumption,
         (\E a \in Accounts : Deliver(a)) \/ (\E m \in Message : Remove(m))
  PROVE  IInv'
<1>1. /\ Typed' /\ UNCHANGED <<messages, missed, syncState, job>>
      /\ removed \subseteq removed'
  BY GmailTyped DEF IInv
<1>2. NoMailSkipped'
  BY <1>1, SkippedGrows DEF Stored
<1>3. HistoryCovered'
  BY <1>1 DEF IInv, HistoryCovered, Pending, Stored
<1> QED  BY <1>1, <1>2, <1>3 DEF IInv

\* The steps that write no table, other than asking for the history.
LEMMA ReadOnlyIInv ==
  ASSUME IInv, ConstantsAssumption, NEW r \in Requests,
         \/ \E a \in Accounts : ListCandidates(r, a)
         \/ SelectBatch(r)
         \/ Fail(r)
  PROVE  IInv'
<1>1. /\ Typed' /\ UNCHANGED <<messages, removed, missed, syncState>>
      /\ \A q \in Requests \ {r} : job'[q] = job[q]
  BY ReadOnlyTyped DEF IInv, Start
<1>2. job'[r].pc # "history"
  BY DEF ListCandidates, SelectBatch, Fail, Idle, Request, IInv, Typed, TypeOK
<1>3. Stored' = Stored
  BY <1>1 DEF Stored
<1>4. NoMailSkipped' /\ HistoryCovered'
  BY <1>1, <1>2, <1>3, SkippedGrows, CoveredGrows
<1> QED  BY <1>1, <1>4 DEF IInv

\* Asking for the history: what the answer leaves out lies behind the id it was
\* asked with.  Here one response must hold all that was added.
LEMMA AskHistoryIInv ==
  ASSUME IInv, ConstantsAssumption, HistoryPage >= MaxMail,
         NEW r \in Requests, NEW a \in Accounts,
         AskHistory(r, a) \/ HistoryFails(r, a)
  PROVE  IInv'
<1>1. /\ Typed' /\ UNCHANGED <<messages, removed, missed, syncState>>
      /\ \A q \in Requests \ {r} : job'[q] = job[q]
  <2>1. Start(r)
    BY DEF Start
  <2> QED  BY <2>1, ReadOnlyTyped DEF IInv
<1>2. PICK start \in HistoryId : start = syncState[a].historyId
  BY DEF AskHistory, HistoryFails, CanContinue, IInv, Typed, TypeOK, SyncState
<1>3. /\ mailbox[a] \in HistoryId
      /\ \A m \in Message : m[1] = a /\ m[2] <= start => m \in Stored
  BY <1>2 DEF AskHistory, HistoryFails, CanContinue, IInv, Typed, TypeOK,
     NoMailSkipped, Behind, Stored
<1>4. /\ job'[r].account = a /\ job'[r].start = start
      /\ \/ job'[r].latest = None
         \/ job'[r].latest = mailbox[a] /\ job'[r].ids = HistoryAfter(a, start)
  <2>1. \A j : job' = [job EXCEPT ![r] = j] => job'[r] = j
    BY DEF IInv, Typed, TypeOK
  <2>2. CASE AskHistory(r, a)
    BY <1>2, <2>1, <2>2 DEF AskHistory, Request
  <2>3. CASE HistoryFails(r, a)
    BY <1>2, <2>1, <2>3 DEF HistoryFails, Request
  <2> QED  BY <2>2, <2>3
<1>5. \A m \in Message :
        m[1] = a /\ m[2] <= mailbox[a] /\ ~(m[2] <= start)
          => m \in HistoryAfter(a, start)
  BY <1>2, <1>3 DEF HistoryAfter, Received, Message, HistoryId, ConstantsAssumption
<1>6. \A m \in Message :
        m[1] = a /\ m[2] <= Pending(r)' => m \in Stored \cup job'[r].ids
  <2>1. None \notin HistoryId
    BY DEF ConstantsAssumption, HistoryId
  <2>2. Pending(r)' = IF job'[r].latest = None THEN start ELSE job'[r].latest
    BY <1>4 DEF Pending
  <2>3. CASE job'[r].latest = None
    BY <1>3, <2>2, <2>3
  <2>4. CASE job'[r].latest = mailbox[a] /\ job'[r].ids = HistoryAfter(a, start)
    BY <1>3, <1>5, <2>1, <2>2, <2>4
  <2> QED  BY <1>4, <2>3, <2>4
<1>7. Stored' = Stored
  BY <1>1 DEF Stored
<1>8. HistoryCovered'
  <2>1. \A q \in Requests \ {r} : Pending(q)' = Pending(q)
    BY <1>1 DEF Pending
  <2> QED  BY <1>1, <1>4, <1>6, <1>7, <2>1 DEF IInv, HistoryCovered
<1>9. NoMailSkipped'
  BY <1>1, <1>7, SkippedGrows
<1> QED  BY <1>1, <1>8, <1>9 DEF IInv

\* The initial sync either leaves the history id alone or records as missed what it
\* passes over.
LEMMA CommitInitialIInv ==
  ASSUME IInv, ConstantsAssumption, NEW r \in Requests, CommitInitial(r)
  PROVE  IInv'
<1>1. PICK a \in Accounts :
        /\ Typed'
        /\ messages' = messages \cup job[r].ids
        /\ missed' = missed \cup (Received(a) \ messages')
        /\ UNCHANGED <<mailbox, removed>>
        /\ \A q \in Requests \ {r} : job'[q] = job[q]
        /\ job'[r].pc = "process"
        /\ \/ syncState' = [syncState EXCEPT ![a] = [historyId |-> mailbox[a]]]
           \/ /\ syncState[a] = None
              /\ syncState' = [syncState EXCEPT ![a] = [historyId |-> None]]
           \/ syncState' = syncState
  BY CommitInitialTyped DEF IInv
<1>2. Stored \subseteq Stored' /\ Received(a) \subseteq Stored'
  BY <1>1 DEF Stored
<1>3. HistoryCovered'
  BY <1>1, <1>2, CoveredGrows
<1>4. NoMailSkipped'
  <2>1. CASE syncState' = syncState
    BY <1>2, <2>1, SkippedGrows
  <2>2. CASE syncState' # syncState
    <3>1. \A b \in Accounts \ {a} : Behind(b)' = Behind(b)
      BY <1>1 DEF Behind, CanContinue, IInv, Typed, TypeOK
    <3>2. Behind(a)' \subseteq Received(a)
      BY <1>1, <2>2 DEF Behind, CanContinue, Received, IInv, Typed, TypeOK
    <3> QED  BY <1>2, <3>1, <3>2 DEF IInv, NoMailSkipped, Stored
  <2> QED  BY <2>1, <2>2
<1> QED  BY <1>1, <1>3, <1>4 DEF IInv

\* An incremental sync stores the mail and the history id together.
LEMMA CommitIncrementalIInv ==
  ASSUME IInv, ConstantsAssumption, NEW r \in Requests, CommitIncremental(r)
  PROVE  IInv'
<1>1. PICK a \in Accounts :
        /\ Typed' /\ a = job[r].account
        /\ messages' = messages \cup job[r].ids
        /\ UNCHANGED <<removed, missed>>
        /\ \A q \in Requests \ {r} : job'[q] = job[q]
        /\ job'[r].pc = "process"
        /\ \/ syncState' = syncState
           \/ syncState' = [syncState EXCEPT ![a] = [historyId |-> Pending(r)]]
  BY CommitIncrementalTyped DEF IInv
<1>2. PICK h \in HistoryId : h = Pending(r)
  BY PendingIsId DEF CommitIncremental, IInv
<1>3. \A m \in Message : m[1] = a /\ m[2] <= h => m \in Stored \cup job[r].ids
  BY <1>1, <1>2 DEF CommitIncremental, IInv, HistoryCovered
<1>4. Stored \cup job[r].ids \subseteq Stored'
  BY <1>1 DEF Stored
<1>5. HistoryCovered'
  BY <1>1, <1>4, CoveredGrows
<1>6. NoMailSkipped'
  <2>1. CASE syncState' = syncState
    BY <1>4, <2>1, SkippedGrows
  <2>2. CASE syncState' = [syncState EXCEPT ![a] = [historyId |-> h]]
    <3>1. \A b \in Accounts \ {a} : Behind(b)' = Behind(b)
      BY <2>2 DEF Behind, CanContinue, IInv, Typed, TypeOK
    <3>2. Behind(a)' \subseteq Stored'
      BY <1>3, <1>4, <2>2 DEF Behind, CanContinue, IInv, Typed, TypeOK
    <3> QED  BY <1>4, <3>1, <3>2 DEF IInv, NoMailSkipped, Stored
  <2> QED  BY <1>1, <1>2, <2>1, <2>2
<1> QED  BY <1>1, <1>5, <1>6 DEF IInv

\* Processing stores no mail and moves no history id.
LEMMA CommitBatchIInv ==
  ASSUME IInv, ConstantsAssumption, NEW r \in Requests, CommitBatch(r)
  PROVE  IInv'
<1>1. /\ Typed' /\ UNCHANGED <<removed, messages, missed, syncState>>
      /\ \A q \in Requests \ {r} : job'[q] = job[q]
      /\ job'[r].pc = "idle"
  BY CommitBatchTyped DEF IInv
<1>2. Stored' = Stored
  BY <1>1 DEF Stored
<1>3. NoMailSkipped' /\ HistoryCovered'
  BY <1>1, <1>2, SkippedGrows, CoveredGrows
<1> QED  BY <1>1, <1>3 DEF IInv

\* The invariant holds throughout, when one response of the history call holds all
\* that was added since the history id it was asked with.
THEOREM SyncInvariance ==
  HistoryPage >= MaxMail => (Spec => []IInv)
<1> SUFFICES ASSUME HistoryPage >= MaxMail PROVE Spec => []IInv
  OBVIOUS
<1>1. Init => IInv
  BY InitIInv, ConstantsAssumption
<1>2. IInv /\ [Next]_vars => IInv'
  <2> SUFFICES ASSUME IInv, [Next]_vars PROVE IInv'
    OBVIOUS
  <2> USE ConstantsAssumption
  <2>1. CASE (\E a \in Accounts : Deliver(a)) \/ (\E m \in Message : Remove(m))
    BY <2>1, GmailIInv
  <2>2. ASSUME NEW r \in Requests, Start(r)  PROVE IInv'
    BY <2>2, ReadOnlyIInv, AskHistoryIInv DEF Start
  <2>3. ASSUME NEW r \in Requests, Proceed(r)  PROVE IInv'
    BY <2>3, CommitInitialIInv, CommitIncrementalIInv, CommitBatchIInv,
       ReadOnlyIInv DEF Proceed
  <2>4. CASE UNCHANGED vars
    BY <2>4, StutterTyped DEF vars, IInv, NoMailSkipped, Behind,
       CanContinue, HistoryCovered, Pending, Stored
  <2> QED  BY <2>1, <2>2, <2>3, <2>4 DEF Next
<1> QED  BY <1>1, <1>2, PTL DEF Spec

\* The history id never runs ahead of the mail, for any number of overlapping,
\* failing and retried syncs of any number of accounts.
THEOREM NothingSkipped ==
  HistoryPage >= MaxMail => (Spec => []NoMailSkipped)
<1> SUFFICES ASSUME HistoryPage >= MaxMail
             PROVE  Spec => []NoMailSkipped
  OBVIOUS
<1>1. Spec => []IInv
  BY SyncInvariance
<1>2. IInv => NoMailSkipped
  BY DEF IInv
<1> QED  BY <1>1, <1>2, PTL

-----------------------------------------------------------------------------
(* How often a mail is resolved.  RepeatsAreBounded is not inductive: the invariant  *)
(* counts the requests that will resolve the mail once more, and knows that a mail   *)
(* not yet processed was never resolved.                                             *)

Holders(m) == {r \in Requests : m \in job[r].batch}

Counted ==
  \A m \in Message :
    /\ m \notin processed => resolved[m] = 0
    /\ resolved[m] + Cardinality(Holders(m)) <= Cardinality(Requests)

\* The requests are finitely many, and so are those that hold a mail.
LEMMA HoldersFinite ==
  ASSUME NEW m
  PROVE  /\ IsFiniteSet(Holders(m)) /\ Cardinality(Holders(m)) \in Nat
         /\ Cardinality(Requests) \in Nat
         /\ Cardinality(Holders(m)) <= Cardinality(Requests)
<1>1. IsFiniteSet(Requests) /\ Holders(m) \subseteq Requests
  BY ConstantsAssumption DEF ConstantsAssumption, Holders
<1> QED  BY <1>1, FS_Subset, FS_CardinalityType

\* The same of the next state.
LEMMA HoldersFiniteNext ==
  ASSUME NEW m
  PROVE  /\ IsFiniteSet(Holders(m)') /\ Cardinality(Holders(m)') \in Nat
         /\ Cardinality(Holders(m)') <= Cardinality(Requests)
<1>1. IsFiniteSet(Requests) /\ Holders(m)' \subseteq Requests
  BY ConstantsAssumption DEF ConstantsAssumption, Holders
<1> QED  BY <1>1, FS_Subset, FS_CardinalityType

\* A step that resolves nothing: whoever takes a batch takes unprocessed mail.
LEMMA CountedUnlessResolved ==
  ASSUME Typed, Counted, NEW r \in Requests, UNCHANGED <<processed, resolved>>,
         \A q \in Requests \ {r} : job'[q] = job[q],
         job'[r].batch \cap processed = {}
  PROVE  Counted'
<1> SUFFICES ASSUME NEW m \in Message
             PROVE  /\ m \notin processed => resolved[m] = 0
                    /\ resolved[m] + Cardinality(Holders(m)') <= Cardinality(Requests)
  BY DEF Counted
<1>1. CASE m \in job'[r].batch
  <2>1. resolved[m] = 0
    BY <1>1 DEF Counted
  <2> QED  BY <2>1, HoldersFiniteNext
<1>2. CASE m \notin job'[r].batch
  <2>1. Holders(m)' \subseteq Holders(m)
    BY <1>2 DEF Holders
  <2>2. Cardinality(Holders(m)') <= Cardinality(Holders(m))
    BY <2>1, HoldersFinite, FS_Subset
  <2>3. resolved[m] \in Nat
    BY DEF Typed, TypeOK
  <2> QED  BY <2>2, <2>3, HoldersFinite, HoldersFiniteNext DEF Counted
<1> QED  BY <1>1, <1>2

\* A step that resolves a batch: its request holds no mail afterwards.
LEMMA CountedWhenResolved ==
  ASSUME Typed, Counted, NEW r \in Requests, CommitBatch(r)
  PROVE  Counted'
<1>1. /\ processed' = processed \cup job[r].batch
      /\ resolved' = [m \in Message |->
                        resolved[m] + IF m \in job[r].batch THEN 1 ELSE 0]
      /\ \A q \in Requests \ {r} : job'[q] = job[q]
      /\ job'[r].batch = {}
  BY ConstantsAssumption, CommitBatchTyped
<1> SUFFICES ASSUME NEW m \in Message
             PROVE  /\ m \notin processed' => resolved'[m] = 0
                    /\ resolved'[m] + Cardinality(Holders(m)') <= Cardinality(Requests)
  BY DEF Counted
<1>2. resolved[m] \in Nat
  BY DEF Typed, TypeOK
<1>3. Holders(m)' = Holders(m) \ {r}
  BY <1>1 DEF Holders
<1>4. CASE m \in job[r].batch
  <2>1. r \in Holders(m)
    BY <1>4 DEF Holders
  <2>2. Cardinality(Holders(m)') = Cardinality(Holders(m)) - 1
    BY <1>3, <2>1, HoldersFinite, FS_RemoveElement
  <2>3. resolved'[m] = resolved[m] + 1 /\ m \in processed'
    BY <1>1, <1>4
  <2> QED  BY <1>2, <2>2, <2>3, HoldersFinite DEF Counted
<1>5. CASE m \notin job[r].batch
  <2>1. Holders(m)' = Holders(m)
    BY <1>3, <1>5 DEF Holders
  <2>2. resolved'[m] = resolved[m] /\ (m \in processed' <=> m \in processed)
    BY <1>1, <1>2, <1>5
  <2> QED  BY <2>1, <2>2 DEF Counted
<1> QED  BY <1>4, <1>5

\* Every step keeps the count.
LEMMA CountedStep ==
  ASSUME Typed, Counted, [Next]_vars
  PROVE  Counted'
<1>1. ASSUME NEW r \in Requests, Start(r) \/ SelectBatch(r) \/ Fail(r)
      PROVE  Counted'
  BY <1>1, ConstantsAssumption, ReadOnlyTyped, CountedUnlessResolved
<1>2. ASSUME NEW r \in Requests, CommitInitial(r) \/ CommitIncremental(r)
      PROVE  Counted'
  <2>1. /\ UNCHANGED <<processed, resolved>> /\ job'[r].batch = {}
        /\ \A q \in Requests \ {r} : job'[q] = job[q]
    BY <1>2, ConstantsAssumption, CommitInitialTyped, CommitIncrementalTyped
  <2> QED  BY <2>1, CountedUnlessResolved
<1>3. CASE UNCHANGED <<processed, resolved, job>>
  BY <1>3 DEF Counted, Holders
<1>4. CASE UNCHANGED vars
  BY <1>3, <1>4 DEF vars
<1>5. ASSUME (\E a \in Accounts : Deliver(a)) \/ (\E m \in Message : Remove(m))
      PROVE  Counted'
  BY <1>3, <1>5, ConstantsAssumption, GmailTyped
<1> QED  BY <1>1, <1>2, <1>4, <1>5, CountedWhenResolved DEF Next, Proceed

\* However syncs overlap, fail and are retried, a mail is resolved at most once by
\* each of the requests that can be in flight together: no later sync reads it again.
THEOREM RepeatsBounded == Spec => []RepeatsAreBounded
<1>1. Init => Counted
  <2> SUFFICES ASSUME Init PROVE Counted
    OBVIOUS
  <2>1. \A m \in Message : resolved[m] = 0
    BY DEF Init
  <2> QED  BY <2>1, HoldersFinite DEF Counted
<1>2. Typed /\ Counted => RepeatsAreBounded
  <2> SUFFICES ASSUME Typed, Counted, NEW m \in Message
               PROVE  resolved[m] <= Cardinality(Requests)
    BY DEF RepeatsAreBounded
  <2>1. resolved[m] \in Nat
    BY DEF Typed, TypeOK
  <2> QED  BY <2>1, HoldersFinite DEF Counted
<1> QED  BY <1>1, <1>2, CountedStep, TypedInvariance, PTL DEF Spec

-----------------------------------------------------------------------------
(* When a stored history id goes back.  The id is never ahead of the mailbox, and    *)
(* neither is the one a request will store; which is not behind the one it read.     *)

IdsReached ==
  /\ \A a \in Accounts : CanContinue(a) => syncState[a].historyId <= mailbox[a]
  /\ \A r \in Requests :
       job[r].pc = "history" =>
         job[r].start <= Pending(r) /\ Pending(r) <= mailbox[job[r].account]

\* What a step may do to the stored ids.
StoredIdsKept ==
  \A a \in Accounts :
    CanContinue(a) =>
      /\ CanContinue(a)'
      /\ \/ syncState'[a].historyId >= syncState[a].historyId
         \/ \E r \in Requests : Overtaken(r, a)

\* The stored ids and the mailbox are numbers.
LEMMA IdsAreNumbers ==
  ASSUME Typed, NEW a \in Accounts
  PROVE  mailbox[a] \in Nat /\ (CanContinue(a) => syncState[a].historyId \in Nat)
BY ConstantsAssumption DEF Typed, TypeOK, CanContinue, SyncState, HistoryId,
   ConstantsAssumption

\* A step that leaves the stored ids alone.
LEMMA IdsUnchanged ==
  ASSUME Typed, UNCHANGED syncState
  PROVE  StoredIdsKept /\ \A a \in Accounts : CanContinue(a)' <=> CanContinue(a)
BY IdsAreNumbers DEF StoredIdsKept, CanContinue

\* A step that stores an id the mailbox has reached.
LEMMA IdStored ==
  ASSUME Typed, IdsReached, UNCHANGED mailbox,
         NEW a \in Accounts, NEW h \in HistoryId,
         syncState' = [syncState EXCEPT ![a] = [historyId |-> h]],
         h <= mailbox[a],
         CanContinue(a) =>
           syncState[a].historyId <= h \/ \E r \in Requests : Overtaken(r, a)
  PROVE  /\ StoredIdsKept
         /\ \A b \in Accounts : CanContinue(b)' => syncState'[b].historyId <= mailbox'[b]
<1>1. \A b \in Accounts :
        syncState'[b] = IF b = a THEN [historyId |-> h] ELSE syncState[b]
  BY DEF Typed, TypeOK
<1>2. /\ CanContinue(a)' /\ syncState'[a].historyId = h
      /\ \A b \in Accounts \ {a} : CanContinue(b)' <=> CanContinue(b)
  <2>1. h # None /\ [historyId |-> h] # None
    BY ConstantsAssumption DEF ConstantsAssumption, HistoryId, SyncState
  <2> QED  BY <1>1, <2>1 DEF CanContinue
<1>3. \A b \in Accounts : CanContinue(b) => syncState[b].historyId \in Nat
  BY IdsAreNumbers
<1>4. h \in Nat
  BY ConstantsAssumption DEF HistoryId, ConstantsAssumption
<1>5. StoredIdsKept
  BY <1>1, <1>2, <1>3, <1>4 DEF StoredIdsKept
<1>6. \A b \in Accounts : CanContinue(b)' => syncState'[b].historyId <= mailbox'[b]
  BY <1>1, <1>2 DEF IdsReached
<1> QED  BY <1>5, <1>6

\* A step of one request that leaves it outside a history call.
LEMMA ReachedElsewhere ==
  ASSUME Typed, IdsReached, NEW r \in Requests, UNCHANGED mailbox,
         job'[r].pc # "history",
         \A q \in Requests \ {r} : job'[q] = job[q],
         \A a \in Accounts : CanContinue(a)' => syncState'[a].historyId <= mailbox'[a]
  PROVE  IdsReached'
BY DEF IdsReached, Pending

\* What happens at Gmail only lets the mailbox grow.
LEMMA GmailKeepsIds ==
  ASSUME Typed, IdsReached,
         (\E a \in Accounts : Deliver(a)) \/ (\E m \in Message : Remove(m))
  PROVE  IdsReached' /\ StoredIdsKept
<1>1. /\ UNCHANGED <<syncState, job>>
      /\ \A a \in Accounts : mailbox'[a] >= mailbox[a]
      /\ Typed'
  BY ConstantsAssumption, GmailTyped
<1>2. StoredIdsKept /\ \A a \in Accounts : CanContinue(a)' <=> CanContinue(a)
  BY <1>1, IdsUnchanged
<1>3. \A a \in Accounts :
        /\ mailbox[a] \in Nat /\ mailbox'[a] \in Nat
        /\ CanContinue(a) => syncState[a].historyId \in Nat
  BY <1>1, IdsAreNumbers DEF Typed, TypeOK, HistoryId
<1>4. \A a \in Accounts : CanContinue(a)' => syncState'[a].historyId <= mailbox'[a]
  BY <1>1, <1>2, <1>3 DEF IdsReached
<1>5. ASSUME NEW r \in Requests, job[r].pc = "history"
      PROVE  Pending(r)' = Pending(r) /\ Pending(r) <= mailbox'[job[r].account]
  <2>1. job[r].account \in Accounts /\ Pending(r) \in Nat
    BY <1>5, ConstantsAssumption, PendingIsId
       DEF Typed, RequestsSound, HistoryId, ConstantsAssumption
  <2>2. Pending(r) <= mailbox[job[r].account]
    BY <1>5 DEF IdsReached
  <2> QED  BY <1>1, <1>3, <2>1, <2>2 DEF Pending
<1> QED  BY <1>1, <1>2, <1>4, <1>5 DEF IdsReached

\* A history call starts at the stored id and ends at it or at the current one.
LEMMA AskingKeepsIds ==
  ASSUME Typed, IdsReached, NEW r \in Requests, NEW a \in Accounts,
         AskHistory(r, a) \/ HistoryFails(r, a)
  PROVE  IdsReached' /\ StoredIdsKept
<1>1. /\ UNCHANGED <<mailbox, syncState>>
      /\ \A q \in Requests \ {r} : job'[q] = job[q]
  <2>1. Start(r)
    BY DEF Start
  <2> QED  BY <2>1, ConstantsAssumption, ReadOnlyTyped
<1>2. StoredIdsKept /\ \A b \in Accounts : CanContinue(b)' <=> CanContinue(b)
  BY <1>1, IdsUnchanged
<1>3. /\ CanContinue(a) /\ job'[r].account = a
      /\ job'[r].start = syncState[a].historyId
      /\ job'[r].latest \in {None, mailbox[a]}
  <2>1. \A j : job' = [job EXCEPT ![r] = j] => job'[r] = j
    BY DEF Typed, TypeOK
  <2>2. CASE AskHistory(r, a)
    BY <2>1, <2>2 DEF AskHistory, Request
  <2>3. CASE HistoryFails(r, a)
    BY <2>1, <2>3 DEF HistoryFails, Request
  <2> QED  BY <2>2, <2>3
<1>4. /\ syncState[a].historyId \in Nat /\ mailbox[a] \in Nat
      /\ syncState[a].historyId <= mailbox[a]
  BY <1>3, IdsAreNumbers DEF IdsReached
<1>5. job'[r].start <= Pending(r)' /\ Pending(r)' <= mailbox[a]
  BY <1>3, <1>4 DEF Pending
<1> QED  BY <1>1, <1>2, <1>3, <1>5 DEF IdsReached, Pending

\* The commit of an initial sync stores the current id or keeps the one it has.
LEMMA InitialKeepsIds ==
  ASSUME Typed, IdsReached, NEW r \in Requests, CommitInitial(r)
  PROVE  IdsReached' /\ StoredIdsKept
<1>1. PICK a \in Accounts :
        /\ UNCHANGED mailbox
        /\ job'[r].pc = "process"
        /\ \A q \in Requests \ {r} : job'[q] = job[q]
        /\ \/ syncState' = [syncState EXCEPT ![a] = [historyId |-> mailbox[a]]]
           \/ /\ syncState[a] = None
              /\ syncState' = [syncState EXCEPT ![a] = [historyId |-> None]]
           \/ syncState' = syncState
  BY ConstantsAssumption, CommitInitialTyped
<1>2. /\ StoredIdsKept
      /\ \A b \in Accounts : CanContinue(b)' => syncState'[b].historyId <= mailbox'[b]
  <2>1. CASE syncState' = [syncState EXCEPT ![a] = [historyId |-> mailbox[a]]]
    <3>1. /\ mailbox[a] \in HistoryId /\ mailbox[a] <= mailbox[a]
          /\ CanContinue(a) => syncState[a].historyId <= mailbox[a]
      BY IdsAreNumbers DEF Typed, TypeOK, IdsReached
    <3> QED  BY <1>1, <2>1, <3>1, IdStored
  <2>2. CASE /\ syncState[a] = None
             /\ syncState' = [syncState EXCEPT ![a] = [historyId |-> None]]
    <3>1. \A b \in Accounts :
            syncState'[b] = IF b = a THEN [historyId |-> None] ELSE syncState[b]
      BY <2>2 DEF Typed, TypeOK
    <3>2. ~CanContinue(a) /\ ~CanContinue(a)'
      BY <2>2, <3>1 DEF CanContinue
    <3>3. \A b \in Accounts \ {a} : CanContinue(b)' <=> CanContinue(b)
      BY <3>1 DEF CanContinue
    <3> QED  BY <1>1, <3>1, <3>2, <3>3, IdsAreNumbers DEF StoredIdsKept, IdsReached
  <2>3. CASE syncState' = syncState
    <3>1. StoredIdsKept /\ \A b \in Accounts : CanContinue(b)' <=> CanContinue(b)
      BY <2>3, IdsUnchanged
    <3> QED  BY <1>1, <2>3, <3>1 DEF IdsReached
  <2> QED  BY <1>1, <2>1, <2>2, <2>3
<1> QED  BY <1>1, <1>2, ReachedElsewhere

\* The commit of an incremental sync stores an id that is not behind the one it read:
\* where that is still the stored one, the id does not go back.
LEMMA IncrementalKeepsIds ==
  ASSUME Typed, IdsReached, NEW r \in Requests, CommitIncremental(r)
  PROVE  IdsReached' /\ StoredIdsKept
<1>1. PICK a \in Accounts :
        /\ a = job[r].account
        /\ UNCHANGED mailbox
        /\ job'[r].pc = "process"
        /\ \A q \in Requests \ {r} : job'[q] = job[q]
        /\ \/ syncState' = syncState
           \/ syncState' = [syncState EXCEPT ![a] = [historyId |-> Pending(r)]]
  BY ConstantsAssumption, CommitIncrementalTyped
<1>2. /\ StoredIdsKept
      /\ \A b \in Accounts : CanContinue(b)' => syncState'[b].historyId <= mailbox'[b]
  <2>1. CASE syncState' = syncState
    <3>1. StoredIdsKept /\ \A b \in Accounts : CanContinue(b)' <=> CanContinue(b)
      BY <2>1, IdsUnchanged
    <3> QED  BY <1>1, <2>1, <3>1 DEF IdsReached
  <2>2. CASE syncState' = [syncState EXCEPT ![a] = [historyId |-> Pending(r)]]
    <3>1. Pending(r) \in HistoryId /\ Pending(r) <= mailbox[a]
      BY <1>1, PendingIsId DEF CommitIncremental, IdsReached
    <3>2. syncState[a].historyId <= Pending(r) \/ Overtaken(r, a)
      BY <1>1 DEF CommitIncremental, IdsReached, Overtaken
    <3> QED  BY <1>1, <2>2, <3>1, <3>2, IdStored
  <2> QED  BY <1>1, <2>1, <2>2
<1> QED  BY <1>1, <1>2, ReachedElsewhere

\* Every other step of a request leaves it outside a history call.
LEMMA OtherStepsKeepIds ==
  ASSUME Typed, IdsReached, NEW r \in Requests,
         \/ \E a \in Accounts : ListCandidates(r, a)
         \/ SelectBatch(r) \/ CommitBatch(r) \/ Fail(r)
  PROVE  IdsReached' /\ StoredIdsKept
<1>1. /\ UNCHANGED <<mailbox, syncState>>
      /\ \A q \in Requests \ {r} : job'[q] = job[q]
  BY ConstantsAssumption, ReadOnlyTyped, CommitBatchTyped DEF Start
<1>2. job'[r].pc # "history"
  BY DEF ListCandidates, SelectBatch, CommitBatch, Fail, Idle, Request, Typed, TypeOK
<1>3. StoredIdsKept /\ \A b \in Accounts : CanContinue(b)' <=> CanContinue(b)
  BY <1>1, IdsUnchanged
<1>4. \A a \in Accounts : CanContinue(a)' => syncState'[a].historyId <= mailbox'[a]
  BY <1>1, <1>3 DEF IdsReached
<1> QED  BY <1>1, <1>2, <1>3, <1>4, ReachedElsewhere

\* Every step, and none at all.
LEMMA IdsStep ==
  ASSUME Typed, IdsReached, [Next]_vars
  PROVE  IdsReached' /\ StoredIdsKept
<1>1. CASE UNCHANGED vars
  <2>1. UNCHANGED <<mailbox, syncState, job>>
    BY <1>1 DEF vars
  <2>2. StoredIdsKept /\ \A a \in Accounts : CanContinue(a)' <=> CanContinue(a)
    BY <2>1, IdsUnchanged
  <2> QED  BY <2>1, <2>2 DEF IdsReached, Pending
<1> QED
  BY <1>1, GmailKeepsIds, AskingKeepsIds, InitialKeepsIds, IncrementalKeepsIds,
     OtherStepsKeepIds DEF Next, Start, Proceed

\* A stored history id is never lost, and goes back only at the commit of a sync that
\* another overtook, whatever fails and however often an initial sync is run again.
THEOREM HistoryIdKept == Spec => HistoryIdIsKept
<1>1. Init => IdsReached
  BY DEF Init, IdsReached, CanContinue, Idle, Request
<1>2. Typed /\ IdsReached /\ [Next]_vars => IdsReached'
  BY IdsStep
<1>3. Typed /\ IdsReached /\ [Next]_vars => [StoredIdsKept]_vars
  BY IdsStep
<1>4. HistoryIdIsKept <=> [][StoredIdsKept]_vars
  BY DEF HistoryIdIsKept, StoredIdsKept
<1> QED  BY <1>1, <1>2, <1>3, <1>4, TypedInvariance, PTL DEF Spec

=============================================================================
