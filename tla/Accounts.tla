------------------------------ MODULE Accounts ------------------------------
(***************************************************************************)
(* gmail/auth.py with its callers in api/routes_sync.py and cli.py: token  *)
(* files on disk, authorisation flows in the memory of the process that    *)
(* started them, and the calls that refresh a token before they read mail. *)
(*                                                                         *)
(* The server runs its requests in threads; each run of the command line   *)
(* is a process with flows of its own, and all of them share one callback  *)
(* port.  Consent and the browser's redirects happen at Google and in the  *)
(* user's hands: a redirect may come late, or never, and any exchange with *)
(* Google may fail (the consent was withdrawn, the network is down).       *)
(***************************************************************************)
EXTENDS Naturals, Sequences, FiniteSets

CONSTANTS
  None,       \* no file
  Torn,       \* the content of a file whose writer died inside write_text
  Accounts,   \* Gmail addresses; their hashes, the file names, do not collide
  WebCalls,   \* sync requests the server handles at a time
  CliCalls,   \* runs of `parsli sync`
  MaxFlows,   \* bound: authorisation flows ever started
  MaxGrants   \* bound: consents ever given

Calls   == WebCalls \cup CliCalls
Grants  == 1 .. MaxGrants
Process == {"server"} \cup CliCalls

ASSUME AccountsAssumption ==
  /\ WebCalls \cap CliCalls = {}
  /\ "server" \notin CliCalls
  /\ MaxFlows \in Nat /\ MaxGrants \in Nat
  /\ None \notin Accounts /\ None \notin Grants
  /\ Torn \notin Grants /\ Torn # None

VARIABLES
  files,      \* the token file of each account: a grant, Torn, or None
  flows,      \* the process that started each flow; the index is its state
  pending,    \* _pending_flows of all processes: the states not popped yet
  granted,    \* consents given at Google: mailbox, state of the flow, and whether
              \* the token comes with a refresh token
  redirects,  \* grants whose redirect the browser has not delivered
  call,       \* what each sync call is doing
  deleted     \* history: grants whose token the removal of an account deleted

vars == <<files, flows, pending, granted, redirects, call, deleted>>

Idle == [phase |-> "idle", account |-> None, grant |-> 0]

At(c, p) == call[c].phase = p

\* Faulty variant: the address of the consent given last.
LastAccount(g) == granted[Len(granted)].mailbox

\* The mailbox a grant opens: getProfile answers with its address.
AccountOf(g) == granted[g].mailbox

Init ==
  /\ files = [a \in Accounts |-> None]
  /\ flows = << >>
  /\ pending = {}
  /\ granted = << >>
  /\ redirects = {}
  /\ call = [c \in Calls |-> Idle]
  /\ deleted = {}

-----------------------------------------------------------------------------
(* Token files and flows *)

SaveToken(a, g) == files' = [files EXCEPT ![a] = g]

\* Faulty variant: the state handed to Google is not the one remembered.
StartFlowAnyway(p) ==
  /\ Len(flows) < MaxFlows
  /\ flows' = Append(flows, p)
  /\ pending' = pending \cup {Len(flows) + 2}

\* start_auth_flow
StartFlow(p) ==
  /\ Len(flows) < MaxFlows
  /\ flows' = Append(flows, p)
  /\ pending' = pending \cup {Len(flows) + 1}

FlowsOf(p) == {s \in pending : flows[s] = p}

\* POST /accounts/connect
Connect ==
  /\ StartFlow("server")
  /\ UNCHANGED <<files, granted, redirects, call, deleted>>

\* GET /auth/callback: the flow is popped first, so an exchange that fails has
\* used it up; the token is saved under the address Google names.
AuthCallback(g) ==
  /\ g \in redirects
  /\ flows[granted[g].state] = "server"
  /\ redirects' = redirects \ {g}
  /\ pending' = pending \ {granted[g].state}
  /\ \/ /\ granted[g].state \in pending
        /\ SaveToken(AccountOf(g), g)
     \/ UNCHANGED files
  /\ UNCHANGED <<flows, granted, call, deleted>>

\* DELETE /accounts/{account_id}
RemoveAccount(a) ==
  /\ files' = [files EXCEPT ![a] = None]
  /\ deleted' = deleted \cup (Grants \cap {files[a]})
  /\ UNCHANGED <<flows, pending, granted, redirects, call>>

-----------------------------------------------------------------------------
(* refresh_if_needed, the first thing a sync does *)

Enter(c, p, a, g) ==
  call' = [call EXCEPT ![c] = [phase |-> p, account |-> a, grant |-> g]]

\* A token is there: good for now, or expired and sent to Google.  A file that is
\* torn raises ValueError: the call ends with nothing changed.
LoadToken(c, a) ==
  /\ files[a] \in Grants
  /\ \E p \in {"authorised", "refreshing"} :
       /\ p = "refreshing" => granted[files[a]].renewable
       /\ Enter(c, p, a, files[a])
  /\ UNCHANGED <<files, flows, pending, granted, redirects, deleted>>

\* TokenMissingError: there is no token, or it expired and cannot be refreshed.
TokenMissing(a) ==
  \/ files[a] = None
  \/ files[a] \in Grants /\ ~granted[files[a]].renewable

\* POST /sync/...: a missing token is answered with 401 and a new flow.
WebSync(c, a) ==
  /\ At(c, "idle")
  /\ \/ LoadToken(c, a)
     \/ /\ TokenMissing(a)
        /\ StartFlow("server")
        /\ UNCHANGED <<files, granted, redirects, call, deleted>>

\* parsli sync: a missing token opens the browser, if the callback port is free.
CliSync(c, a) ==
  /\ At(c, "idle")
  /\ \/ LoadToken(c, a)
     \/ /\ TokenMissing(a)
        /\ ~\E d \in CliCalls : At(d, "waiting")
        /\ StartFlow(c)
        /\ Enter(c, "waiting", a, 0)
        /\ UNCHANGED <<files, granted, redirects, deleted>>

\* The token Google has refreshed is written back, whatever happened to the file
\* meanwhile.
RefreshDone(c) ==
  /\ At(c, "refreshing")
  /\ SaveToken(call[c].account, call[c].grant)
  /\ Enter(c, "authorised", call[c].account, call[c].grant)
  /\ UNCHANGED <<flows, pending, granted, redirects, deleted>>

\* Faulty variant: a call that ends regularly saves the credentials it worked with.
EndCallSaves(c) ==
  /\ call[c].phase \notin {"idle", "waiting"}
  /\ IF At(c, "authorised") THEN SaveToken(call[c].account, call[c].grant)
     ELSE UNCHANGED files
  /\ call' = [call EXCEPT ![c] = Idle]
  /\ pending' = pending \ IF c \in CliCalls THEN FlowsOf(c) ELSE {}
  /\ UNCHANGED <<flows, granted, redirects, deleted>>

\* The call ends: at its regular end, or with RefreshError, TransportError or any
\* error of what follows.
EndCall(c) ==
  /\ call[c].phase \notin {"idle", "waiting"}
  /\ call' = [call EXCEPT ![c] = Idle]
  /\ pending' = pending \ IF c \in CliCalls THEN FlowsOf(c) ELSE {}
  /\ UNCHANGED <<files, flows, granted, redirects, deleted>>

\* _CallbackHandler.do_GET: whichever process listens on the port gets the redirect.
\* The token is saved under the account of the command line.
CliCallback(c, g) ==
  /\ At(c, "waiting")
  /\ g \in redirects
  /\ flows[granted[g].state] \in CliCalls
  /\ redirects' = redirects \ {g}
  /\ \/ /\ granted[g].state \in FlowsOf(c)
        /\ pending' = pending \ {granted[g].state}
        /\ SaveToken(call[c].account, g)
        /\ Enter(c, "retrying", call[c].account, 0)
     \/ /\ pending' = pending \ FlowsOf(c)
        /\ call' = [call EXCEPT ![c] = Idle]
        /\ UNCHANGED files
  /\ UNCHANGED <<flows, granted, deleted>>

\* Retry once; a token missing again ends the command, which is EndCall.
CliRetry(c) ==
  /\ At(c, "retrying")
  /\ LoadToken(c, call[c].account)

\* Timed out waiting for browser authorization (120 s).
CliTimeout(c) ==
  /\ At(c, "waiting")
  /\ call' = [call EXCEPT ![c] = Idle]
  /\ pending' = pending \ FlowsOf(c)
  /\ UNCHANGED <<files, flows, granted, redirects, deleted>>

-----------------------------------------------------------------------------
(* Google, the browser, and crashes *)

\* The user opens the URL of a flow, which stays usable, and lets Parsli read one of
\* their mailboxes.
Consent(s, a) ==
  /\ Len(granted) < MaxGrants
  /\ \E renewable \in BOOLEAN :
       granted' = Append(granted, [mailbox |-> a, state |-> s, renewable |-> renewable])
  /\ redirects' = redirects \cup {Len(granted) + 1}
  /\ UNCHANGED <<files, flows, pending, call, deleted>>

\* A process dies inside save_token, write_text having emptied the file: on the way
\* of a refresh, or of a redirect, which is then used up.
TornByRefresh(c) ==
  /\ At(c, "refreshing")
  /\ SaveToken(call[c].account, Torn)
  /\ UNCHANGED redirects

TornByRedirect(a, g) ==
  /\ granted[g].state \in pending
  /\ SaveToken(a, Torn)
  /\ redirects' = redirects \ {g}

\* The server stops, in the worst case inside a save_token, and starts again.
RestartServer ==
  /\ \/ UNCHANGED <<files, redirects>>
     \/ \E c \in WebCalls : TornByRefresh(c)
     \/ \E g \in redirects : /\ flows[granted[g].state] = "server"
                             /\ TornByRedirect(AccountOf(g), g)
  /\ pending' = pending \ FlowsOf("server")
  /\ call' = [c \in Calls |-> IF c \in WebCalls THEN Idle ELSE call[c]]
  /\ UNCHANGED <<flows, granted, deleted>>

\* A command line run is killed inside a save_token.
KillCli(c) ==
  /\ \/ TornByRefresh(c)
     \/ \E g \in redirects : /\ At(c, "waiting") /\ flows[granted[g].state] = c
                             /\ TornByRedirect(call[c].account, g)
  /\ call' = [call EXCEPT ![c] = Idle]
  /\ pending' = pending \ FlowsOf(c)
  /\ UNCHANGED <<flows, granted, deleted>>

Next ==
  \/ Connect
  \/ \E g \in redirects : AuthCallback(g)
  \/ \E a \in Accounts : RemoveAccount(a)
  \/ \E c \in WebCalls, a \in Accounts : WebSync(c, a)
  \/ \E c \in CliCalls, a \in Accounts : CliSync(c, a)
  \/ \E c \in Calls : RefreshDone(c)
  \/ \E c \in CliCalls, g \in redirects : CliCallback(c, g)
  \/ \E c \in CliCalls : CliRetry(c)
  \/ \E c \in CliCalls : CliTimeout(c)
  \/ \E c \in Calls : EndCall(c)
  \/ \E s \in DOMAIN flows, a \in Accounts : Consent(s, a)
  \/ RestartServer
  \/ \E c \in CliCalls : KillCli(c)

Spec == Init /\ [][Next]_vars

-----------------------------------------------------------------------------
(* Properties *)

Call ==
  [ phase: {"idle", "refreshing", "waiting", "retrying", "authorised"},
    account: Accounts \cup {None}, grant: 0 .. MaxGrants ]

GrantRecord == [mailbox: Accounts, state: DOMAIN flows, renewable: BOOLEAN]

\* The files, the flows and the calls hold what they may hold.
TypeOK ==
  /\ files \in [Accounts -> Grants \cup {None, Torn}]
  /\ flows \in Seq(Process) /\ Len(flows) <= MaxFlows
  /\ pending \subseteq DOMAIN flows
  /\ granted \in Seq(GrantRecord)
  /\ Len(granted) <= MaxGrants
  /\ redirects \subseteq DOMAIN granted
  /\ call \in [Calls -> Call]
  /\ deleted \subseteq Grants

\* The token of a removed account is in no file, and no refresh that read it is out.
Lost(g) ==
  /\ \A a \in Accounts : files[a] # g
  /\ \A c \in Calls : At(c, "refreshing") => call[c].grant # g

\* A token that was removed comes back through a refresh that had read it before, and
\* through nothing else: once none is out, no call still running with it, no retry,
\* redirect or restart brings it back.
RemovalIsFinal == [][\A g \in deleted : Lost(g) => Lost(g)']_vars

OpensOwn(a, g) == granted[g].mailbox = a \/ flows[granted[g].state] \in CliCalls

\* A token file, and a call that runs with what it read there, opens the mailbox of
\* its own account, unless the consent was given to the command line: no crossing of
\* flows, late redirects and refreshes mixes two accounts.
OwnCredentials ==
  /\ \A a \in Accounts : files[a] \in Grants => OpensOwn(a, files[a])
  /\ \A c \in Calls : call[c].grant > 0 => OpensOwn(call[c].account, call[c].grant)

\* A token file opens the mailbox it is named after.
TokensAreOwn ==
  \A a \in Accounts : files[a] \in Grants => granted[files[a]].mailbox = a

=============================================================================
