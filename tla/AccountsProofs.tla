--------------------------- MODULE AccountsProofs ---------------------------
(***************************************************************************)
(* Proofs about Accounts, for any number of accounts, calls, flows and     *)
(* consents.  What they rest on is the life of a grant: one that is in a   *)
(* file or a call, or was deleted, has been given, so later consents       *)
(* cannot change its meaning, and its redirect is used up, so nothing but  *)
(* a file or a call can bring its token back.                              *)
(***************************************************************************)
EXTENDS Accounts, SequenceTheorems, TLAPS

\* The grants whose redirect was delivered.
Exchanged == DOMAIN granted \ redirects

\* Grants in use, and those deleted, are of that kind.
GrantsUsed ==
  /\ \A a \in Accounts : files[a] \in Grants => files[a] \in Exchanged
  /\ \A c \in Calls : call[c].grant > 0 => call[c].grant \in Exchanged
  /\ deleted \subseteq Exchanged

\* The calls that work on a token work on the token of an account, and a refresh
\* has one.
Working ==
  \A c \in Calls :
    /\ call[c].phase # "idle" => call[c].account \in Accounts
    /\ call[c].phase = "refreshing" => call[c].grant > 0

IInv == TypeOK /\ GrantsUsed /\ Working /\ OwnCredentials

-----------------------------------------------------------------------------
(* Flows and consents are only added. *)

\* What Append does to a sequence.
LEMMA AppendGrows ==
  ASSUME NEW S, NEW s \in Seq(S), NEW x \in S
  PROVE  /\ Append(s, x) \in Seq(S)
         /\ Len(Append(s, x)) = Len(s) + 1
         /\ DOMAIN Append(s, x) = DOMAIN s \cup {Len(s) + 1}
         /\ \A i \in DOMAIN s : Append(s, x)[i] = s[i]
         /\ Append(s, x)[Len(s) + 1] = x
<1>1. /\ Append(s, x) \in Seq(S)
      /\ Len(Append(s, x)) = Len(s) + 1
      /\ \A i \in 1 .. Len(s) : Append(s, x)[i] = s[i]
      /\ Append(s, x)[Len(s) + 1] = x
  BY AppendProperties
<1>2. Len(s) \in Nat /\ DOMAIN s = 1 .. Len(s)
  BY LenProperties
<1>3. DOMAIN Append(s, x) = 1 .. Len(Append(s, x))
  BY <1>1, LenProperties
<1> QED  BY <1>1, <1>2, <1>3

\* A consent names an account and a flow that was started.
LEMMA ConsentType ==
  ASSUME TypeOK, NEW g \in DOMAIN granted
  PROVE  /\ g \in Grants
         /\ granted[g] \in GrantRecord
         /\ flows[granted[g].state] \in Process
<1>1. granted \in Seq(GrantRecord) /\ flows \in Seq(Process) /\ Len(granted) <= MaxGrants
  BY DEF TypeOK
<1>2. /\ Len(granted) \in Nat /\ DOMAIN granted = 1 .. Len(granted)
      /\ granted[g] \in GrantRecord
  BY <1>1, LenProperties, ElementOfSeq
<1>3. g \in Grants
  BY <1>1, <1>2, AccountsAssumption DEF Grants
<1>4. \A i \in DOMAIN flows : flows[i] \in Process
  BY <1>1, LenProperties, ElementOfSeq
<1> QED  BY <1>2, <1>3, <1>4 DEF GrantRecord

\* start_auth_flow leaves what is known of flows and consents as it is.
LEMMA StartFlowEffect ==
  ASSUME TypeOK, NEW p \in Process, StartFlow(p), UNCHANGED granted
  PROVE  /\ flows' \in Seq(Process) /\ Len(flows') <= MaxFlows
         /\ pending' \subseteq DOMAIN flows'
         /\ granted' \in Seq(GrantRecord')
         /\ \A g \in DOMAIN granted : flows'[granted[g].state] = flows[granted[g].state]
<1>1. flows \in Seq(Process) /\ Len(flows) \in Nat
  BY LenProperties DEF TypeOK
<1>2. /\ flows' \in Seq(Process) /\ Len(flows') = Len(flows) + 1
      /\ DOMAIN flows' = DOMAIN flows \cup {Len(flows) + 1}
      /\ \A i \in DOMAIN flows : flows'[i] = flows[i]
  BY <1>1, AppendGrows DEF StartFlow
<1>3. Len(flows') <= MaxFlows
  BY <1>1, <1>2, AccountsAssumption DEF StartFlow
<1>4. pending' \subseteq DOMAIN flows'
  BY <1>2 DEF TypeOK, StartFlow
<1>5. GrantRecord \subseteq GrantRecord'
  BY <1>2 DEF GrantRecord
<1>6. granted \in Seq(GrantRecord)
  BY DEF TypeOK
<1>7. granted' \in Seq(GrantRecord')
  BY <1>5, <1>6, SeqMonotonic
<1>8. \A g \in DOMAIN granted : flows'[granted[g].state] = flows[granted[g].state]
  BY <1>2, ConsentType DEF GrantRecord
<1> QED  BY <1>2, <1>3, <1>4, <1>7, <1>8

-----------------------------------------------------------------------------
(* The actions *)

\* What Enter does to the calls, for a call on an account's token.
LEMMA EnterEffect ==
  ASSUME TypeOK, NEW c \in Calls, NEW a \in Accounts,
         NEW p \in {"refreshing", "waiting", "retrying", "authorised"},
         NEW g \in 0 .. MaxGrants, Enter(c, p, a, g)
  PROVE  /\ call' \in [Calls -> Call]
         /\ call'[c].phase = p /\ call'[c].account = a /\ call'[c].grant = g
         /\ \A d \in Calls : d # c => call'[d] = call[d]
  BY DEF TypeOK, Call, Enter

\* A new flow, started for a call or on its own.
LEMMA StartFlowIInv ==
  ASSUME IInv, NEW p \in Process, StartFlow(p),
         UNCHANGED <<files, granted, redirects, deleted>>,
         \/ UNCHANGED call
         \/ \E c \in CliCalls, a \in Accounts : Enter(c, "waiting", a, 0)
  PROVE  IInv'
<1>1. /\ call' \in [Calls -> Call]
      /\ \A c \in Calls : \/ call'[c] = call[c]
                          \/ /\ call'[c].phase = "waiting" /\ call'[c].grant = 0
                             /\ call'[c].account \in Accounts
  <2>1. CASE UNCHANGED call
    BY <2>1 DEF IInv, TypeOK
  <2>2. ASSUME NEW c \in CliCalls, NEW a \in Accounts, Enter(c, "waiting", a, 0)
        PROVE  <1>1
    <3>1. c \in Calls /\ 0 \in 0 .. MaxGrants
      BY AccountsAssumption DEF Calls
    <3> QED  BY <2>2, <3>1, EnterEffect DEF IInv
  <2> QED  BY <2>1, <2>2
<1>2. TypeOK'
  BY <1>1, StartFlowEffect DEF IInv, TypeOK
<1>3. GrantsUsed' /\ Working'
  BY <1>1 DEF IInv, GrantsUsed, Exchanged, Working
<1>4. \A g \in DOMAIN granted : flows'[granted[g].state] = flows[granted[g].state]
  BY StartFlowEffect DEF IInv
<1>5. OwnCredentials'
  BY <1>1, <1>4 DEF IInv, GrantsUsed, Exchanged, OwnCredentials, OpensOwn
<1> QED  BY <1>2, <1>3, <1>5 DEF IInv

\* A token is loaded.
LEMMA LoadTokenIInv ==
  ASSUME IInv, NEW c \in Calls, NEW a \in Accounts, LoadToken(c, a)
  PROVE  IInv'
<1>1. PICK p \in {"authorised", "refreshing"} : Enter(c, p, a, files[a])
  BY DEF LoadToken
<1>2. files[a] \in Grants /\ files[a] \in 0 .. MaxGrants /\ files[a] > 0
  BY AccountsAssumption DEF LoadToken, Grants
<1>3. /\ call' \in [Calls -> Call]
      /\ call'[c].phase = p /\ call'[c].account = a /\ call'[c].grant = files[a]
      /\ \A d \in Calls : d # c => call'[d] = call[d]
  BY <1>1, <1>2, EnterEffect DEF IInv
<1>4. TypeOK'
  BY <1>3 DEF IInv, TypeOK, LoadToken, GrantRecord
<1>5. GrantsUsed' /\ Working' /\ OwnCredentials'
  BY <1>2, <1>3
     DEF IInv, GrantsUsed, Exchanged, Working, OwnCredentials, OpensOwn, LoadToken
<1> QED  BY <1>4, <1>5 DEF IInv

\* The server saves the token of a consent.
LEMMA AuthCallbackIInv ==
  ASSUME IInv, NEW g \in redirects, AuthCallback(g)
  PROVE  IInv'
<1>1. g \in DOMAIN granted /\ g \in Grants /\ AccountOf(g) \in Accounts
  BY ConsentType DEF IInv, TypeOK, AccountOf, GrantRecord
<1>2. TypeOK'
  BY <1>1 DEF IInv, TypeOK, AuthCallback, SaveToken, GrantRecord
<1>3. GrantsUsed' /\ Working'
  BY <1>1 DEF IInv, TypeOK, GrantsUsed, Exchanged, Working, AuthCallback, SaveToken
<1>4. OwnCredentials'
  BY <1>1 DEF IInv, TypeOK, OwnCredentials, OpensOwn, AccountOf, AuthCallback, SaveToken
<1> QED  BY <1>2, <1>3, <1>4 DEF IInv

\* A token is removed.
LEMMA RemoveAccountIInv ==
  ASSUME IInv, NEW a \in Accounts, RemoveAccount(a)
  PROVE  IInv'
<1>1. TypeOK'
  BY DEF IInv, TypeOK, RemoveAccount, GrantRecord
<1>2. GrantsUsed' /\ Working' /\ OwnCredentials'
  BY AccountsAssumption
     DEF IInv, TypeOK, GrantsUsed, Exchanged, Working, OwnCredentials, OpensOwn, RemoveAccount
<1> QED  BY <1>1, <1>2 DEF IInv

\* A refreshed token is written back.
LEMMA RefreshDoneIInv ==
  ASSUME IInv, NEW c \in Calls, RefreshDone(c)
  PROVE  IInv'
<1> DEFINE a == call[c].account
           g == call[c].grant
<1>1. /\ a \in Accounts /\ g \in 0 .. MaxGrants /\ g \in Grants
      /\ call[c].phase = "refreshing"
  BY AccountsAssumption DEF IInv, TypeOK, Call, Working, RefreshDone, At, Grants
<1>2. /\ call' \in [Calls -> Call]
      /\ call'[c].phase = "authorised" /\ call'[c].account = a /\ call'[c].grant = g
      /\ \A d \in Calls : d # c => call'[d] = call[d]
  BY <1>1, EnterEffect DEF IInv, RefreshDone
<1>3. files' = [files EXCEPT ![a] = g] /\ UNCHANGED <<flows, pending, granted, redirects, deleted>>
  BY DEF RefreshDone, SaveToken
<1> HIDE DEF a, g
<1>4. TypeOK'
  BY <1>1, <1>2, <1>3 DEF IInv, TypeOK, GrantRecord
<1>5. g \in Exchanged /\ OpensOwn(a, g)
  BY <1>1, AccountsAssumption DEF IInv, GrantsUsed, OwnCredentials, Grants, a, g
<1>6. GrantsUsed' /\ Working' /\ OwnCredentials'
  BY <1>1, <1>2, <1>3, <1>5
     DEF IInv, TypeOK, GrantsUsed, Exchanged, Working, OwnCredentials, OpensOwn
<1> QED  BY <1>4, <1>6 DEF IInv

\* A call, or all the server's calls, end; what they leave on disk is torn at worst.
LEMMA CallsEndIInv ==
  ASSUME IInv,
         pending' \subseteq pending, UNCHANGED <<flows, granted, deleted>>,
         call' \in [Calls -> Call],
         \A c \in Calls : call'[c] = call[c] \/ call'[c] = Idle,
         \/ UNCHANGED <<files, redirects>>
         \/ \E c \in Calls : TornByRefresh(c)
         \/ \E a \in Accounts, g \in redirects : TornByRedirect(a, g)
  PROVE  IInv'
<1>1. \A c \in Calls : call'[c] = call[c] \/ (call'[c].phase = "idle" /\ call'[c].grant = 0)
  BY DEF Idle
<1>2. /\ files' \in [Accounts -> Grants \cup {None, Torn}]
      /\ redirects' \subseteq redirects
      /\ \A a \in Accounts : files'[a] = files[a] \/ files'[a] = Torn
  <2>1. CASE UNCHANGED <<files, redirects>>
    BY <2>1 DEF IInv, TypeOK
  <2>2. ASSUME NEW c \in Calls, TornByRefresh(c)
        PROVE  <1>2
    BY <2>2 DEF IInv, TypeOK, TornByRefresh, SaveToken
  <2>3. ASSUME NEW b \in Accounts, NEW g \in redirects, TornByRedirect(b, g)
        PROVE  <1>2
    BY <2>3 DEF IInv, TypeOK, TornByRedirect, SaveToken
  <2> QED  BY <2>1, <2>2, <2>3
<1>3. TypeOK'
  BY <1>2 DEF IInv, TypeOK, GrantRecord
<1>4. \A a \in Accounts : files'[a] \in Grants => files'[a] = files[a]
  BY <1>2, AccountsAssumption
<1>5. GrantsUsed'
  BY <1>1, <1>2, <1>4 DEF IInv, GrantsUsed, Exchanged
<1>6. Working'
  BY <1>1 DEF IInv, Working
<1>7. OwnCredentials'
  <2>1. \A a, g : OpensOwn(a, g)' <=> OpensOwn(a, g)
    BY DEF OpensOwn
  <2>2. ASSUME NEW a \in Accounts, files'[a] \in Grants
        PROVE  OpensOwn(a, files'[a])
    BY <1>4, <2>2 DEF IInv, OwnCredentials
  <2>3. ASSUME NEW c \in Calls, call'[c].grant > 0
        PROVE  OpensOwn(call'[c].account, call'[c].grant)
    BY <1>1, <2>3 DEF IInv, OwnCredentials
  <2> QED  BY <2>1, <2>2, <2>3 DEF OwnCredentials
<1> QED  BY <1>3, <1>5, <1>6, <1>7 DEF IInv

\* The command line gets a redirect: its own, or one it does not know.
LEMMA CliCallbackIInv ==
  ASSUME IInv, NEW c \in CliCalls, NEW g \in redirects, CliCallback(c, g)
  PROVE  IInv'
<1> DEFINE a == call[c].account
<1>1. /\ c \in Calls /\ a \in Accounts /\ g \in DOMAIN granted /\ g \in Grants
      /\ 0 \in 0 .. MaxGrants /\ call[c].phase = "waiting"
  BY ConsentType, AccountsAssumption
     DEF IInv, TypeOK, Calls, Working, CliCallback, At
<1>2. /\ UNCHANGED <<flows, granted, deleted>> /\ pending' \subseteq pending
      /\ redirects' = redirects \ {g} /\ GrantRecord' = GrantRecord
  BY DEF CliCallback, GrantRecord
<1>3. CASE UNCHANGED files /\ call' = [call EXCEPT ![c] = Idle]
  <2>1. /\ call' \in [Calls -> Call]
        /\ \A d \in Calls : \/ call'[d] = call[d]
                            \/ call'[d].phase = "idle" /\ call'[d].grant = 0
    BY <1>1, <1>3, AccountsAssumption DEF IInv, TypeOK, Idle, Call
  <2>2. TypeOK'
    BY <1>2, <1>3, <2>1 DEF IInv, TypeOK
  <2>3. GrantsUsed' /\ Working' /\ OwnCredentials'
    BY <1>2, <1>3, <2>1
       DEF IInv, GrantsUsed, Exchanged, Working, OwnCredentials, OpensOwn
  <2> QED  BY <2>2, <2>3 DEF IInv
<1>4. CASE SaveToken(a, g) /\ Enter(c, "retrying", a, 0)
  <2>1. /\ call' \in [Calls -> Call]
        /\ call'[c].phase = "retrying" /\ call'[c].account = a /\ call'[c].grant = 0
        /\ \A d \in Calls : d # c => call'[d] = call[d]
    BY <1>1, <1>4, EnterEffect DEF IInv
  <2>2. files' = [files EXCEPT ![a] = g]
    BY <1>4 DEF SaveToken
  <2>3. OpensOwn(a, g)
    BY DEF CliCallback, OpensOwn
  <2> HIDE DEF a
  <2>4. TypeOK'
    BY <1>1, <1>2, <1>4, <2>1, <2>2 DEF IInv, TypeOK
  <2>5. \A b \in Accounts : files'[b] = IF b = a THEN g ELSE files[b]
    BY <1>1, <2>2 DEF IInv, TypeOK
  <2>6. g \in Exchanged' /\ Exchanged \subseteq Exchanged'
    BY <1>1, <1>2 DEF Exchanged
  <2>7. GrantsUsed'
    BY <1>1, <1>2, <2>1, <2>5, <2>6 DEF IInv, GrantsUsed
  <2>8. Working'
    BY <1>1, <2>1 DEF IInv, Working
  <2>9. \A b, h : OpensOwn(b, h)' <=> OpensOwn(b, h)
    BY <1>2 DEF OpensOwn
  <2>10. \A b \in Accounts : files'[b] \in Grants => OpensOwn(b, files'[b])
    BY <2>3, <2>5 DEF IInv, OwnCredentials
  <2>11. \A d \in Calls : call'[d].grant > 0 => OpensOwn(call'[d].account, call'[d].grant)
    BY <2>1 DEF IInv, OwnCredentials
  <2>12. OwnCredentials'
    BY <2>9, <2>10, <2>11 DEF OwnCredentials
  <2> QED  BY <2>4, <2>7, <2>8, <2>12 DEF IInv
<1> QED  BY <1>3, <1>4 DEF CliCallback

\* A consent is given.
LEMMA ConsentIInv ==
  ASSUME IInv, NEW s \in DOMAIN flows, NEW a \in Accounts, Consent(s, a)
  PROVE  IInv'
<1>1. PICK new \in GrantRecord : granted' = Append(granted, new)
  BY DEF Consent, GrantRecord
<1>2. /\ granted \in Seq(GrantRecord) /\ GrantRecord' = GrantRecord
      /\ UNCHANGED <<files, flows, pending, call, deleted>>
  BY DEF IInv, TypeOK, Consent, GrantRecord
<1>3. /\ granted' \in Seq(GrantRecord) /\ Len(granted') = Len(granted) + 1
      /\ DOMAIN granted' = DOMAIN granted \cup {Len(granted) + 1}
      /\ \A g \in DOMAIN granted : granted'[g] = granted[g]
  BY <1>1, <1>2, AppendGrows
<1>4. Len(granted) \in Nat
  BY <1>1, LenProperties
<1>5. TypeOK'
  BY <1>2, <1>3, <1>4, AccountsAssumption DEF IInv, TypeOK, Consent
<1>6. Exchanged' = Exchanged /\ Exchanged \subseteq DOMAIN granted
  <2>1. Len(granted) + 1 \notin DOMAIN granted
    BY <1>2, <1>4, LenProperties
  <2> QED  BY <1>3, <2>1 DEF Consent, Exchanged, IInv, TypeOK
<1>7. GrantsUsed' /\ Working' /\ OwnCredentials'
  BY <1>2, <1>3, <1>6 DEF IInv, GrantsUsed, Working, OwnCredentials, OpensOwn
<1> QED  BY <1>5, <1>7 DEF IInv

-----------------------------------------------------------------------------
(* A deleted token.  Its redirect is used up, so once no file holds it and no refresh *)
(* has read it, no step finds it.                                                    *)

\* Where the new tokens of a step come from: a redirect, or a refresh that is out.
LEMMA TokenOrigins ==
  ASSUME IInv, Next, NEW a \in Accounts, files'[a] \in Grants, files'[a] # files[a]
  PROVE  \/ files'[a] \in redirects
         \/ \E c \in Calls : At(c, "refreshing") /\ files'[a] = call[c].grant
<1> USE AccountsAssumption
<1>1. files \in [Accounts -> Grants \cup {None, Torn}] /\ CliCalls \subseteq Calls
  BY DEF IInv, TypeOK, Calls
<1>2. CASE \E g \in redirects : AuthCallback(g)
  BY <1>1, <1>2 DEF AuthCallback, SaveToken
<1>3. CASE \E c \in CliCalls, g \in redirects : CliCallback(c, g)
  BY <1>1, <1>3 DEF CliCallback, SaveToken
<1>4. CASE \E c \in Calls : RefreshDone(c)
  BY <1>1, <1>4 DEF RefreshDone, SaveToken
<1>5. CASE \E b \in Accounts : RemoveAccount(b)
  BY <1>1, <1>5 DEF RemoveAccount
<1>6. CASE RestartServer \/ \E c \in CliCalls : KillCli(c)
  BY <1>1, <1>6 DEF RestartServer, KillCli, TornByRefresh, TornByRedirect, SaveToken
<1>7. CASE UNCHANGED files
  BY <1>7
<1> QED
  BY <1>2, <1>3, <1>4, <1>5, <1>6, <1>7
     DEF Next, Connect, WebSync, CliSync, LoadToken, CliRetry, CliTimeout, EndCall, Consent

\* Where a refresh comes from: it was out, or reads a file.
LEMMA RefreshOrigins ==
  ASSUME IInv, Next, NEW c \in Calls, At(c, "refreshing")'
  PROVE  \/ At(c, "refreshing") /\ call'[c].grant = call[c].grant
         \/ \E a \in Accounts : call'[c].grant = files[a]
<1>1. /\ call \in [Calls -> Call] /\ CliCalls \subseteq Calls /\ WebCalls \subseteq Calls
      /\ Idle.phase = "idle"
  BY DEF IInv, TypeOK, Calls, Idle
<1>2. \A d \in Calls : \A b, p, g : Enter(d, p, b, g) =>
        /\ call'[d].phase = p /\ call'[d].grant = g
        /\ \A e \in Calls : e # d => call'[e] = call[e]
  BY <1>1 DEF Enter
<1>3. ASSUME NEW d \in Calls, NEW b \in Accounts, LoadToken(d, b)
      PROVE  call'[c] = call[c] \/ call'[c].grant = files[b]
  BY <1>2, <1>3 DEF LoadToken
<1>4. ASSUME NEW d \in CliCalls, NEW b \in Accounts, CliSync(d, b)
      PROVE  call'[c] = call[c] \/ call'[c].grant = files[b]
  BY <1>1, <1>2, <1>3, <1>4 DEF CliSync, At
<1>5. ASSUME NEW d \in WebCalls, NEW b \in Accounts, WebSync(d, b)
      PROVE  call'[c] = call[c] \/ call'[c].grant = files[b]
  BY <1>1, <1>3, <1>5 DEF WebSync
<1>6. ASSUME NEW d \in CliCalls, CliRetry(d)
      PROVE  \E b \in Accounts : call'[c] = call[c] \/ call'[c].grant = files[b]
  <2>1. call[d].account \in Accounts
    BY <1>1, <1>6 DEF CliRetry, At, IInv, Working
  <2> QED  BY <1>1, <1>3, <1>6, <2>1 DEF CliRetry
<1>7. ASSUME NEW d \in CliCalls, NEW g \in redirects, CliCallback(d, g)
      PROVE  call'[c] = call[c]
  BY <1>1, <1>2, <1>7 DEF CliCallback, At
<1>8. ASSUME NEW d \in Calls, RefreshDone(d)  PROVE call'[c] = call[c]
  BY <1>2, <1>8 DEF RefreshDone, At
<1>9. CASE RestartServer \/ \E d \in CliCalls : KillCli(d) \/ CliTimeout(d)
  BY <1>1, <1>9 DEF RestartServer, KillCli, CliTimeout, At
<1>10. CASE \E d \in Calls : EndCall(d)
  BY <1>1, <1>10 DEF EndCall, At
<1>11. CASE UNCHANGED call
  BY <1>11 DEF At
<1> QED
  BY <1>4, <1>5, <1>6, <1>7, <1>8, <1>9, <1>10, <1>11
     DEF Next, Connect, AuthCallback, RemoveAccount, Consent, At

\* So a lost token stays lost.
LEMMA LostStays ==
  ASSUME IInv, [Next]_vars, NEW g \in deleted, Lost(g)
  PROVE  Lost(g)'
<1>1. CASE UNCHANGED vars
  BY <1>1 DEF vars, Lost, At
<1>2. CASE Next
  <2>1. g \in Grants /\ g \notin redirects
    BY DEF IInv, TypeOK, GrantsUsed, Exchanged
  <2>2. \A a \in Accounts : files'[a] # g
    BY <1>2, <2>1, TokenOrigins DEF Lost
  <2>3. \A c \in Calls : At(c, "refreshing")' => call'[c].grant # g
    BY <1>2, RefreshOrigins DEF Lost
  <2> QED  BY <2>2, <2>3 DEF Lost
<1> QED  BY <1>1, <1>2

-----------------------------------------------------------------------------
(* The theorems *)

\* The invariant holds throughout, for every set of accounts and of calls.
THEOREM AccountsInvariance == Spec => []IInv
<1>1. Init => IInv
  BY AccountsAssumption, EmptySeq
     DEF Init, IInv, TypeOK, GrantsUsed, Exchanged, Working, OwnCredentials, Idle, Call
<1>2. IInv /\ [Next]_vars => IInv'
  <2> SUFFICES ASSUME IInv, [Next]_vars PROVE IInv'
    OBVIOUS
  <2>0. Idle \in Call /\ call \in [Calls -> Call] /\ CliCalls \subseteq Calls
    BY AccountsAssumption DEF IInv, TypeOK, Idle, Call, Calls
  <2>1. CASE Connect
    BY <2>1, StartFlowIInv DEF Connect, Process
  <2>2. CASE \E g \in redirects : AuthCallback(g)
    BY <2>2, AuthCallbackIInv
  <2>3. CASE \E a \in Accounts : RemoveAccount(a)
    BY <2>3, RemoveAccountIInv
  <2>4. ASSUME NEW c \in WebCalls, NEW a \in Accounts, WebSync(c, a)  PROVE IInv'
    BY <2>4, LoadTokenIInv, StartFlowIInv DEF WebSync, Process, Calls
  <2>5. ASSUME NEW c \in CliCalls, NEW a \in Accounts, CliSync(c, a)  PROVE IInv'
    BY <2>0, <2>5, LoadTokenIInv, StartFlowIInv DEF CliSync, Process
  <2>6. CASE \E c \in Calls : RefreshDone(c)
    BY <2>6, RefreshDoneIInv
  <2>7. CASE \E c \in CliCalls, g \in redirects : CliCallback(c, g)
    BY <2>7, CliCallbackIInv
  <2>8. ASSUME NEW c \in CliCalls, CliRetry(c)  PROVE IInv'
    <3>1. call[c].account \in Accounts
      BY <2>0, <2>8 DEF CliRetry, At, IInv, Working
    <3> QED  BY <2>0, <2>8, <3>1, LoadTokenIInv DEF CliRetry
  <2>9. ASSUME NEW c \in CliCalls, CliTimeout(c)  PROVE IInv'
    BY <2>0, <2>9, CallsEndIInv DEF CliTimeout
  <2>10. ASSUME NEW c \in Calls, EndCall(c)  PROVE IInv'
    BY <2>0, <2>10, CallsEndIInv DEF EndCall
  <2>11. CASE \E s \in DOMAIN flows, a \in Accounts : Consent(s, a)
    BY <2>11, ConsentIInv
  <2>12. CASE RestartServer
    <3>1. \A g \in redirects : AccountOf(g) \in Accounts
      BY ConsentType DEF IInv, TypeOK, AccountOf, GrantRecord
    <3> QED  BY <2>0, <2>12, <3>1, CallsEndIInv DEF RestartServer, Calls
  <2>13. ASSUME NEW c \in CliCalls, KillCli(c)  PROVE IInv'
    <3>1. call[c].phase \in {"refreshing", "waiting"} => call[c].account \in Accounts
      BY <2>0 DEF IInv, Working
    <3> QED  BY <2>0, <2>13, <3>1, CallsEndIInv DEF KillCli, At
  <2>14. CASE UNCHANGED vars
    BY <2>14 DEF vars, IInv, TypeOK, GrantRecord, GrantsUsed, Exchanged, Working,
                 OwnCredentials, OpensOwn
  <2> QED  BY <2>1, <2>2, <2>3, <2>4, <2>5, <2>6, <2>7, <2>8, <2>9, <2>10, <2>11,
              <2>12, <2>13, <2>14 DEF Next
<1> QED  BY <1>1, <1>2, PTL DEF Spec

\* Files, flows and calls hold what they may hold.
THEOREM AccountsTypeCorrect == Spec => []TypeOK
<1>1. IInv => TypeOK
  BY DEF IInv
<1> QED  BY <1>1, AccountsInvariance, PTL

\* Nothing but a refresh that had read it before brings a removed token back: no call
\* that still runs with it, no retry, redirect, crash or restart.
THEOREM RemovalLasts == Spec => RemovalIsFinal
<1>1. IInv /\ [Next]_vars
        => [\A g \in deleted : Lost(g) => Lost(g)']_vars
  BY LostStays
<1> QED  BY <1>1, AccountsInvariance, PTL DEF Spec, RemovalIsFinal

\* No file and no call holds a grant of another account's mailbox, unless it was
\* consented to for the command line.
THEOREM CredentialsNotMixed == Spec => []OwnCredentials
<1>1. IInv => OwnCredentials
  BY DEF IInv
<1> QED  BY <1>1, AccountsInvariance, PTL

=============================================================================
