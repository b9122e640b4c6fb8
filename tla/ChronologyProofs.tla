--------------------------- MODULE ChronologyProofs ---------------------------
(***************************************************************************)
(* Proofs about the orders the code sorts and walks by.  The modules pick  *)
(* the first of something with CHOOSE, which says nothing until a least    *)
(* element is known to exist.  From that follow what the latest event of a *)
(* set is, and what select_current_status and check_chronology return for  *)
(* every set of events, however many.                                      *)
(*                                                                         *)
(* Where a proof goes by induction on the events, it takes a smallest set  *)
(* for which the claim fails, and shows that it holds there.               *)
(***************************************************************************)
EXTENDS Chronology, FiniteSetTheorems, WellFoundedInduction, TLAPS

-----------------------------------------------------------------------------
(* Least elements *)

\* A non-empty set of naturals has a least element.
LEMMA LeastNat ==
  ASSUME NEW T, T \subseteq Nat, T # {}
  PROVE  \E n \in T : \A m \in T : n <= m
<1> DEFINE R == OpToRel(<, Nat)
<1>1. R = {ss \in Nat \X Nat : ss[1] < ss[2]}
  BY DEF OpToRel
<1>2. IsWellFoundedOn(R, Nat)
  BY NatLessThanWellFounded
<1> HIDE DEF R
<1>3. PICK n \in T : \A m \in T : ~(<<m, n>> \in R)
  BY <1>2, WFMin
<1>4. \A m \in T : ~(m < n)
  BY <1>1, <1>3
<1> QED  BY <1>4

\* Some element of a non-empty set has the least of the numbers given to each.
LEMMA LeastRanked ==
  ASSUME NEW C, C # {}, NEW rank, \A c \in C : rank[c] \in Nat
  PROVE  \E c \in C : \A d \in C : rank[c] <= rank[d]
<1> DEFINE T == {rank[c] : c \in C}
<1>1. T \subseteq Nat /\ T # {}
  OBVIOUS
<1>2. PICK n \in T : \A m \in T : n <= m
  <2> HIDE DEF T
  <2> QED  BY <1>1, LeastNat
<1>3. PICK c \in C : rank[c] = n
  BY DEF T
<1> QED  BY <1>2, <1>3 DEF T

LexLess(u, v) ==
  \E i \in 1 .. 3 : u[i] < v[i] /\ \A j \in 1 .. i - 1 : u[j] = v[j]

\* The same for triples of numbers compared from the left, as Python compares tuples.
LEMMA LeastTriple ==
  ASSUME NEW C, C # {}, NEW rank, \A c \in C : \A i \in 1 .. 3 : rank[c][i] \in Nat
  PROVE  \E c \in C : \A d \in C : ~LexLess(rank[d], rank[c])
<1>1. PICK a \in C : \A d \in C : rank[a][1] <= rank[d][1]
  <2> DEFINE first == [c \in C |-> rank[c][1]]
  <2>1. \A c \in C : first[c] \in Nat
    OBVIOUS
  <2>2. PICK a \in C : \A d \in C : first[a] <= first[d]
    <3> HIDE DEF first
    <3> QED  BY <2>1, LeastRanked
  <2> QED  BY <2>2
<1> DEFINE A == {c \in C : rank[c][1] = rank[a][1]}
<1>2. PICK b \in A : \A d \in A : rank[b][2] <= rank[d][2]
  <2> DEFINE second == [c \in A |-> rank[c][2]]
  <2>1. A # {} /\ \A c \in A : second[c] \in Nat
    OBVIOUS
  <2>2. PICK b \in A : \A d \in A : second[b] <= second[d]
    <3> HIDE DEF second, A
    <3> QED  BY <2>1, LeastRanked
  <2> QED  BY <2>2
<1> DEFINE B == {c \in A : rank[c][2] = rank[b][2]}
<1>3. PICK c \in B : \A d \in B : rank[c][3] <= rank[d][3]
  <2> DEFINE third == [c \in B |-> rank[c][3]]
  <2>1. B # {} /\ \A c \in B : third[c] \in Nat
    OBVIOUS
  <2>2. PICK c \in B : \A d \in B : third[c] <= third[d]
    <3> HIDE DEF third, B
    <3> QED  BY <2>1, LeastRanked
  <2> QED  BY <2>2
<1>4. ASSUME NEW d \in C, LexLess(rank[d], rank[c])
      PROVE  FALSE
  <2>1. /\ c \in C /\ rank[c][1] = rank[a][1] /\ rank[c][2] = rank[b][2]
        /\ \A i \in 1 .. 3 : rank[c][i] \in Nat /\ rank[d][i] \in Nat
    OBVIOUS
  <2>2. PICK i \in 1 .. 3 :
          rank[d][i] < rank[c][i] /\ \A j \in 1 .. i - 1 : rank[d][j] = rank[c][j]
    BY <1>4 DEF LexLess
  <2>3. CASE i = 1
    BY <1>1, <2>1, <2>2, <2>3
  <2>4. CASE i = 2
    <3>1. rank[d][1] = rank[c][1]
      BY <2>2, <2>4
    <3>2. d \in A
      BY <2>1, <3>1
    <3> QED  BY <1>2, <2>1, <2>2, <2>4, <3>2
  <2>5. CASE i = 3
    <3>1. rank[d][1] = rank[c][1] /\ rank[d][2] = rank[c][2]
      BY <2>2, <2>5
    <3>2. d \in B
      BY <2>1, <3>1
    <3> QED  BY <1>3, <2>1, <2>2, <2>5, <3>2
  <2> QED  BY <2>3, <2>4, <2>5
<1> QED  BY <1>4

\* Among finite sets there is one that contains no other.
LEMMA MinimalSet ==
  ASSUME NEW S, IsFiniteSet(S), NEW F, F \subseteq SUBSET S, F # {}
  PROVE  \E T \in F : \A U \in F : U \subseteq T => U = T
<1> DEFINE R == StrictSubsetOrdering(S)
<1>1. IsWellFoundedOn(R, SUBSET S)
  BY FS_StrictSubsetOrderingWellFounded, FS_FiniteSubsetsOfFinite
<1>2. R = {ss \in (SUBSET S) \X (SUBSET S) : ss[1] \subseteq ss[2] /\ ss[1] # ss[2]}
  BY DEF StrictSubsetOrdering
<1> HIDE DEF R
<1>3. PICK T \in F : \A U \in F : ~(<<U, T>> \in R)
  BY <1>1, WFMin
<1> QED  BY <1>2, <1>3

\* Some element of a finite set has the greatest of the numbers given to each.
LEMMA GreatestRanked ==
  ASSUME NEW C, IsFiniteSet(C), C # {}, NEW rank, \A c \in C : rank[c] \in Nat
  PROVE  \E c \in C : \A d \in C : rank[d] <= rank[c]
<1> DEFINE F == {T \in SUBSET C : T # {} /\ ~\E c \in T : \A d \in T : rank[d] <= rank[c]}
<1> SUFFICES ASSUME F # {}  PROVE FALSE
  OBVIOUS
<1>1. PICK T \in F : \A U \in F : U \subseteq T => U = T
  <2>1. F \subseteq SUBSET C
    OBVIOUS
  <2> HIDE DEF F
  <2> QED  BY <2>1, MinimalSet
<1>2. PICK x \in T : TRUE
  OBVIOUS
<1>3. CASE T = {x}
  BY <1>2, <1>3
<1>4. CASE T # {x}
  <2>1. T \ {x} \notin F
    BY <1>1, <1>2
  <2>2. PICK c \in T \ {x} : \A d \in T \ {x} : rank[d] <= rank[c]
    BY <1>4, <2>1
  <2>3. rank[x] <= rank[c] \/ (rank[c] <= rank[x] /\ \A d \in T : rank[d] <= rank[x])
    BY <2>2
  <2> QED  BY <1>2, <2>2, <2>3
<1> QED  BY <1>3, <1>4

-----------------------------------------------------------------------------
(* Sets of events *)

\* The events of one shipment as the repository lists them.
EventLog(S) ==
  /\ IsFiniteSet(S)
  /\ \A e \in S : e.date \in Nat /\ e.id \in Nat /\ e.status \in ShipmentStatus
  /\ \A e, f \in S : e.id = f.id => e = f

\* A part of a log is a log.
LEMMA PartOfLog ==
  ASSUME NEW S, EventLog(S), NEW T, T \subseteq S
  PROVE  EventLog(T)
BY FS_Subset DEF EventLog

\* What is Before another comes first by date, then by id.
LEMMA BeforeIsOrder ==
  ASSUME NEW S, EventLog(S), NEW e \in S, NEW f \in S
  PROVE  /\ ~Before(e, e)
         /\ Before(e, f) => ~Before(f, e)
         /\ e = f \/ Before(e, f) \/ Before(f, e)
BY DEF EventLog, Before

\* The event that the loop meets last.
LEMMA LastExists ==
  ASSUME NEW S, EventLog(S), S # {}
  PROVE  LastOf(S) \in S /\ \A f \in S : f = LastOf(S) \/ Before(f, LastOf(S))
<1> DEFINE date == [e \in S |-> e.date]
<1>1. PICK top \in S : \A e \in S : e.date <= top.date
  <2>1. \A e \in S : date[e] \in Nat
    BY DEF EventLog
  <2>2. PICK top \in S : \A e \in S : date[e] <= date[top]
    <3> HIDE DEF date
    <3> QED  BY <2>1, GreatestRanked DEF EventLog
  <2> QED  BY <2>2
<1> DEFINE T == {e \in S : e.date = top.date}
           id == [e \in T |-> e.id]
<1>2. PICK last \in T : \A e \in T : e.id <= last.id
  <2>1. T # {} /\ IsFiniteSet(T) /\ \A e \in T : id[e] \in Nat
    BY PartOfLog DEF EventLog
  <2>2. PICK last \in T : \A e \in T : id[e] <= id[last]
    <3> HIDE DEF id, T
    <3> QED  BY <2>1, GreatestRanked
  <2> QED  BY <2>2
<1>3. \A f \in S : f = last \/ Before(f, last)
  BY <1>1, <1>2 DEF EventLog, Before
<1> QED  BY <1>3 DEF LastOf

\* The event that stands for a set: the latest date, the first on record of those.
LEMMA LatestExists ==
  ASSUME NEW S, EventLog(S), S # {}
  PROVE  /\ Latest(S) \in S
         /\ \A f \in S : f.date < Latest(S).date
                           \/ (f.date = Latest(S).date /\ Latest(S).id <= f.id)
<1> DEFINE date == [e \in S |-> e.date]
<1>1. PICK top \in S : \A e \in S : e.date <= top.date
  <2>1. \A e \in S : date[e] \in Nat
    BY DEF EventLog
  <2>2. PICK top \in S : \A e \in S : date[e] <= date[top]
    <3> HIDE DEF date
    <3> QED  BY <2>1, GreatestRanked DEF EventLog
  <2> QED  BY <2>2
<1> DEFINE T == {e \in S : e.date = top.date}
           id == [e \in T |-> e.id]
<1>2. PICK first \in T : \A e \in T : first.id <= e.id
  <2>1. T # {} /\ \A e \in T : id[e] \in Nat
    BY DEF EventLog
  <2>2. PICK first \in T : \A e \in T : id[first] <= id[e]
    <3> HIDE DEF id, T
    <3> QED  BY <2>1, LeastRanked
  <2> QED  BY <2>2
<1>3. \A f \in S : f.date < first.date \/ (f.date = first.date /\ first.id <= f.id)
  BY <1>1, <1>2 DEF EventLog
<1> QED  BY <1>3 DEF Latest

-----------------------------------------------------------------------------
(* The loop of check_chronology *)

\* w is the table of what the loop knows after each part of S.
Recurses(w, S) ==
  w = [T \in SUBSET S |->
         IF T = {} THEN WalkStart
         ELSE ChronologyStep(w[T \ {LastOf(T)}], LastOf(T))]

\* The community module's fold is the value at S of a table that satisfies the recursion.
LEMMA WalkIsChosen ==
  ASSUME NEW S
  PROVE  Walk(S) = (CHOOSE w : Recurses(w, S))[S]
BY DEF Walk, MapThenFoldSet, Recurses

\* Two such tables agree on what both speak of.
LEMMA WalksAgree ==
  ASSUME NEW S, EventLog(S), NEW w, Recurses(w, S),
         NEW U \in SUBSET S, NEW v, Recurses(v, U)
  PROVE  w[U] = v[U]
<1> DEFINE F == {T \in SUBSET U : w[T] # v[T]}
<1>1. ASSUME F # {}  PROVE FALSE
  <2>1. PICK T \in F : \A V \in F : V \subseteq T => V = T
    <3>1. F \subseteq SUBSET U /\ IsFiniteSet(U)
      BY PartOfLog DEF EventLog
    <3> HIDE DEF F
    <3> QED  BY <1>1, <3>1, MinimalSet
  <2>2. T # {}
    BY <2>1 DEF Recurses
  <2>3. LastOf(T) \in T
    BY <2>1, <2>2, PartOfLog, LastExists
  <2>4. w[T \ {LastOf(T)}] = v[T \ {LastOf(T)}]
    BY <2>1, <2>3
  <2>5. /\ w[T] = ChronologyStep(w[T \ {LastOf(T)}], LastOf(T))
        /\ v[T] = ChronologyStep(v[T \ {LastOf(T)}], LastOf(T))
    BY <2>1, <2>2 DEF Recurses
  <2> QED  BY <2>1, <2>4, <2>5
<1> QED  BY <1>1

\* The loop does what one expects, where the tables exist.
LEMMA WalkUnfolds ==
  ASSUME NEW S, EventLog(S), S # {},
         \E w : Recurses(w, S),
         \E w : Recurses(w, S \ {LastOf(S)})
  PROVE  Walk(S) = ChronologyStep(Walk(S \ {LastOf(S)}), LastOf(S))
<1> DEFINE U == S \ {LastOf(S)}
           w == CHOOSE x : Recurses(x, S)
           v == CHOOSE x : Recurses(x, U)
<1>1. Recurses(w, S) /\ Recurses(v, U)
  BY Zenon
<1>2. Walk(S) = w[S] /\ Walk(U) = v[U]
  BY WalkIsChosen
<1> HIDE DEF w, v
<1>3. w[S] = ChronologyStep(w[U], LastOf(S))
  BY <1>1 DEF Recurses
<1>4. w[U] = v[U]
  BY <1>1, WalksAgree
<1> QED  BY <1>2, <1>3, <1>4

\* Without a main event nothing is learnt.
LEMMA WalkOfNothing == Walk({}) = WalkStart
<1> DEFINE w == [T \in SUBSET {} |-> WalkStart]
           v == CHOOSE x : Recurses(x, {})
<1>1. Recurses(w, {})
  BY DEF Recurses
<1>2. Recurses(v, {})
  BY <1>1, Zenon
<1>3. Walk({}) = v[{}]
  BY WalkIsChosen
<1> HIDE DEF v
<1> QED  BY <1>2, <1>3 DEF Recurses

\* The tables exist, for every number of events.
LEMMA WalkExists ==
  ASSUME NEW S, EventLog(S)
  PROVE  \E w : Recurses(w, S)
<1> DEFINE F == {T \in SUBSET S : ~\E w : Recurses(w, T)}
<1>1. ASSUME F # {}  PROVE FALSE
  <2>1. PICK T \in F : \A V \in F : V \subseteq T => V = T
    <3>1. F \subseteq SUBSET S /\ IsFiniteSet(S)
      BY DEF EventLog
    <3> HIDE DEF F
    <3> QED  BY <1>1, <3>1, MinimalSet
  <2>2. \A V \in SUBSET T : V # T => \E w : Recurses(w, V)
    BY <2>1
  <2> DEFINE w == [V \in SUBSET T |->
                     IF V = {} THEN WalkStart
                     ELSE ChronologyStep(Walk(V \ {LastOf(V)}), LastOf(V))]
  <2>3. ASSUME NEW V \in SUBSET T, V # T  PROVE w[V] = Walk(V)
    <3>1. CASE V = {}
      BY <3>1, WalkOfNothing
    <3>2. CASE V # {}
      <4>1. EventLog(V) /\ LastOf(V) \in V
        BY <3>2, PartOfLog, LastExists
      <4>2. Walk(V) = ChronologyStep(Walk(V \ {LastOf(V)}), LastOf(V))
        <5>1. (\E x : Recurses(x, V)) /\ (\E x : Recurses(x, V \ {LastOf(V)}))
          BY <2>2, <2>3, <4>1
        <5> QED  BY <3>2, <4>1, <5>1, WalkUnfolds
      <4> QED  BY <3>2, <4>2
    <3> QED  BY <3>1, <3>2
  <2>4. \A V \in SUBSET T : V # {} => w[V \ {LastOf(V)}] = Walk(V \ {LastOf(V)})
    <3> HIDE DEF w
    <3> SUFFICES ASSUME NEW V \in SUBSET T, V # {}
                 PROVE  w[V \ {LastOf(V)}] = Walk(V \ {LastOf(V)})
      OBVIOUS
    <3>1. LastOf(V) \in V
      BY PartOfLog, LastExists
    <3> QED  BY <2>3, <3>1
  <2>5. Recurses(w, T)
    BY <2>4 DEF Recurses
  <2> QED  BY <2>1, <2>5
<1> QED  BY <1>1

\* What the loop knows after the last event is a step from what it knew before.
LEMMA WalkEquation ==
  ASSUME NEW S, EventLog(S), S # {}
  PROVE  Walk(S) = ChronologyStep(Walk(S \ {LastOf(S)}), LastOf(S))
BY PartOfLog, WalkExists, WalkUnfolds

-----------------------------------------------------------------------------
(* What the loop knows *)

WalkState ==
  [severity: Severity, codes: Seq(ReasonCode), delivered: BOOLEAN, highest: Int]

Regression == "status_date_regression"
TerminalCodes == ReasonCode \ {Regression}

\* The places of the codes that report something after a delivery.
TerminalPlaces(codes) == {i \in DOMAIN codes : codes[i] \in TerminalCodes}

Ranks(S) == {status_rank(e.status) : e \in S}

\* After the main events S, the loop knows w of them.
Knows(w, S) ==
  /\ w \in WalkState
  /\ w.delivered <=> \E d \in S : Delivered(d)
  /\ ~w.delivered => /\ \A n \in Ranks(S) : n <= w.highest
                     /\ w.highest \in Ranks(S) \cup {-1}
  /\ w.severity = SeverityOf(S)
  /\ (\E i \in DOMAIN w.codes : w.codes[i] = Regression) <=> RegressionBeforeDelivery(S)
  /\ \A i, j \in DOMAIN w.codes :
       w.codes[i] \in TerminalCodes /\ w.codes[j] = Regression => j < i
  /\ IsFiniteSet(TerminalPlaces(w.codes))
  /\ Cardinality(TerminalPlaces(w.codes)) = Cardinality({e \in S : AfterDelivery(e, S)})

\* Main events have ranks, and only delivered is terminal among them.
LEMMA MainRank ==
  ASSUME NEW e, e.status \in ShipmentStatus, IsMain(e)
  PROVE  status_rank(e.status) \in Nat /\ (IsTerminal(e) <=> Delivered(e))
<1>1. e.status \in MainStatuses
  BY DEF ShipmentStatus, IsMain
<1>2. \E i \in 1 .. Len(MAIN_STATUS_ORDER) : MAIN_STATUS_ORDER[i] = e.status
  BY <1>1 DEF MainStatuses
<1>3. Len(MAIN_STATUS_ORDER) \in Nat
  BY DEF MAIN_STATUS_ORDER
<1> DEFINE i == CHOOSE j \in 1 .. Len(MAIN_STATUS_ORDER) : MAIN_STATUS_ORDER[j] = e.status
<1>4. i \in 1 .. Len(MAIN_STATUS_ORDER)
  BY <1>2
<1>5. status_rank(e.status) = i - 1
  BY DEF status_rank
<1> HIDE DEF i
<1>6. status_rank(e.status) \in Nat
  BY <1>3, <1>4, <1>5
<1> QED  BY <1>6 DEF IsTerminal, TERMINAL_STATUSES, Delivered

\* One more code at the end of the list.
LEMMA AppendedCode ==
  ASSUME NEW codes \in Seq(ReasonCode), NEW code \in ReasonCode,
         IsFiniteSet(TerminalPlaces(codes))
  PROVE  LET more == Append(codes, code)
         IN  /\ more \in Seq(ReasonCode)
             /\ Len(codes) \in Nat /\ DOMAIN codes = 1 .. Len(codes)
             /\ DOMAIN more = DOMAIN codes \cup {Len(codes) + 1}
             /\ more[Len(codes) + 1] = code
             /\ \A i \in DOMAIN codes : more[i] = codes[i]
             /\ IsFiniteSet(TerminalPlaces(more))
             /\ Cardinality(TerminalPlaces(more)) =
                  Cardinality(TerminalPlaces(codes))
                    + (IF code \in TerminalCodes THEN 1 ELSE 0)
<1> DEFINE more == Append(codes, code)
           n == Len(codes) + 1
<1>1. /\ more \in Seq(ReasonCode)
      /\ Len(codes) \in Nat /\ DOMAIN codes = 1 .. Len(codes)
      /\ DOMAIN more = DOMAIN codes \cup {n}
      /\ more[n] = code
      /\ \A i \in DOMAIN codes : more[i] = codes[i]
  OBVIOUS
<1> HIDE DEF more
<1>2. n \notin TerminalPlaces(codes)
  BY <1>1 DEF TerminalPlaces
<1>3. TerminalPlaces(more) =
        TerminalPlaces(codes) \cup (IF code \in TerminalCodes THEN {n} ELSE {})
  BY <1>1 DEF TerminalPlaces
<1>4. /\ IsFiniteSet(TerminalPlaces(codes) \cup {n})
      /\ Cardinality(TerminalPlaces(codes) \cup {n}) = Cardinality(TerminalPlaces(codes)) + 1
  BY <1>2, FS_AddElement
<1>5. Cardinality(TerminalPlaces(codes)) \in Nat
  BY FS_CardinalityType
<1>6. /\ IsFiniteSet(TerminalPlaces(more))
      /\ Cardinality(TerminalPlaces(more)) =
           Cardinality(TerminalPlaces(codes)) + (IF code \in TerminalCodes THEN 1 ELSE 0)
  <2>1. CASE code \in TerminalCodes
    BY <1>3, <1>4, <2>1
  <2>2. CASE code \notin TerminalCodes
    <3>1. TerminalPlaces(more) = TerminalPlaces(codes)
      BY <1>3, <2>2
    <3> QED  BY <1>5, <2>2, <3>1
  <2> QED  BY <2>1, <2>2
<1> QED  BY <1>1, <1>6 DEF more

\* What one more event, met last, changes of what is true of a set.
LEMMA LastEvent ==
  ASSUME NEW T, EventLog(T), \A e \in T : IsMain(e), T # {}
  PROVE  LET e == LastOf(T)
             U == T \ {e}
             known == \E d \in U : Delivered(d)
         IN  /\ e \in T /\ EventLog(U)
             /\ \A f \in U : Before(f, e)
             /\ AfterDelivery(e, T) <=> known
             /\ {f \in T : AfterDelivery(f, T)} =
                  {f \in U : AfterDelivery(f, U)} \cup (IF known THEN {e} ELSE {})
             /\ MainEventAfterDelivery(T) <=> MainEventAfterDelivery(U) \/ known
             /\ RegressionBeforeDelivery(T) <=>
                  \/ RegressionBeforeDelivery(U)
                  \/ /\ ~known /\ ~Delivered(e)
                     /\ \E f \in U : status_rank(e.status) < status_rank(f.status) - 1
             /\ MainEventAfterDelivery(U) => known
<1> DEFINE e == LastOf(T)
           U == T \ {e}
           known == \E d \in U : Delivered(d)
<1>1. e \in T /\ EventLog(U) /\ \A f \in U : Before(f, e)
  BY LastExists, PartOfLog
<1> HIDE DEF e
<1>2. ~Before(e, e) /\ \A f \in U : ~Before(e, f)
  BY <1>1, BeforeIsOrder
<1>3. AfterDelivery(e, T) <=> known
  BY <1>1, <1>2 DEF AfterDelivery
<1>4. \A f \in U : AfterDelivery(f, T) <=> AfterDelivery(f, U)
  BY <1>1, <1>2 DEF AfterDelivery
<1>5. {f \in T : AfterDelivery(f, T)} =
        {f \in U : AfterDelivery(f, U)} \cup (IF known THEN {e} ELSE {})
  BY <1>1, <1>3, <1>4
<1>6. MainEventAfterDelivery(T) <=> MainEventAfterDelivery(U) \/ known
  BY <1>1, <1>3, <1>4 DEF MainEventAfterDelivery
<1>7. RegressionBeforeDelivery(T) <=>
        \/ RegressionBeforeDelivery(U)
        \/ /\ ~known /\ ~Delivered(e)
           /\ \E f \in U : status_rank(e.status) < status_rank(f.status) - 1
  BY <1>1, <1>2, <1>3, <1>4 DEF RegressionBeforeDelivery
<1>8. MainEventAfterDelivery(U) => known
  BY DEF MainEventAfterDelivery, AfterDelivery
<1> QED  BY <1>1, <1>3, <1>5, <1>6, <1>7, <1>8 DEF e

\* After a delivery every main event is a conflict.
LEMMA StepAfterDelivery ==
  ASSUME NEW T, EventLog(T), \A e \in T : IsMain(e), T # {},
         NEW w, Knows(w, T \ {LastOf(T)}), w.delivered
  PROVE  Knows(ChronologyStep(w, LastOf(T)), T)
<1> DEFINE e == LastOf(T)
           U == T \ {e}
           v == ChronologyStep(w, e)
<1>1. /\ e \in T /\ EventLog(U)
      /\ \E d \in U : Delivered(d)
      /\ {f \in T : AfterDelivery(f, T)} = {f \in U : AfterDelivery(f, U)} \cup {e}
      /\ MainEventAfterDelivery(T)
      /\ RegressionBeforeDelivery(T) <=> RegressionBeforeDelivery(U)
  BY LastEvent DEF Knows
<1>2. PICK code \in TerminalCodes :
        v = [w EXCEPT !.codes = Append(@, code), !.severity = "conflict"]
  <2>1. /\ "duplicate_terminal_status" \in TerminalCodes
        /\ "terminal_status_followed_by_non_terminal" \in TerminalCodes
    BY DEF TerminalCodes, ReasonCode, Regression
  <2>2. IsTerminal(e) =>
          v = [w EXCEPT !.codes = Append(@, "duplicate_terminal_status"),
                        !.severity = "conflict"]
    BY DEF ChronologyStep
  <2>3. ~IsTerminal(e) =>
          v = [w EXCEPT !.codes = Append(@, "terminal_status_followed_by_non_terminal"),
                        !.severity = "conflict"]
    BY DEF ChronologyStep
  <2> QED  BY <2>1, <2>2, <2>3
<1> HIDE DEF e, v
<1>3. code \in ReasonCode /\ code # Regression
  BY DEF TerminalCodes
<1>4. w \in WalkState /\ IsFiniteSet(TerminalPlaces(w.codes))
  BY DEF Knows, e
<1>5. /\ v \in WalkState /\ v.delivered /\ v.severity = "conflict"
      /\ v.codes = Append(w.codes, code)
  <2>1. Append(w.codes, code) \in Seq(ReasonCode)
    BY <1>3, <1>4, AppendedCode DEF WalkState
  <2>2. w.delivered = TRUE
    BY <1>4 DEF WalkState
  <2>3. v = [w EXCEPT !.codes = Append(w.codes, code), !.severity = "conflict"]
    BY <1>2
  <2> HIDE DEF U
  <2> QED  BY <1>4, <2>1, <2>2, <2>3 DEF WalkState, Severity
<1> DEFINE n == Len(w.codes) + 1
<1>6. /\ \A i \in DOMAIN w.codes : i < n
      /\ DOMAIN v.codes = DOMAIN w.codes \cup {n}
      /\ v.codes[n] = code
      /\ \A i \in DOMAIN w.codes : v.codes[i] = w.codes[i]
      /\ IsFiniteSet(TerminalPlaces(v.codes))
      /\ Cardinality(TerminalPlaces(v.codes)) = Cardinality(TerminalPlaces(w.codes)) + 1
  <2>1. w.codes \in Seq(ReasonCode) /\ code \in TerminalCodes
    BY <1>4 DEF WalkState
  <2>2. \A i \in DOMAIN w.codes : i < n
    BY <2>1
  <2> HIDE DEF n
  <2>3. n = Len(w.codes) + 1
    BY DEF n
  <2> QED  BY <1>3, <1>4, <1>5, <2>1, <2>2, <2>3, AppendedCode
<1> HIDE DEF n
<1>7. v.severity = SeverityOf(T)
  BY <1>1, <1>5 DEF SeverityOf
<1>8. (\E i \in DOMAIN v.codes : v.codes[i] = Regression) <=> RegressionBeforeDelivery(T)
  BY <1>1, <1>3, <1>6 DEF Knows, e
<1>9. \A i, j \in DOMAIN v.codes :
        v.codes[i] \in TerminalCodes /\ v.codes[j] = Regression => j < i
  <2>1. \A i, j \in DOMAIN w.codes :
          w.codes[i] \in TerminalCodes /\ w.codes[j] = Regression => j < i
    BY DEF Knows
  <2> QED  BY <1>3, <1>6, <2>1
<1>10. Cardinality(TerminalPlaces(v.codes)) = Cardinality({f \in T : AfterDelivery(f, T)})
  <2>1. /\ Cardinality({f \in U : AfterDelivery(f, U)} \cup {e})
             = Cardinality({f \in U : AfterDelivery(f, U)}) + 1
    <3>1. e \notin {f \in U : AfterDelivery(f, U)}
      OBVIOUS
    <3>2. IsFiniteSet({f \in U : AfterDelivery(f, U)})
      BY <1>1, FS_Subset DEF EventLog
    <3> QED  BY <3>1, <3>2, FS_AddElement
  <2> QED  BY <1>1, <1>6, <2>1 DEF Knows, e
<1>11. \E d \in T : Delivered(d)
  BY <1>1
<1> QED  BY <1>5, <1>6, <1>7, <1>8, <1>9, <1>10, <1>11 DEF Knows, v, e

\* Before a delivery the loop has met no terminal code, and the highest rank is that
\* of an event.
LEMMA StepBeforeDelivery ==
  ASSUME NEW T, EventLog(T), \A e \in T : IsMain(e), T # {},
         NEW w, Knows(w, T \ {LastOf(T)}), ~w.delivered
  PROVE  Knows(ChronologyStep(w, LastOf(T)), T)
<1> DEFINE e == LastOf(T)
           U == T \ {e}
           v == ChronologyStep(w, e)
           rank == status_rank(e.status)
<1>1. /\ e \in T /\ EventLog(U) /\ ~\E d \in U : Delivered(d)
      /\ {f \in T : AfterDelivery(f, T)} = {f \in U : AfterDelivery(f, U)}
      /\ ~MainEventAfterDelivery(T) /\ ~MainEventAfterDelivery(U)
      /\ RegressionBeforeDelivery(T) <=>
           \/ RegressionBeforeDelivery(U)
           \/ ~Delivered(e) /\ \E n \in Ranks(U) : rank < n - 1
  <2>1. ~\E d \in U : Delivered(d)
    BY DEF Knows
  <2>2. (\E f \in U : rank < status_rank(f.status) - 1) <=> \E n \in Ranks(U) : rank < n - 1
    BY DEF Ranks
  <2> QED  BY <2>1, <2>2, LastEvent
<1>2. /\ rank \in Nat /\ (IsTerminal(e) <=> Delivered(e))
      /\ Ranks(U) \subseteq Nat /\ Ranks(T) = Ranks(U) \cup {rank}
  <2>1. \A f \in T : status_rank(f.status) \in Nat
    BY MainRank DEF EventLog
  <2>2. rank \in Nat /\ (IsTerminal(e) <=> Delivered(e))
    BY <1>1, MainRank DEF EventLog
  <2> QED  BY <1>1, <2>1, <2>2 DEF Ranks
<1>3. /\ w \in WalkState /\ IsFiniteSet(TerminalPlaces(w.codes))
      /\ \A n \in Ranks(U) : n <= w.highest
      /\ w.highest \in Ranks(U) \cup {-1}
      /\ w.severity = SeverityOf(U)
      /\ (\E i \in DOMAIN w.codes : w.codes[i] = Regression) <=> RegressionBeforeDelivery(U)
      /\ Cardinality(TerminalPlaces(w.codes)) = Cardinality({f \in T : AfterDelivery(f, T)})
  BY <1>1 DEF Knows
<1>4. TerminalPlaces(w.codes) = {}
  <2>1. {f \in T : AfterDelivery(f, T)} = {}
    BY <1>1 DEF AfterDelivery
  <2> QED  BY <1>3, <2>1, FS_EmptySet
<1> HIDE DEF e, v, U, rank
<1>5. (\E n \in Ranks(U) : rank < n - 1) <=> rank < w.highest - 1
  BY <1>2, <1>3
<1>6. CASE IsTerminal(e)
  <2>1. v = [w EXCEPT !.delivered = TRUE]
    BY <1>6 DEF ChronologyStep, v
  <2>2. v \in WalkState /\ v.delivered /\ v.severity = w.severity /\ v.codes = w.codes
    BY <1>3, <2>1 DEF WalkState
  <2>3. \E d \in T : Delivered(d)
    BY <1>1, <1>2, <1>6
  <2>4. RegressionBeforeDelivery(T) <=> RegressionBeforeDelivery(U)
    BY <1>1, <1>2, <1>6
  <2>5. v.severity = SeverityOf(T)
    BY <1>1, <1>3, <2>2, <2>4 DEF SeverityOf
  <2>6. \A i, j \in DOMAIN v.codes :
          v.codes[i] \in TerminalCodes /\ v.codes[j] = Regression => j < i
    BY <1>4, <2>2 DEF TerminalPlaces
  <2> QED  BY <1>3, <2>2, <2>3, <2>4, <2>5, <2>6 DEF Knows, v, e
<1>7. CASE ~IsTerminal(e) /\ rank < w.highest - 1
  <2>1. v = [w EXCEPT !.codes = Append(@, Regression),
                      !.severity = IF w.severity = "ok" THEN "warning" ELSE w.severity]
    BY <1>7 DEF ChronologyStep, v, rank, Regression
  <2>2. Regression \in ReasonCode /\ Regression \notin TerminalCodes
    BY DEF Regression, ReasonCode, TerminalCodes
  <2>3. RegressionBeforeDelivery(T)
    BY <1>1, <1>2, <1>5, <1>7
  <2>4. /\ v.codes = Append(w.codes, Regression) /\ ~v.delivered
        /\ v.highest = w.highest
        /\ v.severity = IF w.severity = "ok" THEN "warning" ELSE w.severity
        /\ v \in WalkState
    <3>1. Append(w.codes, Regression) \in Seq(ReasonCode)
      BY <1>3, <2>2, AppendedCode DEF WalkState
    <3>2. w.delivered = FALSE /\ w.severity \in Severity
      BY <1>3 DEF WalkState
    <3>3. v = [w EXCEPT !.codes = Append(w.codes, Regression),
                        !.severity = IF w.severity = "ok" THEN "warning" ELSE w.severity]
      BY <2>1
    <3> QED  BY <1>3, <3>1, <3>2, <3>3 DEF WalkState, Severity
  <2>5. v.severity = SeverityOf(T)
    BY <1>1, <1>3, <2>3, <2>4 DEF SeverityOf
  <2> DEFINE n == Len(w.codes) + 1
  <2>6. /\ DOMAIN v.codes = DOMAIN w.codes \cup {n}
        /\ v.codes[n] = Regression
        /\ \A i \in DOMAIN w.codes : v.codes[i] = w.codes[i]
        /\ IsFiniteSet(TerminalPlaces(v.codes))
        /\ Cardinality(TerminalPlaces(v.codes)) = Cardinality(TerminalPlaces(w.codes))
    <3>1. Cardinality(TerminalPlaces(w.codes)) \in Nat
      BY <1>3, FS_CardinalityType
    <3> QED  BY <1>3, <2>2, <2>4, <3>1, AppendedCode DEF WalkState
  <2> HIDE DEF n
  <2>7. \A i, j \in DOMAIN v.codes :
          v.codes[i] \in TerminalCodes /\ v.codes[j] = Regression => j < i
    BY <1>4, <2>2, <2>6 DEF TerminalPlaces
  <2>8. /\ \A m \in Ranks(T) : m <= v.highest
        /\ v.highest \in Ranks(T) \cup {-1}
        /\ ~\E d \in T : Delivered(d)
    <3>1. w.highest \in Int
      BY <1>3 DEF WalkState
    <3>2. \A m \in Ranks(T) : m <= v.highest
      BY <1>2, <1>3, <1>7, <2>4, <3>1
    <3>3. v.highest \in Ranks(T) \cup {-1}
      BY <1>2, <1>3, <2>4
    <3>4. ~\E d \in T : Delivered(d)
      BY <1>1, <1>2, <1>7 DEF U
    <3> QED  BY <3>2, <3>3, <3>4
  <2> QED  BY <1>3, <2>3, <2>4, <2>5, <2>6, <2>7, <2>8 DEF Knows, v, e
<1>8. CASE ~IsTerminal(e) /\ ~(rank < w.highest - 1)
  <2>1. v = [w EXCEPT !.highest = IF rank > @ THEN rank ELSE @]
    BY <1>8 DEF ChronologyStep, v, rank
  <2>2. /\ v \in WalkState /\ ~v.delivered /\ v.severity = w.severity
        /\ v.codes = w.codes
        /\ v.highest = IF rank > w.highest THEN rank ELSE w.highest
    BY <1>2, <1>3, <2>1 DEF WalkState
  <2>3. RegressionBeforeDelivery(T) <=> RegressionBeforeDelivery(U)
    BY <1>1, <1>5, <1>8
  <2>4. v.severity = SeverityOf(T)
    BY <1>1, <1>3, <2>2, <2>3 DEF SeverityOf
  <2>5. \A i, j \in DOMAIN v.codes :
          v.codes[i] \in TerminalCodes /\ v.codes[j] = Regression => j < i
    BY <1>4, <2>2 DEF TerminalPlaces
  <2>6. /\ \A m \in Ranks(T) : m <= v.highest
        /\ v.highest \in Ranks(T) \cup {-1}
    BY <1>2, <1>3, <2>2 DEF WalkState
  <2>7. ~\E d \in T : Delivered(d)
    BY <1>1, <1>2, <1>8 DEF U
  <2> QED  BY <1>3, <2>2, <2>3, <2>4, <2>5, <2>6, <2>7 DEF Knows, v, e
<1> QED  BY <1>6, <1>7, <1>8 DEF v, e

\* After any set of main events the loop knows what there is to know.
LEMMA WalkKnows ==
  ASSUME NEW S, EventLog(S), \A e \in S : IsMain(e)
  PROVE  Knows(Walk(S), S)
<1> DEFINE F == {T \in SUBSET S : ~Knows(Walk(T), T)}
<1>1. ASSUME F # {}  PROVE FALSE
  <2>1. PICK T \in F : \A V \in F : V \subseteq T => V = T
    <3>1. F \subseteq SUBSET S /\ IsFiniteSet(S)
      BY DEF EventLog
    <3> HIDE DEF F
    <3> QED  BY <1>1, <3>1, MinimalSet
  <2>2. EventLog(T) /\ \A e \in T : IsMain(e)
    BY <2>1, PartOfLog
  <2>3. T # {}
    <3>1. SeverityOf({}) = "ok" /\ ~RegressionBeforeDelivery({})
      BY DEF SeverityOf, MainEventAfterDelivery, RegressionBeforeDelivery
    <3>2. /\ WalkStart \in WalkState /\ WalkStart.codes = << >>
          /\ WalkStart.delivered = FALSE /\ WalkStart.highest = -1
          /\ WalkStart.severity = "ok"
      BY DEF WalkStart, WalkState, Severity
    <3>3. TerminalPlaces(WalkStart.codes) = {} /\ DOMAIN WalkStart.codes = {}
      BY <3>2 DEF TerminalPlaces
    <3>4. {e \in {} : AfterDelivery(e, {})} = {} /\ Ranks({}) = {}
      BY DEF Ranks
    <3>5. Knows(WalkStart, {})
      BY <3>1, <3>2, <3>3, <3>4, FS_EmptySet DEF Knows
    <3> QED  BY <2>1, <3>5, WalkOfNothing
  <2> DEFINE U == T \ {LastOf(T)}
  <2>4. LastOf(T) \in T
    BY <2>2, <2>3, LastExists
  <2>5. Knows(Walk(U), U)
    BY <2>1, <2>4
  <2>6. Walk(T) = ChronologyStep(Walk(U), LastOf(T))
    BY <2>2, <2>3, WalkEquation
  <2>7. Knows(Walk(T), T)
    BY <2>2, <2>3, <2>5, <2>6, StepAfterDelivery, StepBeforeDelivery
  <2> QED  BY <2>1, <2>7
<1> QED  BY <1>1

-----------------------------------------------------------------------------
(* What check_chronology returns *)

MainOf(S) == {e \in S : IsMain(e)}

\* The references speak of all events, the loop meets the main ones: a delivery is
\* one of those.
LEMMA MainEventsSuffice ==
  ASSUME NEW S
  PROVE  /\ \A e \in S : AfterDelivery(e, MainOf(S)) <=> AfterDelivery(e, S)
         /\ SeverityOf(MainOf(S)) = SeverityOf(S)
         /\ RegressionBeforeDelivery(MainOf(S)) <=> RegressionBeforeDelivery(S)
<1>1. \A d \in S : Delivered(d) => d \in MainOf(S)
  BY DEF Delivered, MainOf, IsMain, SIDE_STATUSES
<1>2. \A e \in S : AfterDelivery(e, MainOf(S)) <=> AfterDelivery(e, S)
  BY <1>1 DEF AfterDelivery, MainOf
<1>3. MainEventAfterDelivery(MainOf(S)) <=> MainEventAfterDelivery(S)
  BY <1>2 DEF MainEventAfterDelivery, MainOf
<1>4. RegressionBeforeDelivery(MainOf(S)) <=> RegressionBeforeDelivery(S)
  BY <1>2 DEF RegressionBeforeDelivery, MainOf
<1> QED  BY <1>2, <1>3, <1>4 DEF SeverityOf

\* What check_chronology returns is what the walk knows of the main events.
LEMMA CheckKnows ==
  ASSUME NEW S, EventLog(S)
  PROVE  \E w : /\ Knows(w, MainOf(S))
                /\ check_chronology(S).severity = w.severity
                /\ check_chronology(S).codes = w.codes
<1>1. Knows(Walk(MainOf(S)), MainOf(S))
  <2>1. EventLog(MainOf(S)) /\ \A e \in MainOf(S) : IsMain(e)
    BY PartOfLog DEF MainOf
  <2> QED  BY <2>1, WalkKnows
<1>2. /\ check_chronology(S).severity = Walk(MainOf(S)).severity
      /\ check_chronology(S).codes = Walk(MainOf(S)).codes
  BY DEF check_chronology, MainOf
<1> QED  BY <1>1, <1>2

\* The grade the loop accumulates is the one the reference states, for any number
\* of events at any dates.
THEOREM GradeIsReference ==
  ASSUME NEW S, EventLog(S)
  PROVE  check_chronology(S).severity = SeverityOf(S)
<1>1. PICK w : Knows(w, MainOf(S)) /\ check_chronology(S).severity = w.severity
  BY CheckKnows
<1>2. w.severity = SeverityOf(MainOf(S))
  BY <1>1 DEF Knows
<1> QED  BY <1>1, <1>2, MainEventsSuffice

\* One terminal code for each main event after a delivery; regressions come before
\* all of these, and there is one exactly where the reference finds one.
THEOREM CodesAreReference ==
  ASSUME NEW S, EventLog(S), NEW codes, codes = check_chronology(S).codes
  PROVE  /\ codes \in Seq(ReasonCode)
         /\ Cardinality(TerminalPlaces(codes)) =
              Cardinality({e \in S : IsMain(e) /\ AfterDelivery(e, S)})
         /\ \A i, j \in DOMAIN codes :
              codes[i] \in TerminalCodes /\ codes[j] = Regression => j < i
         /\ (\E i \in DOMAIN codes : codes[i] = Regression)
              <=> RegressionBeforeDelivery(S)
<1>1. PICK w : Knows(w, MainOf(S)) /\ codes = w.codes
  BY CheckKnows
<1>2. /\ w \in WalkState
      /\ Cardinality(TerminalPlaces(w.codes)) =
           Cardinality({e \in MainOf(S) : AfterDelivery(e, MainOf(S))})
      /\ \A i, j \in DOMAIN w.codes :
           w.codes[i] \in TerminalCodes /\ w.codes[j] = Regression => j < i
      /\ (\E i \in DOMAIN w.codes : w.codes[i] = Regression)
           <=> RegressionBeforeDelivery(MainOf(S))
  BY <1>1 DEF Knows
<1>3. {e \in MainOf(S) : AfterDelivery(e, MainOf(S))} =
        {e \in S : IsMain(e) /\ AfterDelivery(e, S)}
  BY MainEventsSuffice DEF MainOf
<1> QED  BY <1>1, <1>2, <1>3, MainEventsSuffice DEF WalkState

\* More events never give a better grade: what is a conflict stays one, and a
\* regression stays one unless a delivery is filed before it, which is worse.
LEMMA GradeOnlyWorsens ==
  ASSUME NEW S, NEW T, S \subseteq T
  PROVE  /\ SeverityOf(S) = "conflict" => SeverityOf(T) = "conflict"
         /\ SeverityOf(S) = "warning" => SeverityOf(T) \in {"warning", "conflict"}
<1>1. MainEventAfterDelivery(S) => MainEventAfterDelivery(T)
  BY DEF MainEventAfterDelivery, AfterDelivery
<1>2. RegressionBeforeDelivery(S)
        => RegressionBeforeDelivery(T) \/ MainEventAfterDelivery(T)
  BY DEF RegressionBeforeDelivery, MainEventAfterDelivery
<1> QED  BY <1>1, <1>2 DEF SeverityOf

-----------------------------------------------------------------------------
(* What select_current_status returns *)

DeliveredOf(S) == {e \in S : IsTerminal(e)}
ActionOf(S) == {e \in S : NeedsAction(e)}
KnownOf(S) == {e \in S : e.status # "unknown"}

\* The parts of a log, and how they lie to each other.
LEMMA StatusGroups ==
  ASSUME NEW S
  PROVE  /\ DeliveredOf(S) = {e \in S : Delivered(e)}
         /\ DeliveredOf(S) \subseteq MainOf(S)
         /\ MainOf(S) \cap ActionOf(S) = {}
         /\ MainOf(S) \cup ActionOf(S) \subseteq KnownOf(S)
BY DEF DeliveredOf, MainOf, ActionOf, KnownOf, Delivered, IsTerminal, IsMain,
       NeedsAction, TERMINAL_STATUSES, SIDE_STATUSES

\* The cases of the code, one by one.
LEMMA CurrentCases ==
  ASSUME NEW S
  PROVE  /\ DeliveredOf(S) # {} => select_current_status(S) = Latest(DeliveredOf(S))
         /\ DeliveredOf(S) = {} /\ ActionOf(S) # {} /\ MainOf(S) # {}
              => select_current_status(S) =
                   IF Latest(ActionOf(S)).date >= Latest(MainOf(S)).date
                   THEN Latest(ActionOf(S)) ELSE Latest(MainOf(S))
         /\ DeliveredOf(S) = {} /\ ActionOf(S) # {} /\ MainOf(S) = {}
              => select_current_status(S) = Latest(ActionOf(S))
         /\ DeliveredOf(S) = {} /\ ActionOf(S) = {} /\ MainOf(S) # {}
              => select_current_status(S) = Latest(MainOf(S))
         /\ ActionOf(S) = {} /\ MainOf(S) = {} /\ KnownOf(S) # {}
              => select_current_status(S) = Latest(KnownOf(S))
         /\ KnownOf(S) = {} => select_current_status(S) = Latest(S)
<1>1. select_current_status(S) =
        CASE DeliveredOf(S) # {} -> Latest(DeliveredOf(S))
          [] DeliveredOf(S) = {} /\ ActionOf(S) # {} /\ MainOf(S) # {} ->
               IF Latest(ActionOf(S)).date >= Latest(MainOf(S)).date
               THEN Latest(ActionOf(S)) ELSE Latest(MainOf(S))
          [] DeliveredOf(S) = {} /\ ActionOf(S) # {} /\ MainOf(S) = {} ->
               Latest(ActionOf(S))
          [] DeliveredOf(S) = {} /\ ActionOf(S) = {} /\ MainOf(S) # {} ->
               Latest(MainOf(S))
          [] ActionOf(S) = {} /\ MainOf(S) = {} /\ KnownOf(S) # {} ->
               Latest(KnownOf(S))
          [] OTHER -> Latest(S)
  BY DEF select_current_status, DeliveredOf, ActionOf, MainOf, KnownOf
<1>2. /\ DeliveredOf(S) # {} => MainOf(S) # {}
      /\ KnownOf(S) = {} => DeliveredOf(S) = {} /\ ActionOf(S) = {} /\ MainOf(S) = {}
  BY StatusGroups
<1>3. DeliveredOf(S) # {} => select_current_status(S) = Latest(DeliveredOf(S))
  BY <1>1, <1>2, Zenon
<1>4. DeliveredOf(S) = {} /\ ActionOf(S) # {} /\ MainOf(S) # {}
        => select_current_status(S) =
             IF Latest(ActionOf(S)).date >= Latest(MainOf(S)).date
             THEN Latest(ActionOf(S)) ELSE Latest(MainOf(S))
  BY <1>1, Zenon
<1>5. DeliveredOf(S) = {} /\ ActionOf(S) # {} /\ MainOf(S) = {}
        => select_current_status(S) = Latest(ActionOf(S))
  BY <1>1, Zenon
<1>6. DeliveredOf(S) = {} /\ ActionOf(S) = {} /\ MainOf(S) # {}
        => select_current_status(S) = Latest(MainOf(S))
  BY <1>1, Zenon
<1>7. ActionOf(S) = {} /\ MainOf(S) = {} /\ KnownOf(S) # {}
        => select_current_status(S) = Latest(KnownOf(S))
  BY <1>1, <1>2, Zenon
<1>8. KnownOf(S) = {} => select_current_status(S) = Latest(S)
  BY <1>1, <1>2, Zenon
<1> QED  BY <1>3, <1>4, <1>5, <1>6, <1>7, <1>8

\* The status shown is that of an event on record.
LEMMA CurrentIsEvent ==
  ASSUME NEW S, EventLog(S), S # {}
  PROVE  select_current_status(S) \in S
<1> DEFINE cur == select_current_status(S)
<1>1. \A T : T \subseteq S /\ T # {} => Latest(T) \in S
  BY PartOfLog, LatestExists
<1>2. /\ DeliveredOf(S) \subseteq S /\ ActionOf(S) \subseteq S
      /\ MainOf(S) \subseteq S /\ KnownOf(S) \subseteq S
  BY DEF DeliveredOf, ActionOf, MainOf, KnownOf
<1>3. DeliveredOf(S) # {} => cur \in S
  BY <1>1, <1>2, CurrentCases
<1>4. DeliveredOf(S) = {} /\ ActionOf(S) # {} /\ MainOf(S) # {} => cur \in S
  BY <1>1, <1>2, CurrentCases
<1>5. DeliveredOf(S) = {} /\ ActionOf(S) # {} /\ MainOf(S) = {} => cur \in S
  BY <1>1, <1>2, CurrentCases
<1>6. DeliveredOf(S) = {} /\ ActionOf(S) = {} /\ MainOf(S) # {} => cur \in S
  BY <1>1, <1>2, CurrentCases
<1>7. ActionOf(S) = {} /\ MainOf(S) = {} /\ KnownOf(S) # {} => cur \in S
  BY <1>1, <1>2, CurrentCases
<1>8. KnownOf(S) = {} => cur \in S
  BY <1>1, CurrentCases
<1> QED  BY <1>3, <1>4, <1>5, <1>6, <1>7, <1>8

\* The status shown is delivered exactly when some event reports the delivery.
LEMMA DeliveredWins ==
  ASSUME NEW S, EventLog(S), S # {}
  PROVE  Delivered(select_current_status(S)) <=> \E e \in S : Delivered(e)
<1>1. CASE DeliveredOf(S) # {}
  <2>1. EventLog(DeliveredOf(S))
    BY PartOfLog DEF DeliveredOf
  <2>2. Latest(DeliveredOf(S)) \in DeliveredOf(S)
    BY <1>1, <2>1, LatestExists
  <2> QED  BY <1>1, <2>2, CurrentCases, StatusGroups
<1>2. CASE DeliveredOf(S) = {}
  BY <1>2, CurrentIsEvent, StatusGroups
<1> QED  BY <1>1, <1>2

\* No newer mail that outranks the status shown contradicts it.
THEOREM StatusIsAuthoritative ==
  ASSUME NEW S, EventLog(S), S # {}, NEW cur, cur = select_current_status(S)
  PROVE  /\ (\E e \in S : Delivered(e)) => Delivered(cur)
         /\ ~Delivered(cur) =>
              \A e \in S : NeedsAction(e) \/ IsMain(e) =>
                /\ NeedsAction(cur) \/ IsMain(cur)
                /\ e.date <= cur.date
                /\ e.date = cur.date /\ NeedsAction(e) => NeedsAction(cur)
         /\ cur.status = "unknown" => \A e \in S : e.status = "unknown"
<1> DEFINE D == DeliveredOf(S)
           A == ActionOf(S)
           M == MainOf(S)
           K == KnownOf(S)
<1>1. D \subseteq S /\ A \subseteq S /\ M \subseteq S /\ K \subseteq S
  BY DEF DeliveredOf, ActionOf, MainOf, KnownOf
<1>2. /\ \A e \in S : /\ e \in D <=> Delivered(e)
                      /\ e \in A <=> NeedsAction(e)
                      /\ e \in M <=> IsMain(e)
                      /\ e \in K <=> e.status # "unknown"
      /\ D \subseteq M /\ A \cap M = {} /\ A \cup M \subseteq K
  BY StatusGroups DEF ActionOf, MainOf, KnownOf
<1>3. /\ D # {} => cur = Latest(D)
      /\ D = {} /\ A # {} /\ M # {}
           => cur = IF Latest(A).date >= Latest(M).date THEN Latest(A) ELSE Latest(M)
      /\ D = {} /\ A # {} /\ M = {} => cur = Latest(A)
      /\ D = {} /\ A = {} /\ M # {} => cur = Latest(M)
      /\ A = {} /\ M = {} /\ K # {} => cur = Latest(K)
  BY CurrentCases
<1> HIDE DEF D, A, M, K
<1>4. /\ D # {} => Latest(D) \in D
      /\ A # {} => Latest(A) \in A /\ \A f \in A : f.date <= Latest(A).date
      /\ M # {} => Latest(M) \in M /\ \A f \in M : f.date <= Latest(M).date
      /\ K # {} => Latest(K) \in K
  <2>1. ASSUME NEW T, T \subseteq S, T # {}
        PROVE  Latest(T) \in T /\ \A f \in T : f.date <= Latest(T).date
    BY <2>1, PartOfLog, LatestExists DEF EventLog
  <2> QED  BY <1>1, <2>1
<1>5. \A e \in S : e.date \in Nat
  BY DEF EventLog
<1>6. (\E e \in S : Delivered(e)) => Delivered(cur)
  BY <1>1, <1>2, <1>3, <1>4
<1>7. ASSUME ~Delivered(cur), NEW e \in S, e \in A \/ e \in M
      PROVE  /\ cur \in A \/ cur \in M
             /\ e.date <= cur.date
             /\ e.date = cur.date /\ e \in A => cur \in A
  <2>1. D = {}
    BY <1>1, <1>2, <1>6, <1>7
  <2>2. CASE A # {} /\ M # {}
    <3>1. /\ Latest(A) \in A /\ Latest(M) \in M
          /\ Latest(A).date \in Nat /\ Latest(M).date \in Nat /\ e.date \in Nat
      BY <1>1, <1>4, <1>5, <2>2
    <3>2. CASE Latest(A).date >= Latest(M).date
      <4>1. cur = Latest(A)
        BY <1>3, <2>1, <2>2, <3>2
      <4> QED  BY <1>4, <1>7, <2>2, <3>1, <3>2, <4>1
    <3>3. CASE ~(Latest(A).date >= Latest(M).date)
      <4>1. cur = Latest(M)
        BY <1>3, <2>1, <2>2, <3>3
      <4> QED  BY <1>4, <1>7, <2>2, <3>1, <3>3, <4>1
    <3> QED  BY <3>2, <3>3
  <2>3. CASE A # {} /\ M = {}
    BY <1>3, <1>4, <1>7, <2>1, <2>3
  <2>4. CASE A = {} /\ M # {}
    BY <1>3, <1>4, <1>7, <2>1, <2>4
  <2> QED  BY <1>7, <2>2, <2>3, <2>4
<1>8. cur.status = "unknown" => K = {}
  <2>1. K # {} => cur \in K
    <3>1. CASE D # {}
      BY <1>2, <1>3, <1>4, <3>1
    <3>2. CASE D = {} /\ (A # {} \/ M # {})
      BY <1>2, <1>3, <1>4, <3>2
    <3>3. CASE A = {} /\ M = {} /\ K # {}
      BY <1>3, <1>4, <3>3
    <3> QED  BY <3>1, <3>2, <3>3
  <2> QED  BY <1>1, <1>2, <2>1
<1>9. cur \in S
  BY CurrentIsEvent
<1> QED  BY <1>1, <1>2, <1>6, <1>7, <1>8, <1>9

\* Mail dated before the latest event of a set does not become the latest.
LEMMA LatestUnmoved ==
  ASSUME NEW S, NEW e, EventLog(S \cup {e}), S # {}, e.date < Latest(S).date
  PROVE  Latest(S \cup {e}) = Latest(S)
<1> DEFINE l == Latest(S)
           m == Latest(S \cup {e})
<1>1. l \in S /\ \A f \in S : f.date < l.date \/ (f.date = l.date /\ l.id <= f.id)
  BY PartOfLog, LatestExists
<1>2. /\ m \in S \cup {e}
      /\ \A f \in S \cup {e} : f.date < m.date \/ (f.date = m.date /\ m.id <= f.id)
  BY LatestExists
<1>3. /\ \A f \in S \cup {e} : f.date \in Nat /\ f.id \in Nat
      /\ \A f, g \in S \cup {e} : f.id = g.id => f = g
  BY DEF EventLog
<1>4. e.date < l.date
  OBVIOUS
<1> HIDE DEF l, m
<1>5. m \in S
  BY <1>1, <1>2, <1>3, <1>4
<1>6. m.id = l.id
  BY <1>1, <1>2, <1>3, <1>5
<1>7. m = l
  BY <1>1, <1>2, <1>3, <1>6
<1> QED  BY <1>7 DEF l, m

\* Nor, if it is dated before all that counts, does it move the status shown.
THEOREM LateMailLeavesStatus ==
  ASSUME NEW S, S # {}, NEW e, EventLog(S \cup {e}), ~Delivered(e),
         NEW cur, cur = select_current_status(S),
         NeedsAction(cur) \/ IsMain(cur), e.date < cur.date
  PROVE  select_current_status(S \cup {e}) = cur
<1> DEFINE T == S \cup {e}
           D == DeliveredOf(S)
           A == ActionOf(S)
           M == MainOf(S)
<1>1. EventLog(S)
  BY PartOfLog
<1>2. /\ D # {} => cur = Latest(D)
      /\ D = {} /\ A # {} /\ M # {}
           => cur = IF Latest(A).date >= Latest(M).date THEN Latest(A) ELSE Latest(M)
      /\ D = {} /\ A # {} /\ M = {} => cur = Latest(A)
      /\ D = {} /\ A = {} /\ M # {} => cur = Latest(M)
  BY CurrentCases
<1>3. /\ DeliveredOf(T) = D
      /\ ActionOf(T) = (IF NeedsAction(e) THEN A \cup {e} ELSE A)
      /\ MainOf(T) = (IF IsMain(e) THEN M \cup {e} ELSE M)
      /\ ~(NeedsAction(e) /\ IsMain(e))
  <2>1. DeliveredOf(T) = D
    BY StatusGroups
  <2>2. ActionOf(T) = (IF NeedsAction(e) THEN A \cup {e} ELSE A)
    BY DEF ActionOf
  <2>3. MainOf(T) = (IF IsMain(e) THEN M \cup {e} ELSE M)
    BY DEF MainOf
  <2> QED  BY <2>1, <2>2, <2>3 DEF NeedsAction, IsMain, SIDE_STATUSES
<1>4. /\ A # {} => Latest(A) \in A /\ \A f \in A : f.date <= Latest(A).date
      /\ M # {} => Latest(M) \in M /\ \A f \in M : f.date <= Latest(M).date
      /\ A # {} /\ e.date < Latest(A).date => Latest(A \cup {e}) = Latest(A)
      /\ M # {} /\ e.date < Latest(M).date => Latest(M \cup {e}) = Latest(M)
      /\ Latest(A \cup {e}) \in A \cup {e} /\ Latest(M \cup {e}) \in M \cup {e}
  <2> SUFFICES ASSUME NEW C, C \subseteq S
               PROVE  /\ C # {} => Latest(C) \in C /\ \A f \in C : f.date <= Latest(C).date
                      /\ C # {} /\ e.date < Latest(C).date
                           => Latest(C \cup {e}) = Latest(C)
                      /\ Latest(C \cup {e}) \in C \cup {e}
    BY DEF ActionOf, MainOf
  <2>1. EventLog(C) /\ EventLog(C \cup {e})
    BY PartOfLog
  <2>2. \A f \in C : f.date \in Nat
    BY <2>1 DEF EventLog
  <2>3. C # {} => Latest(C) \in C /\ \A f \in C : f.date <= Latest(C).date
    BY <2>1, <2>2, LatestExists
  <2>4. C # {} /\ e.date < Latest(C).date => Latest(C \cup {e}) = Latest(C)
    BY <2>1, LatestUnmoved
  <2>5. Latest(C \cup {e}) \in C \cup {e}
    BY <2>1, LatestExists
  <2> QED  BY <2>3, <2>4, <2>5
<1> DEFINE a == Latest(ActionOf(T))
           m == Latest(MainOf(T))
<1>6. /\ DeliveredOf(T) # {} => select_current_status(T) = Latest(DeliveredOf(T))
      /\ DeliveredOf(T) = {} /\ ActionOf(T) # {} /\ MainOf(T) # {}
           => select_current_status(T) = IF a.date >= m.date THEN a ELSE m
      /\ DeliveredOf(T) = {} /\ ActionOf(T) # {} /\ MainOf(T) = {}
           => select_current_status(T) = a
      /\ DeliveredOf(T) = {} /\ ActionOf(T) = {} /\ MainOf(T) # {}
           => select_current_status(T) = m
  BY CurrentCases
<1>7. \A f \in T : f.date \in Nat
  BY DEF EventLog
<1>8. A \subseteq S /\ M \subseteq S
  BY DEF ActionOf, MainOf
<1>9. CASE D # {}
  BY <1>2, <1>3, <1>6, <1>9
<1>10. CASE D = {} /\ A # {} /\ M # {}
  <2> DEFINE x == Latest(A)
             y == Latest(M)
  <2>1. x \in A /\ y \in M /\ x.date \in Nat /\ y.date \in Nat /\ e.date \in Nat
    BY <1>4, <1>7, <1>8, <1>10
  <2>2. CASE x.date >= y.date
    <3>1. cur = x /\ e.date < x.date
      BY <1>2, <1>10, <2>2
    <3>2. a = x
      BY <1>3, <1>4, <1>10, <3>1
    <3>3. x.date >= m.date
      <4>1. m \in M \cup {e}
        BY <1>3, <1>4, <1>10
      <4>2. m.date <= y.date \/ m = e
        BY <1>4, <1>10, <4>1
      <4>3. m.date \in Nat
        BY <1>7, <1>8, <4>1
      <4> QED  BY <2>1, <2>2, <3>1, <4>2, <4>3
    <3> HIDE DEF a, m
    <3> QED  BY <1>3, <1>6, <1>10, <3>1, <3>2, <3>3
  <2>3. CASE ~(x.date >= y.date)
    <3>1. cur = y /\ e.date < y.date
      BY <1>2, <1>10, <2>3
    <3>2. m = y
      BY <1>3, <1>4, <1>10, <3>1
    <3>3. a.date < y.date
      <4>1. a \in A \cup {e}
        BY <1>3, <1>4, <1>10
      <4>2. a.date <= x.date \/ a = e
        BY <1>4, <1>10, <4>1
      <4>3. a.date \in Nat
        BY <1>7, <1>8, <4>1
      <4> QED  BY <2>1, <2>3, <3>1, <4>2, <4>3
    <3>4. ~(a.date >= m.date)
      <4>1. a.date \in Nat
        BY <1>3, <1>4, <1>7, <1>8, <1>10
      <4> QED  BY <2>1, <3>2, <3>3, <4>1
    <3> HIDE DEF a, m
    <3> QED  BY <1>3, <1>6, <1>10, <3>1, <3>2, <3>4
  <2> QED  BY <2>2, <2>3
<1>11. CASE D = {} /\ A # {} /\ M = {}
  <2>1. cur = Latest(A) /\ a = Latest(A)
    BY <1>2, <1>3, <1>4, <1>11
  <2>2. MainOf(T) # {} => m = e
    BY <1>3, <1>4, <1>11
  <2>3. a.date \in Nat /\ e.date \in Nat
    BY <1>4, <1>7, <1>8, <1>11, <2>1
  <2>4. MainOf(T) # {} => a.date >= m.date
    BY <2>1, <2>2, <2>3
  <2>5. DeliveredOf(T) = {} /\ ActionOf(T) # {}
    BY <1>3, <1>11
  <2> HIDE DEF a, m, D, A, M
  <2> QED  BY <1>6, <2>1, <2>4, <2>5
<1>12. CASE D = {} /\ A = {} /\ M # {}
  <2>1. cur = Latest(M) /\ m = Latest(M)
    BY <1>2, <1>3, <1>4, <1>12
  <2>2. ActionOf(T) # {} => a = e
    BY <1>3, <1>4, <1>12
  <2>3. m.date \in Nat /\ e.date \in Nat
    BY <1>4, <1>7, <1>8, <1>12, <2>1
  <2>4. ActionOf(T) # {} => ~(a.date >= m.date)
    BY <2>1, <2>2, <2>3
  <2>5. DeliveredOf(T) = {} /\ MainOf(T) # {}
    BY <1>3, <1>12
  <2> HIDE DEF a, m, D, A, M
  <2> QED  BY <1>6, <2>1, <2>4, <2>5
<1>13. CASE D = {} /\ A = {} /\ M = {}
  <2>1. cur \in S
    BY <1>1, CurrentIsEvent
  <2> QED  BY <1>13, <2>1 DEF ActionOf, MainOf
<1> QED  BY <1>9, <1>10, <1>11, <1>12, <1>13

=============================================================================
