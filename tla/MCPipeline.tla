----------------------------- MODULE MCPipeline -----------------------------
(***************************************************************************)
(* A small instance of Pipeline: mails that differ in their phrases, mails *)
(* that differ in their numbers, and a model that may answer anything.     *)
(***************************************************************************)
EXTENDS Pipeline

Plain ==
  [ processor |-> FALSE, billing |-> FALSE, override |-> FALSE, ordered |-> FALSE,
    subjectPhrases |-> {}, bodyPhrases |-> {"order_confirmed"}, found |-> {},
    inSubject |-> {}, labelled |-> {}, merchant |-> None, shaped |-> TRUE ]

\* A structured number in the body, a bare one near a shipping word, and one
\* that only looks like a number.
Parcel    == [value |-> "t1", family |-> "ups", near |-> FALSE, mobile |-> FALSE, place |-> 1]
Bare      == [value |-> "n1", family |-> "dhl", near |-> TRUE, mobile |-> FALSE, place |-> 2]
Telephone == [value |-> "n1", family |-> "dhl", near |-> FALSE, mobile |-> FALSE, place |-> 3]

\* Every order of confidence: below and above each threshold.
Phrases ==
  { {}, {"order_confirmed"}, {"in_transit", "order_confirmed"}, {"shipped"},
    {"delivered", "shipped"}, {"action_required"}, {"out_for_delivery"} }

MCMails ==
  { [Plain EXCEPT !.bodyPhrases = p, !.billing = b, !.found = f, !.shaped = s] :
      p \in Phrases, b \in BOOLEAN, f \in {{}, {Parcel}}, s \in BOOLEAN }
  \cup
  { [Plain EXCEPT !.found = f, !.inSubject = s, !.labelled = o] :
      f \in {{Telephone}, {Bare}, {Parcel, Bare, Telephone}},
      s \in {{}, {"n1"}}, o \in {{}, {[value |-> "n1", place |-> 1]}} }
  \cup
  { [Plain EXCEPT !.processor = TRUE],
    [Plain EXCEPT !.ordered = TRUE, !.bodyPhrases = {"delivered"}],
    [Plain EXCEPT !.subjectPhrases = {"delivered"}, !.bodyPhrases = {}],
    [Plain EXCEPT !.billing = TRUE, !.override = TRUE] }

MCAudits ==
  { [agrees |-> a, type |-> t, status |-> s, confidence |-> c] :
      a \in BOOLEAN, t \in EmailType,
      s \in {"unknown", "order_confirmed", "shipped", "delivered"},
      c \in Confidences }

MCAnswers ==
  { [ type |-> t, status |-> s, confidence |-> c, carrier |-> k,
      tracking |-> n, orders |-> n, merchant |-> None ] :
      t \in EmailType \ {"payment_problem", "pickup_ready"},
      s \in {"unknown", "order_confirmed", "shipped", "delivered"},
      c \in Confidences, k \in BOOLEAN, n \in {<< >>, <<"n1">>, <<"t1">>} }

=============================================================================
