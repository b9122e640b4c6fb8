------------------------------ MODULE MCParsli ------------------------------
(***************************************************************************)
(* One parcel of a shop: the shop's shipping mail from a subdomain, the    *)
(* carrier's delivery mail, and a note the user sent to themselves about   *)
(* another order.  The second version misses what the note is about.       *)
(***************************************************************************)
EXTENDS Parsli

MCReceivedAt == [ship |-> 1, deliver |-> 2, note |-> 1]
MCCovers == [d \in Domains |-> IF d = "shop" THEN {"shop", "mail.shop"} ELSE {d}]
MCClass == [d \in Domains |-> CASE d = "carrier" -> "shipping" [] d = "free" -> "free"
                                [] OTHER -> "corporate"]
MCFrom == [ship |-> "shop@", deliver |-> "carrier@", note |-> "me"]
MCFromDomain == [ship |-> "mail.shop", deliver |-> "carrier", note |-> "free"]
MCTerms == [ ship |-> {"weak_phrases"}, deliver |-> {"strong_shipping"},
             note |-> {"order_lifecycle"} ]
MCEdits == {<<"shop", "block">>}
MCSenderName == [m \in Emails |-> None]

Number(value, family) ==
  [value |-> value, family |-> family, near |-> TRUE, mobile |-> FALSE, place |-> 1]

Reads(phrases, found, labelled) ==
  [ processor |-> FALSE, billing |-> FALSE, override |-> FALSE, ordered |-> FALSE,
    subjectPhrases |-> {}, bodyPhrases |-> phrases, found |-> found,
    inSubject |-> {}, labelled |-> labelled, merchant |-> None, shaped |-> TRUE ]

First ==
  [ ship    |-> Reads({"shipped"}, {Number("t1", "ups")}, {}),
    deliver |-> Reads({"delivered"}, {Number("t1", "ups")}, {}),
    note    |-> Reads({"order_confirmed"}, {}, {[value |-> "o1", place |-> 1]}) ]

MCText ==
  << First,
     [First EXCEPT !.note = Reads({}, {}, {[value |-> "o1", place |-> 1]})] >>

Answer(type, status, confidence) ==
  [ type |-> type, status |-> status, confidence |-> confidence, carrier |-> TRUE,
    tracking |-> << >>, orders |-> << >>, merchant |-> None ]

MCAnswers == {Answer("delivered", "delivered", 60)}
MCAudits ==
  { [agrees |-> FALSE, type |-> "digital_product", status |-> "unknown", confidence |-> 95] }

MCExtractions ==
  UNION { {Resolved(m, final) : final \in Outcomes(m, v, b)} :
            m \in Emails, v \in 1 .. MaxVersion, b \in BOOLEAN }

=============================================================================
