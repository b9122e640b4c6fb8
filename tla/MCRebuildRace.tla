---------------------------- MODULE MCRebuildRace ----------------------------
(***************************************************************************)
(* A small instance of RebuildRace: two shipments (two orders of one shop),*)
(* the delivery of the first still to come.                                *)
(***************************************************************************)
EXTENDS RebuildRace

Mail(email, type, status, order) ==
  [ email |-> email, relevant |-> TRUE, type |-> type, status |-> status,
    confidence |-> 90, tracking |-> None, order |-> order, merchant |-> "A" ]

MCExtractions ==
  { Mail("confirm", "order_confirmation", "order_confirmed", "o1"),
    Mail("deliver", "delivered", "delivered", "o1"),
    Mail("other", "order_confirmation", "order_confirmed", "o2"),
    Mail("ship", "shipping_update", "shipped", "o2") }

MCReceivedAt == [confirm |-> 1, deliver |-> 2, other |-> 1, ship |-> 2]

=============================================================================
