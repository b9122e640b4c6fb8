------------------------ MODULE MCShipmentResolution ------------------------
(***************************************************************************)
(* Small instances of ShipmentResolution.  The mail of one purchase: an    *)
(* order confirmation, a shipping mail naming order and parcel, a delivery *)
(* mail naming only the parcel, a second parcel of the same order, and the *)
(* same order number at another merchant.                                  *)
(***************************************************************************)
EXTENDS TimelineRefinement

Mail(email, type, status, confidence, tracking, order, merchant) ==
  [ email |-> email, relevant |-> TRUE, type |-> type, status |-> status,
    confidence |-> confidence, tracking |-> tracking, order |-> order,
    merchant |-> merchant ]

Confirmation ==
  Mail("confirm", "order_confirmation", "order_confirmed", 90, None, "o1", "A")
Shipped ==
  Mail("ship", "shipping_update", "shipped", 60, "t1", "o1", "A")
DeliveredMail ==
  Mail("deliver", "delivered", "delivered", 90, "t1", None, None)
SecondParcel ==
  Mail("second", "shipping_update", "in_transit", 60, "t2", "o1", "A")
SecondParcelOnly ==
  Mail("late", "shipping_update", "shipped", 90, "t2", None, None)
OtherMerchant ==
  Mail("other", "order_confirmation", "order_confirmed", 90, None, "o1", "B")
Newsletter ==
  [Mail("other", "shipping_update", "unknown", 60, "t1", "o1", "A")
     EXCEPT !.relevant = FALSE]
Invoice ==
  Mail("other", "billing_only", "order_confirmed", 60, "t1", "o1", "A")

MCReceivedAt ==
  [ confirm |-> 1, ship |-> 2, deliver |-> 3, second |-> 4, late |-> 1,
    other |-> 1 ]

\* One extraction per e-mail: what one processing version produces.
MCExtractions ==
  { Confirmation, Shipped, DeliveredMail, SecondParcel, SecondParcelOnly,
    OtherMerchant, Newsletter, Invoice }

\* A later processing version, or a second run of the language model, reads the
\* shipping mail differently.
MCReread ==
  MCExtractions \cup { [Shipped EXCEPT !.status = "out_for_delivery"],
                       [Shipped EXCEPT !.merchant = "B"] }

=============================================================================
