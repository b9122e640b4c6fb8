------------------------------ MODULE Statuses ------------------------------
(***************************************************************************)
(* The shipment statuses and e-mail types of domain/statuses.py and        *)
(* domain/email_types.py: which statuses form the linear progression of a  *)
(* parcel, which stand beside it, and the coarse e-mail type each implies. *)
(***************************************************************************)
EXTENDS Naturals, Sequences

\* The linear progression; a status's rank is its (0-based) place in it.
MAIN_STATUS_ORDER ==
  << "order_confirmed", "shipped", "received_by_carrier", "in_transit",
     "arrived_in_destination_country", "customs_pending", "customs_released",
     "handed_to_local_carrier", "ready_for_pickup", "out_for_delivery",
     "delivered" >>

MainStatuses == {MAIN_STATUS_ORDER[i] : i \in 1 .. Len(MAIN_STATUS_ORDER)}

TERMINAL_STATUSES == {"delivered"}

\* Statuses that stand beside the progression and never contradict it.
SIDE_STATUSES ==
  {"action_required", "payment_required", "delayed_or_problem", "unknown"}

ShipmentStatus == MainStatuses \cup SIDE_STATUSES

status_rank(s) ==
  (CHOOSE i \in 1 .. Len(MAIN_STATUS_ORDER) : MAIN_STATUS_ORDER[i] = s) - 1

-----------------------------------------------------------------------------

EmailType ==
  { "order_confirmation", "shipping_update", "pickup_ready", "delivered",
    "payment_problem", "billing_only", "non_shipping", "digital_product" }

\* E-mail types that never create shipment data.
NON_PHYSICAL_TYPES == {"non_shipping", "billing_only", "digital_product"}

=============================================================================
