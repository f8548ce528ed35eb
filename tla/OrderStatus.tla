---------------------------- MODULE OrderStatus ----------------------------
(***************************************************************************)
(* The vocabulary every component that touches an order row shares: the    *)
(* order statuses and the moves between them (TRANSITIONS of               *)
(* orders.service.ts), the payment statuses of the order row, and how an   *)
(* order is paid and handed over.                                          *)
(***************************************************************************)

OrderStatuses ==
  {"pending_payment", "placed", "accepted", "preparing", "baking", "packing",
   "ready", "driver_assigned", "out_for_delivery", "delivered", "closed",
   "cancelled", "rejected"}

\* The pairs <<current, next>> of the TRANSITIONS table.
TRANSITIONS ==
  {<<"pending_payment", "placed">>, <<"pending_payment", "cancelled">>,
   <<"placed", "accepted">>, <<"placed", "rejected">>, <<"placed", "cancelled">>,
   <<"accepted", "preparing">>, <<"accepted", "cancelled">>,
   <<"preparing", "baking">>, <<"preparing", "cancelled">>,
   <<"baking", "packing">>, <<"packing", "ready">>,
   <<"ready", "driver_assigned">>, <<"ready", "out_for_delivery">>,
   <<"driver_assigned", "out_for_delivery">>,
   <<"out_for_delivery", "delivered">>, <<"delivered", "closed">>}

OrderTypes == {"delivery", "pickup", "dine_in", "takeaway"}

\* Order types that may be closed straight from "ready".
AtRestaurant == {"pickup", "dine_in", "takeaway"}

\* orders.payment_method; "other_wallet" also stands for Apple Pay, Google Pay
\* and Satispay, which checkout accepts and createCheckout refuses.
PaymentMethods == {"card", "other_wallet", "cash", "card_on_delivery"}
PayOnDelivery  == {"cash", "card_on_delivery"}

\* orders.payment_status: the values the services write.
PayStatuses ==
  {"pending", "collection_pending", "paid", "failed", "cancelled",
   "partially_refunded", "refunded"}

\* The payment statuses that say the restaurant has received the money.
Settled == {"paid", "partially_refunded", "refunded"}
=============================================================================
