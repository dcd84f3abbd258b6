----------------------------- MODULE OrderStates -----------------------------
(***************************************************************************)
(* The status vocabulary of orders and payments and the two transition     *)
(* tables every commerce transaction consults before it writes a status    *)
(* (packages/db/src/schema/commerce.ts, packages/commerce/src/             *)
(* order-state.ts).  "none" is a row that does not exist yet.              *)
(*                                                                         *)
(* In every module, an operator marked "faulty" is no part of the          *)
(* specification: it is a later definition with a plausible mistake, kept  *)
(* to see that some property refutes it.                                   *)
(***************************************************************************)

OrderStatus == {"draft", "pending_payment", "paid", "cancelled",
                "refunded", "partially_refunded", "voided"}

PaymentStatus == {"pending", "succeeded", "failed", "refunded", "voided"}

UnpaidMayBeRefunded ==   \* faulty
  [draft              |-> {"pending_payment", "cancelled"},
   pending_payment    |-> {"paid", "cancelled", "voided", "partially_refunded"},
   paid               |-> {"refunded", "partially_refunded", "voided"},
   partially_refunded |-> {"refunded"},
   cancelled          |-> {},
   refunded           |-> {},
   voided             |-> {}]

ORDER_STATUS_TRANSITIONS ==
  [draft              |-> {"pending_payment", "cancelled"},
   pending_payment    |-> {"paid", "cancelled", "voided"},
   paid               |-> {"refunded", "partially_refunded", "voided"},
   partially_refunded |-> {"refunded"},
   cancelled          |-> {},
   refunded           |-> {},
   voided             |-> {}]

PAYMENT_STATUS_TRANSITIONS ==
  [pending   |-> {"succeeded", "failed", "voided"},
   succeeded |-> {"refunded", "voided"},
   failed    |-> {},
   refunded  |-> {},
   voided    |-> {}]

(* assertOrderTransition / assertPaymentTransition: the transaction throws,  *)
(* and rolls back, when the pair is not in the table.                        *)
CanTransitionOrder(from, to) ==
  from \in OrderStatus /\ to \in ORDER_STATUS_TRANSITIONS[from]

CanTransitionPayment(from, to) ==
  from \in PaymentStatus /\ to \in PAYMENT_STATUS_TRANSITIONS[from]
=============================================================================
