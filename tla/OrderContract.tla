---------------------------- MODULE OrderContract ----------------------------
(***************************************************************************)
(* What commerce promises the domains behind the outbox, and nothing of    *)
(* how it keeps the promise: an order is paid once, is taken back at most  *)
(* once (refunded in full or voided), and each of these happens in the     *)
(* very step that announces it in the outbox.                              *)
(***************************************************************************)
CONSTANT Orders

VARIABLES
  phase,      \* where the order stands
  announced   \* the outbox rows written for it so far

vars == <<phase, announced>>

Init ==
  /\ phase = [o \in Orders |-> "unpaid"]
  /\ announced = [o \in Orders |-> {}]

Moves(o, from, to, fact) ==
  /\ phase[o] \in from
  /\ phase' = [phase EXCEPT ![o] = to]
  /\ announced' = [announced EXCEPT ![o] = @ \cup fact]

Pay(o) == Moves(o, {"unpaid"}, "paid", {"paid"})

RefundPart(o) == Moves(o, {"paid"}, "paid", {"partial"})

RefundAll(o) == Moves(o, {"paid"}, "refunded", {"full"})

Void(o) == Moves(o, {"unpaid", "paid"}, "voided", {"voided"})

Close(o) == Moves(o, {"unpaid"}, "closed", {})

Next == \E o \in Orders :
  Pay(o) \/ RefundPart(o) \/ RefundAll(o) \/ Void(o) \/ Close(o)

Spec == Init /\ [][Next]_vars
=============================================================================
