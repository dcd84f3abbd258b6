---------------------------- MODULE CommerceRace ----------------------------
(***************************************************************************)
(* Overlapping commerce transactions on one order and its payment.         *)
(*                                                                         *)
(* packages/commerce/src/service.ts reads the rows it decides on with      *)
(* plain SELECTs and then updates them by id, inside a PostgreSQL          *)
(* transaction at the default isolation level: each SELECT sees what is    *)
(* committed at that moment, and the UPDATEs do not repeat the test.  A    *)
(* transaction is therefore a few reads, one step each, and one step that  *)
(* writes and commits.  Writing and committing are one step because the    *)
(* first row written stays locked until COMMIT and every other write is    *)
(* invisible until then; two transactions that lock each other's rows are  *)
(* resolved by aborting one (Abort).                                       *)
(***************************************************************************)
EXTENDS OrderStates, Integers, FiniteSets, Functions

CONSTANTS
  Tx,       \* transactions that may be open at the same time
  Manuals,  \* refunds recorded for an operator to carry out
  Price     \* the amount of the payment

ASSUME RaceAssumption ==
  /\ IsFiniteSet(Manuals)
  /\ Price \in Nat \ {0}

VARIABLES
  order,      \* orders.status, committed
  payment,    \* payments.status, committed
  refunded,   \* sum of the committed refund rows that succeeded
  manual,     \* the other refund rows: status, "absent" before, and amount
  announced,  \* committed outbox rows of the order, by kind
  tx          \* the open transactions and what each has read so far

rows == <<order, payment, refunded, manual, announced>>
vars == <<rows, tx>>

Refunding == {"requestRefund", "providerRefund"}
Ops == {"confirm", "fail", "cancel", "void", "confirmRefund"} \cup Refunding

Idle == [op |-> "none", read |-> {}, order |-> "none", payment |-> "none",
         refunded |-> 0, waiting |-> {}, amount |-> 0, manual |-> {}]

(* The SELECTs of each operation, in this order: payment, order, refunds.    *)
Reads(op) ==
  CASE op = "fail"   -> {"payment"}
    [] op = "cancel" -> {"order"}
    [] op \in Refunding \cup {"confirmRefund"} -> {"payment", "order", "refunds"}
    [] OTHER         -> {"payment", "order"}

(* The checkout is over: the order waits for its payment.                    *)
Init ==
  /\ order = "pending_payment"
  /\ payment = "pending"
  /\ refunded = 0
  /\ manual = [m \in Manuals |-> [status |-> "absent", amount |-> 0]]
  /\ announced = {}
  /\ tx = [t \in Tx |-> Idle]

Begin(t, op, a) ==
  /\ tx[t] = Idle
  /\ op # "confirmRefund"
  /\ a > 0 => op \in Refunding
  /\ tx' = [tx EXCEPT ![t] = [Idle EXCEPT !.op = op, !.amount = a]]
  /\ UNCHANGED rows

(* confirmManualRefundOn reads the refund before it reads anything else.     *)
BeginConfirmRefund(t, m) ==
  /\ tx[t] = Idle
  /\ manual[m].status = "manual_required"
  /\ tx' = [tx EXCEPT ![t] = [Idle EXCEPT !.op = "confirmRefund", !.amount = manual[m].amount,
                                          !.manual = {m}]]
  /\ UNCHANGED rows

-----------------------------------------------------------------------------
(* Refunds an operator has still to carry out.                               *)
Waiting == {m \in Manuals : manual[m].status = "manual_required"}

ReadPayment(t) ==
  /\ "payment" \in Reads(tx[t].op) \ tx[t].read
  /\ tx' = [tx EXCEPT ![t].read = @ \cup {"payment"}, ![t].payment = payment]
  /\ UNCHANGED rows

ReadOrder(t) ==
  /\ "order" \in Reads(tx[t].op) \ tx[t].read
  /\ "payment" \in Reads(tx[t].op) => "payment" \in tx[t].read
  /\ tx' = [tx EXCEPT ![t].read = @ \cup {"order"}, ![t].order = order]
  /\ UNCHANGED rows

ReadRefunds(t) ==
  /\ "refunds" \in Reads(tx[t].op) \ tx[t].read
  /\ "order" \in tx[t].read
  /\ tx' = [tx EXCEPT ![t].read = @ \cup {"refunds"}, ![t].refunded = refunded,
                        ![t].waiting = Waiting]
  /\ UNCHANGED rows

-----------------------------------------------------------------------------
Commits(t, op) ==
  /\ tx[t].op = op
  /\ tx[t].read = Reads(op)
  /\ tx' = [tx EXCEPT ![t] = Idle]

(* confirmPaymentOn.  The paid outbox row is unique: the second transaction  *)
(* to insert it cannot commit.                                               *)
CommitConfirm(t) ==
  /\ Commits(t, "confirm")
  /\ CanTransitionPayment(tx[t].payment, "succeeded")
  /\ CanTransitionOrder(tx[t].order, "paid")
  /\ "paid" \notin announced
  /\ payment' = "succeeded"
  /\ order' = "paid"
  /\ announced' = announced \cup {"paid"}
  /\ UNCHANGED <<refunded, manual>>

(* failPaymentOn *)
CommitFail(t) ==
  /\ Commits(t, "fail")
  /\ CanTransitionPayment(tx[t].payment, "failed")
  /\ payment' = "failed"
  /\ UNCHANGED <<order, refunded, manual, announced>>

(* What cancelling leaves of the payment: only a pending one is failed.      *)
PaymentAfterCancel == IF payment = "pending" THEN "failed" ELSE payment

(* cancelOrderOn: the order is written first, the payments are read after.   *)
CommitCancel(t) ==
  /\ Commits(t, "cancel")
  /\ CanTransitionOrder(tx[t].order, "cancelled")
  /\ order' = "cancelled"
  /\ payment' = PaymentAfterCancel
  /\ UNCHANGED <<refunded, manual, announced>>

(* applyVoidOn *)
CommitVoid(t) ==
  LET p == tx[t].payment
      s == tx[t].order
  IN /\ Commits(t, "void")
     /\ p # "refunded" /\ s \notin {"refunded", "partially_refunded"}
     /\ p # "voided" \/ s # "voided"
     /\ p = "voided" \/ CanTransitionPayment(p, "voided")
     /\ s = "voided" \/ CanTransitionOrder(s, "voided")
     /\ "voided" \notin announced
     /\ payment' = IF p = "voided" THEN payment ELSE "voided"
     /\ order' = IF s = "voided" THEN order ELSE "voided"
     /\ announced' = announced \cup {"voided"}
     /\ UNCHANGED <<refunded, manual>>

AlwaysPartial(full) == "partial"   \* faulty
RefundFact(full) == IF full THEN "full" ELSE "partial"

(* settleSuccessfulRefund: nothing to write, or a status that may follow.    *)
IsFull(t) == tx[t].refunded + tx[t].amount = Price
NextStatus(t) == IF IsFull(t) THEN "refunded" ELSE "partially_refunded"

Settled(t) == tx[t].order = NextStatus(t) /\ (IsFull(t) => tx[t].payment = "refunded")

Settle(t) ==
  IF Settled(t)
  THEN UNCHANGED <<order, payment>>
  ELSE /\ CanTransitionOrder(tx[t].order, NextStatus(t))
       /\ IsFull(t) => tx[t].payment = "refunded" \/ CanTransitionPayment(tx[t].payment, "refunded")
       /\ order' = NextStatus(t)
       /\ payment' = IF IsFull(t) THEN "refunded" ELSE payment

Tells(t) == announced' = announced \cup {RefundFact(IsFull(t))}

MayRequest(t) ==
  /\ Commits(t, "requestRefund")
  /\ tx[t].payment = "succeeded"
  /\ SumFunctionOnSet([m \in Manuals |-> manual[m].amount], tx[t].waiting)
       + tx[t].refunded + tx[t].amount <= Price

(* applyLocalRefund, reached from requestRefund, or from a refund webhook.   *)
CommitRefund(t) ==
  /\ \/ MayRequest(t)
     \/ /\ Commits(t, "providerRefund")
        /\ tx[t].order \notin {"cancelled", "voided"} /\ tx[t].payment # "voided"
        /\ tx[t].refunded + tx[t].amount <= Price
  /\ ~Settled(t)
  /\ Settle(t)
  /\ refunded' = refunded + tx[t].amount
  /\ Tells(t)
  /\ UNCHANGED manual

(* requestRefundOn, when the provider cannot refund that much.               *)
CommitManualRefund(t, m) ==
  /\ MayRequest(t)
  /\ manual[m].status = "absent"
  /\ manual' = [manual EXCEPT ![m] = [status |-> "manual_required", amount |-> tx[t].amount]]
  /\ UNCHANGED <<order, payment, refunded, announced>>

(* confirmManualRefundOn.  The outbox row of a refund is unique.             *)
CommitConfirmRefund(t) ==
  \E m \in tx[t].manual :
    /\ Commits(t, "confirmRefund")
    /\ tx[t].payment # "voided" /\ tx[t].order # "voided"
    /\ tx[t].refunded + tx[t].amount <= Price
    /\ manual[m].status = "manual_required"
    /\ manual' = [manual EXCEPT ![m].status = "succeeded"]
    /\ refunded' = refunded + tx[t].amount
    /\ Settle(t)
    /\ Tells(t)

(* A throw, an early return, a deadlock victim, a lost connection: the       *)
(* transaction ends and leaves nothing.                                      *)
Abort(t) ==
  /\ tx[t] # Idle
  /\ tx' = [tx EXCEPT ![t] = Idle]
  /\ UNCHANGED rows

Next == \E t \in Tx :
  \/ \E op \in Ops, a \in 0 .. Price : Begin(t, op, a)
  \/ \E m \in Manuals : BeginConfirmRefund(t, m) \/ CommitManualRefund(t, m)
  \/ ReadPayment(t) \/ ReadOrder(t) \/ ReadRefunds(t)
  \/ CommitConfirm(t) \/ CommitFail(t) \/ CommitCancel(t)
  \/ CommitVoid(t) \/ CommitRefund(t) \/ CommitConfirmRefund(t) \/ Abort(t)

Spec == Init /\ [][Next]_vars

-----------------------------------------------------------------------------
(* Every variable has its type.                                              *)
RaceTypeOK ==
  /\ order \in OrderStatus
  /\ payment \in PaymentStatus
  /\ refunded \in Nat
  /\ announced \subseteq {"paid", "voided", "full", "partial"}
  /\ manual \in [Manuals -> [status : {"absent", "manual_required", "succeeded"},
                             amount : 0 .. Price]]
  /\ tx \in [Tx -> [op : Ops \cup {"none"}, read : SUBSET {"payment", "order", "refunds"},
                    order : OrderStatus \cup {"none"}, payment : PaymentStatus \cup {"none"},
                    refunded : Nat, waiting : SUBSET Manuals, amount : 0 .. Price,
                    manual : SUBSET Manuals]]

(* Whatever overlaps, the event a status stands for is in the outbox: a      *)
(* reader that finds an order paid, refunded or voided will see the consumers *)
(* told of it.                                                               *)
StatusIsAnnounced ==
  /\ order \in {"paid", "partially_refunded", "refunded"} => "paid" \in announced
  /\ order = "partially_refunded" => "partial" \in announced
  /\ order = "refunded" => "full" \in announced
  /\ order = "voided" => "voided" \in announced

(* Whatever overlaps, no refund is recorded or announced for an order whose  *)
(* payment was never announced.                                              *)
OnlyBoughtIsRefunded ==
  (announced \cap {"full", "partial"} # {} \/ refunded > 0) => "paid" \in announced
=============================================================================
