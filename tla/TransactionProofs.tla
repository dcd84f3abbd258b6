-------------------------- MODULE TransactionProofs --------------------------
(***************************************************************************)
(* What holds of database transactions that overlap, however many there    *)
(* are.                                                                    *)
(*                                                                         *)
(* Commerce transactions on one order, whatever the payment's amount: the  *)
(* committed rows alone are not inductive, since a transaction writes what *)
(* it decided on rows it read earlier, so the invariant also says what     *)
(* such a snapshot is worth.                                               *)
(*                                                                         *)
(* Deliveries of one webhook: the event is applied at most once, and       *)
(* acknowledged only when it can no longer be lost, for any number of      *)
(* failures.                                                               *)
(*                                                                         *)
(* The plans and prices of one product, without transactions, where unique *)
(* indexes and foreign keys are what keeps the rows in order, and taking a *)
(* plan off sale first is what keeps its row and its price together.       *)
(***************************************************************************)
EXTENDS CommerceRace, WebhookInbox, ProductOffers, TLAPS

-----------------------------------------------------------------------------
(*                    Commerce transactions on one order                     *)

Bought == {"paid", "partially_refunded", "refunded"}

(* An order that some transaction saw bought has been announced as paid, for *)
(* ever: no row of the outbox is taken back.                                 *)
SnapshotsAreOld == \A t \in Tx : tx[t].order \in Bought => "paid" \in announced

IInv == RaceTypeOK /\ StatusIsAnnounced /\ OnlyBoughtIsRefunded /\ SnapshotsAreOld

Snapshot == [op : Ops \cup {"none"}, read : SUBSET {"payment", "order", "refunds"},
             order : OrderStatus \cup {"none"}, payment : PaymentStatus \cup {"none"},
             refunded : Nat, waiting : SUBSET Manuals, amount : 0 .. Price,
             manual : SUBSET Manuals]
Manual == [status : {"absent", "manual_required", "succeeded"}, amount : 0 .. Price]

(* A transaction that has not begun, or has ended, has read nothing.         *)
LEMMA IdleIsSnapshot == Idle \in Snapshot /\ Idle.order \notin Bought
BY RaceAssumption DEF Idle, Snapshot, Ops, OrderStatus, PaymentStatus, Bought

(* The transition table lets an order be refunded only from a bought state.  *)
LEMMA RefundedFromBought ==
  ASSUME NEW s, NEW next \in {"refunded", "partially_refunded"},
         CanTransitionOrder(s, next)
  PROVE  s \in Bought
BY DEF CanTransitionOrder, ORDER_STATUS_TRANSITIONS, OrderStatus, Bought

(* The invariant holds initially.                                            *)
LEMMA InitHolds == Init => IInv
<1> SUFFICES ASSUME Init PROVE IInv
  OBVIOUS
<1>1. RaceTypeOK
  BY IdleIsSnapshot, RaceAssumption
  DEF Init, RaceTypeOK, OrderStatus, PaymentStatus, Snapshot
<1>2. StatusIsAnnounced /\ OnlyBoughtIsRefunded
  BY DEF Init, StatusIsAnnounced, OnlyBoughtIsRefunded
<1>3. SnapshotsAreOld
  BY IdleIsSnapshot DEF Init, SnapshotsAreOld
<1> QED
  BY <1>1, <1>2, <1>3 DEF IInv

(* A step that writes no row keeps the invariant as long as the snapshot it  *)
(* takes is one of what is committed, or none.                               *)
LEMMA ReadingHolds ==
  ASSUME IInv, UNCHANGED rows, NEW t \in Tx, NEW x \in Snapshot,
         tx' = [tx EXCEPT ![t] = x],
         x.order \in {tx[t].order, order, "none"}
  PROVE  IInv'
<1>1. RaceTypeOK'
  BY DEF IInv, RaceTypeOK, rows, Snapshot
<1>2. StatusIsAnnounced' /\ OnlyBoughtIsRefunded'
  BY DEF IInv, StatusIsAnnounced, OnlyBoughtIsRefunded, rows
<1>3. SnapshotsAreOld'
  BY DEF IInv, RaceTypeOK, SnapshotsAreOld, StatusIsAnnounced, rows, Bought
<1> QED
  BY <1>1, <1>2, <1>3 DEF IInv

(* A step that commits keeps the invariant when the status it writes is      *)
(* announced, and what is refunded was bought.                               *)
LEMMA CommittingHolds ==
  ASSUME IInv, NEW t \in Tx, tx' = [tx EXCEPT ![t] = Idle],
         order' \in OrderStatus, payment' \in PaymentStatus, refunded' \in Nat,
         manual' \in [Manuals -> Manual],
         announced' \subseteq {"paid", "voided", "full", "partial"},
         announced \subseteq announced',
         StatusIsAnnounced', OnlyBoughtIsRefunded'
  PROVE  IInv'
<1>1. RaceTypeOK'
  BY IdleIsSnapshot DEF IInv, RaceTypeOK, Snapshot, Manual
<1>2. SnapshotsAreOld'
  BY IdleIsSnapshot DEF IInv, RaceTypeOK, SnapshotsAreOld
<1> QED
  BY <1>1, <1>2 DEF IInv

(* Every path by which a refund succeeds settles and announces it, of an     *)
(* order the transaction saw bought.                                         *)
LEMMA RefundingHolds ==
  ASSUME IInv, NEW t \in Tx, tx' = [tx EXCEPT ![t] = Idle], Settle(t), Tells(t),
         refunded' = refunded + tx[t].amount, manual' \in [Manuals -> Manual]
  PROVE  IInv'
<1> USE DEF IInv
<1>1. tx[t].order \in Bought
  <2>1. NextStatus(t) \in {"refunded", "partially_refunded"}
    BY DEF NextStatus
  <2>2. CASE Settled(t)
    BY <2>1, <2>2 DEF Settled, Bought
  <2>3. CASE ~Settled(t)
    BY <2>1, <2>3, RefundedFromBought DEF Settle
  <2> QED
    BY <2>2, <2>3
<1>2. "paid" \in announced
  BY <1>1 DEF SnapshotsAreOld
<1>3. tx[t].amount \in Nat /\ refunded' \in Nat
  BY RaceAssumption DEF RaceTypeOK
<1>4. announced' = announced \cup {IF IsFull(t) THEN "full" ELSE "partial"}
  BY DEF Tells, RefundFact
<1>5. \/ order' = order /\ payment' = payment
      \/ /\ order' = IF IsFull(t) THEN "refunded" ELSE "partially_refunded"
         /\ payment' = IF IsFull(t) THEN "refunded" ELSE payment
  BY DEF Settle, NextStatus
<1>6. StatusIsAnnounced' /\ OnlyBoughtIsRefunded'
  BY <1>2, <1>4, <1>5 DEF StatusIsAnnounced, OnlyBoughtIsRefunded
<1>7. /\ order' \in OrderStatus /\ payment' \in PaymentStatus
      /\ announced' \subseteq {"paid", "voided", "full", "partial"}
  BY <1>4, <1>5 DEF RaceTypeOK, OrderStatus, PaymentStatus
<1> QED
  BY <1>3, <1>4, <1>6, <1>7, CommittingHolds

(* Every step keeps the invariant.                                           *)
LEMMA StepHolds == IInv /\ [Next]_vars => IInv'
<1> SUFFICES ASSUME IInv, [Next]_vars PROVE IInv'
  OBVIOUS
<1> USE DEF IInv
<1>1. CASE UNCHANGED vars
  BY <1>1 DEF vars, rows, RaceTypeOK, StatusIsAnnounced, OnlyBoughtIsRefunded, SnapshotsAreOld
<1>2. ASSUME NEW t \in Tx, NEW what \in Ops, NEW a \in 0 .. Price, Begin(t, what, a)
      PROVE  IInv'
  <2> DEFINE x == [Idle EXCEPT !.op = what, !.amount = a]
  <2>1. x \in Snapshot /\ x.order = "none"
    BY IdleIsSnapshot DEF Idle, Snapshot
  <2> QED
    BY <1>2, <2>1, ReadingHolds DEF Begin
<1>12. ASSUME NEW t \in Tx, NEW m \in Manuals, BeginConfirmRefund(t, m) PROVE IInv'
  <2> DEFINE x == [Idle EXCEPT !.op = "confirmRefund", !.amount = manual[m].amount,
                               !.manual = {m}]
  <2>1. x \in Snapshot /\ x.order = "none"
    BY IdleIsSnapshot DEF Idle, Snapshot, Ops, RaceTypeOK
  <2> QED
    BY <1>12, <2>1, ReadingHolds DEF BeginConfirmRefund
<1>3. ASSUME NEW t \in Tx, ReadPayment(t) PROVE IInv'
  <2> DEFINE x == [tx[t] EXCEPT !.read = @ \cup {"payment"}, !.payment = payment]
  <2>1. x \in Snapshot /\ x.order = tx[t].order /\ tx' = [tx EXCEPT ![t] = x]
    BY <1>3 DEF ReadPayment, RaceTypeOK, Snapshot
  <2> QED
    BY <1>3, <2>1, ReadingHolds DEF ReadPayment
<1>4. ASSUME NEW t \in Tx, ReadOrder(t) PROVE IInv'
  <2> DEFINE x == [tx[t] EXCEPT !.read = @ \cup {"order"}, !.order = order]
  <2>1. x \in Snapshot /\ x.order = order /\ tx' = [tx EXCEPT ![t] = x]
    BY <1>4 DEF ReadOrder, RaceTypeOK, Snapshot
  <2> QED
    BY <1>4, <2>1, ReadingHolds DEF ReadOrder
<1>5. ASSUME NEW t \in Tx, ReadRefunds(t) PROVE IInv'
  <2> DEFINE x == [tx[t] EXCEPT !.read = @ \cup {"refunds"}, !.refunded = refunded,
                            !.waiting = Waiting]
  <2>1. x \in Snapshot /\ x.order = tx[t].order /\ tx' = [tx EXCEPT ![t] = x]
    BY <1>5 DEF ReadRefunds, RaceTypeOK, Snapshot, Waiting
  <2> QED
    BY <1>5, <2>1, ReadingHolds DEF ReadRefunds
<1>6. ASSUME NEW t \in Tx, Abort(t) PROVE IInv'
  BY <1>6, IdleIsSnapshot, ReadingHolds DEF Abort, Idle
<1>7. ASSUME NEW t \in Tx, CommitConfirm(t) PROVE IInv'
  <2>1. StatusIsAnnounced' /\ OnlyBoughtIsRefunded'
    BY <1>7 DEF CommitConfirm, StatusIsAnnounced, OnlyBoughtIsRefunded
  <2> QED
    BY <1>7, <2>1, CommittingHolds
    DEF CommitConfirm, Commits, RaceTypeOK, OrderStatus, PaymentStatus, Manual
<1>8. ASSUME NEW t \in Tx, CommitFail(t) PROVE IInv'
  <2>1. StatusIsAnnounced' /\ OnlyBoughtIsRefunded'
    BY <1>8 DEF CommitFail, StatusIsAnnounced, OnlyBoughtIsRefunded
  <2> QED
    BY <1>8, <2>1, CommittingHolds DEF CommitFail, Commits, RaceTypeOK, PaymentStatus, Manual
<1>9. ASSUME NEW t \in Tx, CommitCancel(t) PROVE IInv'
  <2>1. StatusIsAnnounced' /\ OnlyBoughtIsRefunded'
    BY <1>9 DEF CommitCancel, StatusIsAnnounced, OnlyBoughtIsRefunded
  <2> QED
    BY <1>9, <2>1, CommittingHolds
    DEF CommitCancel, PaymentAfterCancel, Commits, RaceTypeOK, OrderStatus, PaymentStatus, Manual
<1>10. ASSUME NEW t \in Tx, CommitVoid(t) PROVE IInv'
  <2>1. StatusIsAnnounced' /\ OnlyBoughtIsRefunded'
    BY <1>10 DEF CommitVoid, StatusIsAnnounced, OnlyBoughtIsRefunded
  <2> QED
    BY <1>10, <2>1, CommittingHolds
    DEF CommitVoid, Commits, RaceTypeOK, OrderStatus, PaymentStatus, Manual
<1>11. ASSUME NEW t \in Tx, CommitRefund(t) PROVE IInv'
  BY <1>11, RefundingHolds, RaceAssumption
  DEF CommitRefund, MayRequest, Commits, RaceTypeOK, Manual
<1>13. ASSUME NEW t \in Tx, NEW m \in Manuals, CommitManualRefund(t, m) PROVE IInv'
  <2>1. StatusIsAnnounced' /\ OnlyBoughtIsRefunded'
    BY <1>13 DEF CommitManualRefund, StatusIsAnnounced, OnlyBoughtIsRefunded
  <2>2. manual' \in [Manuals -> Manual]
    BY <1>13 DEF CommitManualRefund, RaceTypeOK, Manual
  <2> QED
    BY <1>13, <2>1, <2>2, CommittingHolds
    DEF CommitManualRefund, MayRequest, Commits, RaceTypeOK
<1>14. ASSUME NEW t \in Tx, CommitConfirmRefund(t) PROVE IInv'
  <2>1. manual' \in [Manuals -> Manual]
    BY <1>14 DEF CommitConfirmRefund, RaceTypeOK, Manual
  <2> QED
    BY <1>14, <2>1, RefundingHolds DEF CommitConfirmRefund, Commits
<1> QED
  BY <1>1, <1>2, <1>3, <1>4, <1>5, <1>6, <1>7, <1>8, <1>9, <1>10, <1>11,
     <1>12, <1>13, <1>14 DEF Next

-----------------------------------------------------------------------------
(* The invariant holds in every reachable state.                             *)
THEOREM Invariance == Spec => []IInv
BY InitHolds, StepHolds, PTL DEF Spec

(* However many transactions overlap, every variable keeps its type.         *)
THEOREM RaceTypeCorrect == Spec => []RaceTypeOK
BY Invariance, PTL DEF IInv

(* However many transactions overlap, the status the order is left in has    *)
(* been announced in the outbox: updateOrderStatus and enqueueOutbox commit  *)
(* together on every path.                                                   *)
THEOREM StatusAlwaysAnnounced == Spec => []StatusIsAnnounced
BY Invariance, PTL DEF IInv

(* However many transactions overlap, nothing is refunded, in the ledger or  *)
(* in the outbox, of an order whose payment was never announced.             *)
THEOREM NothingUnpaidIsRefunded == Spec => []OnlyBoughtIsRefunded
BY Invariance, PTL DEF IInv

-----------------------------------------------------------------------------
(*                     Deliveries of one webhook event                       *)

(* The unique key admits one transaction at a time, and none once the row is *)
(* committed; a delivery is past COMMIT only when the row is there.          *)
KeyIsExclusive ==
  /\ \A c, d \in Deliveries : HoldsKey(c) /\ HoldsKey(d) => c = d
  /\ \A d \in Deliveries : HoldsKey(d) => row = "absent"
  /\ \A d \in Deliveries : at[d] = "committed" => row = "processed"

InboxInv ==
  /\ InboxTypeOK
  /\ KeyIsExclusive
  /\ AppliedOnce
  /\ AcknowledgedIsApplied

LEMMA InboxInitHolds == InboxInit => InboxInv
<1> SUFFICES ASSUME InboxInit PROVE InboxInv
  OBVIOUS
<1>1. InboxTypeOK
  <2>1. at \in [Deliveries -> Steps] /\ row \in {"absent", "processed"} /\ applied \in Nat
        /\ answers \subseteq Answers /\ trouble \in 0 .. MaxTrouble
    BY InboxAssumption DEF InboxInit, Steps
  <2>2. known \in BOOLEAN
    BY DEF InboxInit
  <2> QED
    BY <2>1, <2>2 DEF InboxTypeOK
<1>2. \A d \in Deliveries : at[d] = "idle"
  BY DEF InboxInit
<1>3. KeyIsExclusive
  BY <1>2 DEF KeyIsExclusive, HoldsKey
<1> QED
  BY <1>1, <1>3 DEF InboxInit, InboxInv, AppliedOnce, AcknowledgedIsApplied

(* A step of delivery d that leaves the database alone and ends where the    *)
(* key is not held.                                                          *)
LEMMA LettingGo ==
  ASSUME InboxInv, NEW d \in Deliveries, NEW to \in {"idle", "open", "doomed"},
         at' = [at EXCEPT ![d] = to], UNCHANGED <<row, applied>>
  PROVE  at' \in [Deliveries -> Steps] /\ KeyIsExclusive' /\ AppliedOnce'
BY DEF InboxInv, InboxTypeOK, Steps, KeyIsExclusive, HoldsKey, AppliedOnce

LEMMA InboxStepHolds == InboxInv /\ [InboxNext]_inboxVars => InboxInv'
<1> SUFFICES ASSUME InboxInv, [InboxNext]_inboxVars PROVE InboxInv'
  OBVIOUS
<1> USE DEF InboxInv
<1>1. CASE UNCHANGED inboxVars \/ StorePayment
  BY <1>1 DEF inboxVars, StorePayment, InboxTypeOK, KeyIsExclusive, HoldsKey, AppliedOnce,
              AcknowledgedIsApplied
<1>2. ASSUME NEW d \in Deliveries, Deliver(d) PROVE InboxInv'
  BY <1>2, LettingGo DEF Deliver, Moves, InboxTypeOK, AcknowledgedIsApplied
<1>3. ASSUME NEW d \in Deliveries, Claim(d) PROVE InboxInv'
  <2>1. CASE row = "processed"
    BY <1>3, <2>1, LettingGo
    DEF Claim, ClaimResult, Moves, InboxTypeOK, AcknowledgedIsApplied
  <2>2. CASE row # "processed"
    <3>1. at' = [at EXCEPT ![d] = "claimed"] /\ row = "absent"
          /\ UNCHANGED <<known, row, applied, answers, trouble>>
      BY <1>3, <2>2 DEF Claim, ClaimResult, Moves, InboxTypeOK
    <3>2. \A c \in Deliveries : ~HoldsKey(c)
      BY <1>3 DEF Claim
    <3>3. InboxTypeOK'
      BY <3>1 DEF InboxTypeOK, Steps
    <3>4. KeyIsExclusive'
      BY <3>1, <3>2 DEF KeyIsExclusive, HoldsKey, InboxTypeOK
    <3> QED
      BY <3>1, <3>3, <3>4 DEF AppliedOnce, AcknowledgedIsApplied
  <2> QED
    BY <2>1, <2>2
<1>4. ASSUME NEW d \in Deliveries, ApplyEvent(d) PROVE InboxInv'
  <2>1. InboxTypeOK'
    BY <1>4 DEF ApplyEvent, Moves, InboxTypeOK, Steps
  <2>2. KeyIsExclusive'
    BY <1>4 DEF ApplyEvent, Moves, KeyIsExclusive, HoldsKey, InboxTypeOK
  <2> QED
    BY <1>4, <2>1, <2>2 DEF ApplyEvent, AppliedOnce, AcknowledgedIsApplied
<1>5. ASSUME NEW d \in Deliveries, PaymentNotFound(d) \/ ApplyThrows(d) PROVE InboxInv'
  <2>1. /\ at' = [at EXCEPT ![d] = "idle"] /\ UNCHANGED <<known, row, applied>>
        /\ trouble' \in 0 .. MaxTrouble
    BY <1>5, InboxAssumption DEF PaymentNotFound, ApplyThrows, Moves, InboxTypeOK
  <2>2. answers' \subseteq Answers /\ AcknowledgedIsApplied'
    BY <1>5 DEF PaymentNotFound, ApplyThrows, StatusOfFailure, Answer, Answers,
                InboxTypeOK, AcknowledgedIsApplied
  <2> QED
    BY <2>1, <2>2, LettingGo DEF InboxTypeOK
<1>6. ASSUME NEW d \in Deliveries, Commit(d) PROVE InboxInv'
  <2>1. HoldsKey(d) /\ row = "absent" /\ applied = 0
    BY <1>6 DEF Commit, Moves, HoldsKey, KeyIsExclusive, AppliedOnce
  <2>2. InboxTypeOK' /\ AppliedOnce'
    BY <1>6, <2>1 DEF Commit, Moves, InboxTypeOK, Steps, AppliedOnce
  <2>3. KeyIsExclusive'
    BY <1>6, <2>1 DEF Commit, Moves, InboxTypeOK, KeyIsExclusive, HoldsKey
  <2> QED
    BY <1>6, <2>2, <2>3 DEF Commit, AcknowledgedIsApplied
<1>7. ASSUME NEW d \in Deliveries, AnswerCommitted(d) \/ AnswerDoomed(d) PROVE InboxInv'
  <2>1. at' = [at EXCEPT ![d] = "idle"] /\ UNCHANGED <<known, row, applied, trouble>>
    BY <1>7 DEF AnswerCommitted, AnswerDoomed, Moves
  <2>2. answers' \subseteq Answers /\ AcknowledgedIsApplied'
    BY <1>7 DEF AnswerCommitted, AnswerDoomed, Moves, StatusOfFailure, Answer, Answers,
                KeyIsExclusive, InboxTypeOK, AcknowledgedIsApplied
  <2> QED
    BY <2>1, <2>2, LettingGo DEF InboxTypeOK
<1>8. ASSUME NEW d \in Deliveries, Crash(d) PROVE InboxInv'
  <2>1. trouble' \in 0 .. MaxTrouble
    BY <1>8, InboxAssumption DEF Crash, InboxTypeOK
  <2> QED
    BY <1>8, <2>1, LettingGo DEF Crash, InboxTypeOK, AcknowledgedIsApplied
<1> QED
  BY <1>1, <1>2, <1>3, <1>4, <1>5, <1>6, <1>7, <1>8 DEF InboxNext, Handle

-----------------------------------------------------------------------------
(* The invariant holds in every reachable state.                             *)
THEOREM InboxInvariance == InboxSpec => []InboxInv
BY InboxInitHolds, InboxStepHolds, PTL DEF InboxSpec

(* Every variable of the inbox keeps its type, whatever is delivered.        *)
THEOREM InboxTypeCorrect == InboxSpec => []InboxTypeOK
BY InboxInvariance, PTL DEF InboxInv

(* However many deliveries of one event overlap, fail or die, processWebhook *)
(* applies it at most once, and exactly when its row is committed.           *)
THEOREM EventAppliedOnce == InboxSpec => []AppliedOnce
BY InboxInvariance, PTL DEF InboxInv

(* The route answers success only for an event that is committed, or that    *)
(* named a payment not stored yet.                                           *)
THEOREM NoAcknowledgedEventIsLost == InboxSpec => []AcknowledgedIsApplied
BY InboxInvariance, PTL DEF InboxInv

(* However deliveries overlap, fail or die, an event is applied at most once *)
(* and is not acknowledged before it is safe.                                *)
THEOREM InboxIsExact == InboxSpec => []NeitherLostNorRepeated
BY EventAppliedOnce, NoAcknowledgedEventIsLost, PTL DEF NeitherLostNorRepeated

-----------------------------------------------------------------------------
(*                    Plans, prices and orders of a product                  *)

(* The types of the variables; a price keeps the plan it was created for.    *)
Stages == {"idle", "save", "price", "publish", "launch", "plans", "activate",
           "deletePlan", "deletePrice", "deleteProduct"}
Snapshots == UNION {[I -> SUBSET Prices] : I \in SUBSET Plans}

Works == [kind : Stages, form : Forms, fresh : SUBSET Plans, newest : Snapshots,
          todo : SUBSET Plans, at : Plans \cup Prices \cup {0}, publish : BOOLEAN]
Carts == [pc : {"none", "product", "price", "order"}, plan : Plans \cup {0},
          price : Prices \cup {0}, term : Values, amount : Amounts \cup {0}]
PriceRows == [status : {"active", "inactive"} \cup Gone, plan : Plans \cup {0},
              amount : Amounts \cup {0}, interval : Intervals]

OffersTypes ==
  /\ product \in {"active", "off", "deleted"}
  /\ plan \in [Plans -> [status : Rows \cup Gone, term : Values]]
  /\ price \in [Prices -> PriceRows]
  /\ \A k \in Prices : price[k].status # "none" => price[k].plan \in Plans
  /\ orders \subseteq [plan : Plans, price : Prices, term : Values, amount : Amounts]
  /\ op \in [Requests -> Works]
  /\ cart \in [Customers -> Carts]
  /\ \A c \in Customers : cart[c].pc # "none" => cart[c].plan \in Plans /\ cart[c].price \in Prices
  /\ \A c \in Customers : cart[c].pc = "order" => cart[c].amount \in Amounts
  /\ torn \subseteq Plans

(* What a request will write: the prices it read in its snapshot belong to   *)
(* the plan they are saved for, and they may be deleted but not gone back to *)
(* what they were before their creation.                                     *)
WorkFits(o) ==
  /\ o.kind \in {"save", "price"} =>
       /\ o.todo \subseteq DOMAIN o.form
       /\ DOMAIN o.newest = DOMAIN o.form
       /\ \A i \in DOMAIN o.form : \A k \in o.newest[i] :
            price[k].plan = i /\ price[k].status # "none"
  /\ o.kind = "price" => o.at \in DOMAIN o.form /\ o.form[o.at] \in Edits
  /\ o.kind = "deletePlan" => o.at \in Plans
  /\ o.kind = "deletePrice" => o.at \in Prices /\ price[o.at].status # "none"

(* prices_active_identity_unique: one active price for an interval.          *)
OneActivePrice ==
  \A k \in Prices : price[k].status = "active" =>
    ~IntervalTaken(price[k].plan, price[k].interval, k)

(* The inductive invariant of ProductOffers.  The rows alone are not         *)
(* inductive: a request writes prices of a snapshot it read when its form    *)
(* was saved.                                                                *)
OffersInv ==
  /\ OffersTypes
  /\ \A p \in Requests : WorkFits(op[p])
  /\ OneActivePrice
  /\ ReferencedRowsStay

-----------------------------------------------------------------------------
(* Requests and checkouts.                                                   *)

(* What a request starts to do fits the rows, whatever it does next.         *)
LEMMA DoingFits ==
  ASSUME NEW k \in Stages \ {"save", "price"}, NEW S \in SUBSET Plans,
         NEW n \in Plans \cup Prices \cup {0},
         k = "deletePlan" => n \in Plans,
         k = "deletePrice" => n \in Prices /\ price[n].status # "none"
  PROVE  Doing(k, S, n) \in Works /\ WorkFits(Doing(k, S, n))
<1>1. NoForm \in [{} -> Edits \cup {Removed}] /\ NoForm \in [{} -> SUBSET Prices]
  BY DEF NoForm
<1>2. {} \in SUBSET Plans
  OBVIOUS
<1>3. NoForm \in Forms /\ NoForm \in Snapshots
  BY <1>1, <1>2 DEF Forms, Snapshots
<1> QED
  BY <1>2, <1>3 DEF Doing, Works, WorkFits

(* ... and so does doing nothing.                                            *)
LEMMA IdleFits == NoRequest \in Works /\ WorkFits(NoRequest)
<1>1. "idle" \in Stages \ {"save", "price"} /\ {} \in SUBSET Plans
  BY DEF Stages
<1> QED
  BY <1>1, DoingFits DEF NoRequest

(* A form that is saved stays what was sent.                                 *)
LEMMA SavingFits ==
  ASSUME OffersTypes, NEW o \in Works, WorkFits(o), o.kind \in {"save", "price"},
         NEW k \in {"save", "price"}, NEW S \in SUBSET o.todo,
         NEW n \in Plans \cup {0}, NEW b \in BOOLEAN,
         k = "price" => n \in DOMAIN o.form /\ o.form[n] \in Edits
  PROVE  Saving(o, k, S, n, b) \in Works /\ WorkFits(Saving(o, k, S, n, b))
BY DEF Saving, Works, WorkFits, Stages

(* What follows the last plan of a form.                                     *)
LEMMA NextFits ==
  ASSUME NEW o \in Works, WorkFits(o)
  PROVE  NextOf(o) \in Works /\ WorkFits(NextOf(o))
<1>1. "publish" \in Stages \ {"save", "price"} /\ {} \in SUBSET Plans
  BY DEF Stages
<1> QED
  BY <1>1, IdleFits, DoingFits DEF NextOf

(* A price keeps its plan from its creation on.                              *)
PricesKept ==
  \A k \in Prices : price[k].status # "none" =>
    price'[k].status # "none" /\ price'[k].plan = price[k].plan

(* What others write does not disturb a request.                             *)
LEMMA WorkKept ==
  ASSUME OffersTypes, PricesKept, NEW o \in Works, WorkFits(o)
  PROVE  WorkFits(o)'
<1>1. \A i \in DOMAIN o.form : i \in DOMAIN o.newest => o.newest[i] \subseteq Prices
  BY DEF Works, Snapshots
<1> QED
  BY <1>1 DEF WorkFits, PricesKept

(* A step of one request, as the others see it.                              *)
LEMMA RequestStep ==
  ASSUME OffersInv, PricesKept, NEW p \in Requests, NEW o \in Works, WorkFits(o), Goes(p, o)
  PROVE  op' \in [Requests -> Works] /\ \A q \in Requests : WorkFits(op[q])'
<1>1. WorkFits(o)' /\ \A q \in Requests : WorkFits(op[q]) /\ op[q] \in Works
  BY WorkKept DEF OffersInv, OffersTypes
<1>2. op' \in [Requests -> Works] /\ op'[p] = o /\ \A q \in Requests : q # p => op'[q] = op[q]
  BY DEF Goes, OffersInv, OffersTypes
<1>3. ASSUME NEW q \in Requests, op'[q] \in Works, WorkFits(op'[q]) PROVE WorkFits(op[q])'
  BY <1>3, WorkKept DEF OffersInv, WorkFits, PricesKept, Works, Snapshots
<1> QED
  BY <1>1, <1>2, <1>3

(* A step of no request.                                                     *)
LEMMA RequestsStay ==
  ASSUME OffersInv, PricesKept, op' = op
  PROVE  op' \in [Requests -> Works] /\ \A q \in Requests : WorkFits(op[q])'
<1>1. ASSUME NEW q \in Requests PROVE WorkFits(op[q])'
  <2>1. op[q] \in Works /\ WorkFits(op[q])
    BY DEF OffersInv, OffersTypes
  <2>2. \A i \in DOMAIN op[q].form : i \in DOMAIN op[q].newest => op[q].newest[i] \subseteq Prices
    BY <2>1 DEF Works, Snapshots
  <2> QED
    BY <2>1, <2>2 DEF WorkFits, PricesKept
<1> QED
  BY <1>1 DEF OffersInv, OffersTypes

(* A request goes on without writing a row.                                  *)
LEMMA OnlyRequest ==
  ASSUME OffersInv, NEW p \in Requests, NEW o \in Works, WorkFits(o), Goes(p, o),
         UNCHANGED <<catalog, orders, cart>>, torn' \subseteq Plans
  PROVE  OffersInv'
<1> USE DEF catalog
<1>1. PricesKept
  BY DEF PricesKept
<1>2. op' \in [Requests -> Works] /\ \A q \in Requests : WorkFits(op[q])'
  BY <1>1, RequestStep
<1>3. OffersTypes'
  BY <1>2 DEF OffersInv, OffersTypes
<1> QED
  BY <1>2, <1>3 DEF OffersInv, OneActivePrice, IntervalTaken, PricesOf, ReferencedRowsStay

(* A checkout goes on without ordering.                                      *)
LEMMA OnlyCart ==
  ASSUME OffersInv, NEW c \in Customers, NEW b \in Carts, cart' = [cart EXCEPT ![c] = b],
         b.pc # "none" => b.plan \in Plans /\ b.price \in Prices,
         b.pc = "order" => b.amount \in Amounts,
         UNCHANGED <<catalog, orders, op, history>>
  PROVE  OffersInv'
<1> USE DEF catalog, history
<1>1. OffersTypes'
  BY DEF OffersInv, OffersTypes
<1>2. \A p \in Requests : WorkFits(op[p])'
  BY DEF OffersInv, WorkFits
<1> QED
  BY <1>1, <1>2 DEF OffersInv, OneActivePrice, IntervalTaken, PricesOf, ReferencedRowsStay

(* Plans change, and the rows of prices do not: no plan leaves that has a    *)
(* price or an order, and none comes without a product.                      *)
LEMMA OnlyPlans ==
  ASSUME OffersInv, UNCHANGED <<product, price, orders, cart>>, torn' \subseteq Plans,
         plan' \in [Plans -> [status : Rows \cup Gone, term : Values]],
         \A i \in Plans : plan[i].status \in Rows => plan'[i].status \in Rows,
         \A i \in Plans :
           plan[i].status \in Gone /\ product = "deleted" => plan'[i].status \in Gone,
         \/ op' = op
         \/ \E p \in Requests, o \in Works : WorkFits(o) /\ Goes(p, o)
  PROVE  OffersInv'
<1>1. PricesKept
  BY DEF PricesKept
<1>2. op' \in [Requests -> Works] /\ \A q \in Requests : WorkFits(op[q])'
  BY <1>1, RequestStep, RequestsStay
<1>3. OffersTypes'
  BY <1>2 DEF OffersInv, OffersTypes
<1>4. OneActivePrice'
  BY DEF OffersInv, OneActivePrice, IntervalTaken, PricesOf
<1>5. ReferencedRowsStay'
  <2>1. ASSUME NEW o \in orders
        PROVE  plan'[o.plan].status \in Rows /\ price[o.price].status \notin Gone
    BY DEF OffersInv, OffersTypes, ReferencedRowsStay
  <2>2. ASSUME NEW k \in Prices, price[k].status \notin Gone
        PROVE  plan'[price[k].plan].status \in Rows
    BY <2>2 DEF OffersInv, OffersTypes, ReferencedRowsStay, Gone
  <2>3. product = "deleted" => \A i \in Plans : plan'[i].status \in Gone
    BY DEF OffersInv, ReferencedRowsStay
  <2> QED
    BY <2>1, <2>2, <2>3 DEF ReferencedRowsStay
<1> QED
  BY <1>2, <1>3, <1>4, <1>5 DEF OffersInv

-----------------------------------------------------------------------------
(* Prices: a price is written for a plan that is there, and it becomes       *)
(* active where none is.                                                     *)
LEMMA PriceWritten ==
  ASSUME OffersInv, NEW k \in Prices, NEW line \in PriceRows, price' = [price EXCEPT ![k] = line],
         line.status # "none", line.plan \in Plans,
         price[k].status # "none" => line.plan = price[k].plan,
         line.status = "deleted" \/ (plan[line.plan].status \in Rows),
         line.status = "active" => ~IntervalTaken(line.plan, line.interval, k),
         line.status = "deleted" => ~OrderedPrice(k),
         UNCHANGED <<product, plan, orders, cart, torn>>,
         \/ op' = op
         \/ \E p \in Requests, o \in Works : WorkFits(o) /\ Goes(p, o)
  PROVE  OffersInv'
<1>1. PricesKept
  BY DEF PricesKept, OffersInv, OffersTypes
<1>2. op' \in [Requests -> Works] /\ \A q \in Requests : WorkFits(op[q])'
  BY <1>1, RequestStep, RequestsStay
<1>3. price' \in [Prices -> PriceRows] /\ price'[k] = line /\ \A l \in Prices : l # k =>
        price'[l] = price[l]
  BY DEF OffersInv, OffersTypes
<1>4. OffersTypes'
  BY <1>2, <1>3 DEF OffersInv, OffersTypes
<1>5. OneActivePrice'
  <2> SUFFICES ASSUME NEW a \in Prices, NEW b \in Prices, a # b,
                      price'[a].status = "active", price'[b].status = "active",
                      price'[a].plan = price'[b].plan, price'[a].interval = price'[b].interval
               PROVE  FALSE
    BY DEF OneActivePrice, IntervalTaken, PricesOf
  <2>1. CASE a = k
    BY <1>3, <2>1 DEF IntervalTaken, PricesOf, Gone
  <2>2. CASE b = k
    BY <1>3, <2>2 DEF IntervalTaken, PricesOf, Gone
  <2>3. CASE a # k /\ b # k
    BY <1>3, <2>3 DEF OffersInv, OneActivePrice, IntervalTaken, PricesOf, Gone
  <2> QED
    BY <2>1, <2>2, <2>3
<1>6. ReferencedRowsStay'
  <2>1. ASSUME NEW o \in orders PROVE price'[o.price].status \notin Gone
    <3>1. o.price \in Prices /\ price[o.price].status \notin Gone
      BY DEF OffersInv, OffersTypes, ReferencedRowsStay
    <3>2. CASE o.price = k
      BY <1>3, <3>1, <3>2 DEF OrderedPrice, Gone
    <3> QED
      BY <1>3, <3>1, <3>2
  <2>2. ASSUME NEW l \in Prices, price'[l].status \notin Gone
        PROVE  plan[price'[l].plan].status \in Rows
    BY <1>3, <2>2 DEF OffersInv, ReferencedRowsStay, Gone
  <2> QED
    BY <2>1, <2>2 DEF OffersInv, ReferencedRowsStay
<1> QED
  BY <1>2, <1>4, <1>5, <1>6 DEF OffersInv

(* createPrice: the new row takes the least id that is free.                 *)
LEMMA PriceInserted ==
  ASSUME OffersInv, NEW i \in Plans, NEW amount \in Amounts,
         NEW interval \in Intervals, InsertPrice(i, amount, interval), plan[i].status \in Rows,
         ~IntervalTaken(i, interval, 0),
         UNCHANGED <<product, plan, orders, cart, torn>>,
         \/ op' = op
         \/ \E p \in Requests, o \in Works : WorkFits(o) /\ Goes(p, o)
  PROVE  OffersInv'
<1>1. PICK k \in Prices : price[k].status = "none"
        /\ price' = [price EXCEPT ![k] = Sold(i, amount, interval)]
  BY DEF InsertPrice
<1>2. Sold(i, amount, interval) \in PriceRows /\ Sold(i, amount, interval).status = "active"
      /\ Sold(i, amount, interval).plan = i /\ Sold(i, amount, interval).interval = interval
  BY DEF Sold, PriceRows
<1>3. ~IntervalTaken(i, interval, k)
  BY OffersAssumption DEF IntervalTaken, PricesOf
<1> QED
  BY <1>1, <1>2, <1>3, PriceWritten

-----------------------------------------------------------------------------
(* The steps.                                                                *)

(* saveStudioDraft: the form and the snapshot it starts from.                *)
LEMMA SaveStep ==
  ASSUME OffersInv, NEW p \in Requests, NEW form \in Forms, NEW b \in BOOLEAN,
         Save(p, form, b)
  PROVE  OffersInv'
<1> DEFINE fresh == {i \in DOMAIN form : plan[i].status = "none"}
           newest == [i \in DOMAIN form |-> Newest(i)]
           o == [kind |-> "save", form |-> form, fresh |-> fresh, newest |-> newest,
                 todo |-> DOMAIN form, at |-> 0, publish |-> b]
<1>1. DOMAIN form \in SUBSET Plans
  BY DEF Forms
<1>2. newest \in [DOMAIN form -> SUBSET Prices]
  BY DEF Newest, PricesOf
<1>3. newest \in Snapshots /\ fresh \in SUBSET Plans
  BY <1>1, <1>2 DEF Snapshots
<1>4. DOMAIN newest = DOMAIN form
  OBVIOUS
<1>5. \A i \in DOMAIN form : \A k \in newest[i] : price[k].plan = i /\ price[k].status # "none"
  BY DEF Newest, PricesOf, Gone
<1>6. Begins(p, NextOf(o)) /\ UNCHANGED <<catalog, orders, cart, torn>>
  BY DEF Save, history
<1> HIDE DEF fresh, newest
<1>7. o \in Works
  BY <1>1, <1>3 DEF Works, Stages
<1>8. WorkFits(o)
  BY <1>4, <1>5 DEF WorkFits
<1> QED
  BY <1>6, <1>7, <1>8, NextFits, OnlyRequest DEF Begins, OffersInv, OffersTypes

(* The edit of a plan: of what the form holds for it.                        *)
LEMMA EditOf ==
  ASSUME OffersInv, NEW p \in Requests, op[p].kind \in {"save", "price"}
  PROVE  /\ op[p] \in Works /\ WorkFits(op[p])
         /\ \A i \in DOMAIN op[p].form : i \in Plans /\ op[p].form[i] \in Edits \cup {Removed}
BY DEF OffersInv, OffersTypes, Works, Forms

(* ... each plan,                                                            *)
LEMMA SavePlanStep ==
  ASSUME OffersInv, NEW p \in Requests, NEW i \in Plans, SavePlan(p, i)
  PROVE  OffersInv'
<1>1. op[p] \in Works /\ WorkFits(op[p]) /\ i \in DOMAIN op[p].form /\ op[p].form[i] \in Edits
  BY EditOf DEF SavePlan, WorkFits
<1>2. CASE Savable(p, i)
  <2>1. Saving(op[p], "price", op[p].todo, i, op[p].publish) \in Works
        /\ WorkFits(Saving(op[p], "price", op[p].todo, i, op[p].publish))
    BY <1>1, SavingFits DEF SavePlan, OffersInv, Works
  <2>2. [status |-> "draft", term |-> op[p].form[i].term] \in [status : Rows \cup Gone, term :
          Values]
    BY <1>1, OffersAssumption DEF Edit, Rows, Values
  <2>3. plan' = [plan EXCEPT ![i] = [status |-> "draft", term |-> op[p].form[i].term]]
    BY <1>2 DEF SavePlan, SavedStatus
  <2>4. plan[i].status \in Gone => product # "deleted"
    BY <1>2 DEF Savable, Rows, Gone
  <2>5. /\ plan' \in [Plans -> [status : Rows \cup Gone, term : Values]]
        /\ \A j \in Plans : j # i => plan'[j] = plan[j]
        /\ plan'[i].status = "draft"
    BY <2>2, <2>3 DEF OffersInv, OffersTypes
  <2>6. torn' \subseteq Plans
    BY <1>2 DEF SavePlan, Tears, OffersInv, OffersTypes
  <2>7. Goes(p, Saving(op[p], "price", op[p].todo, i, op[p].publish))
        /\ UNCHANGED <<product, price, orders, cart>>
    BY <1>2 DEF SavePlan
  <2> QED
    BY <2>1, <2>4, <2>5, <2>6, <2>7, OnlyPlans DEF Rows
<1>3. CASE ~Savable(p, i)
  BY <1>3, IdleFits, OnlyRequest DEF SavePlan, Returns, catalog, OffersInv, OffersTypes
<1> QED
  BY <1>2, <1>3

(* ... and its price: the newest of the snapshot, or a new one.              *)
LEMMA SavePriceStep ==
  ASSUME OffersInv, NEW p \in Requests, SavePrice(p)
  PROVE  OffersInv'
<1> DEFINE i == op[p].at
           e == op[p].form[i]
           S == op[p].newest[i]
           k == IF S = {} THEN 0 ELSE CHOOSE n \in S : TRUE
           o == NextOf(Saving(op[p], "save", op[p].todo \ {i}, 0, op[p].publish))
<1>1. op[p] \in Works /\ WorkFits(op[p]) /\ i \in DOMAIN op[p].form /\ e \in Edits /\ i \in Plans
  BY EditOf DEF SavePrice, WorkFits
<1>2. e.amount \in Amounts /\ "" \in Intervals
  BY <1>1, OffersAssumption DEF Edit
<1>3. o \in Works /\ WorkFits(o)
  BY <1>1, SavingFits, NextFits DEF SavePrice, OffersInv, Works
<1>4. /\ plan[i].status \in Rows /\ ~IntervalTaken(i, "", k) /\ Goes(p, o)
      /\ k # 0 => price[k].status # "deleted"
      /\ IF k = 0 THEN InsertPrice(i, e.amount, "")
         ELSE price' = [price EXCEPT ![k] = Sold(price[k].plan, e.amount, "")]
      /\ UNCHANGED <<product, plan, orders, cart, torn>>
  BY DEF SavePrice
<1>5. S \subseteq Prices /\ \A n \in S : price[n].plan = i /\ price[n].status # "none"
  <2>1. S \subseteq Prices
    <3>1. PICK I \in SUBSET Plans : op[p].newest \in [I -> SUBSET Prices]
      BY <1>1 DEF Works, Snapshots
    <3>2. DOMAIN op[p].newest = DOMAIN op[p].form
      BY <1>1 DEF SavePrice, WorkFits
    <3> QED
      BY <1>1, <3>1, <3>2
  <2>2. \A n \in S : price[n].plan = i /\ price[n].status # "none"
    BY <1>1 DEF SavePrice, WorkFits
  <2> QED
    BY <2>1, <2>2
<1>6. S # {} => k \in S
  OBVIOUS
<1>7. 0 \notin Prices
  BY OffersAssumption
<1> HIDE DEF i, e, S, k, o
<1>8. CASE k = 0
  BY <1>1, <1>2, <1>3, <1>4, <1>8, PriceInserted
<1>9. CASE k # 0
  <2>1. k \in Prices /\ price[k].plan = i /\ price[k].status # "none"
    BY <1>5, <1>6, <1>9 DEF k
  <2> DEFINE line == Sold(price[k].plan, e.amount, "")
  <2>2. line \in PriceRows /\ line.status = "active" /\ line.plan = i /\ line.interval = ""
    BY <1>1, <1>2, <2>1 DEF Sold, PriceRows
  <2>3. price' = [price EXCEPT ![k] = line]
    BY <1>4, <1>9
  <2> HIDE DEF line
  <2> QED
    BY <1>1, <1>3, <1>4, <2>1, <2>2, <2>3, PriceWritten
<1> QED
  BY <1>8, <1>9

(* ... unless it is refused.                                                 *)
LEMMA SavePriceFailsStep ==
  ASSUME OffersInv, NEW p \in Requests, SavePriceFails(p)
  PROVE  OffersInv'
<1>1. op[p].at \in Plans
  BY EditOf DEF SavePriceFails, WorkFits
<1> QED
  BY <1>1, IdleFits, OnlyRequest DEF SavePriceFails, Returns, Tears, OffersInv, OffersTypes

(* archivePlan leaves the prices.                                            *)
LEMMA ArchivePlanStep ==
  ASSUME OffersInv, NEW p \in Requests, NEW i \in Plans, ArchivePlan(p, i)
  PROVE  OffersInv'
<1> DEFINE b == op[p].publish /\ plan[i].status \in Rows
           o == NextOf(Saving(op[p], "save", op[p].todo \ {i}, 0, b))
<1>1. op[p] \in Works /\ WorkFits(op[p])
  BY EditOf DEF ArchivePlan
<1>2. o \in Works /\ WorkFits(o)
  <2>1. b \in BOOLEAN
    BY <1>1 DEF Works
  <2> HIDE DEF b
  <2> QED
    BY <1>1, <2>1, SavingFits, NextFits DEF ArchivePlan, OffersInv
<1>3. /\ Goes(p, o) /\ UNCHANGED <<product, price, orders, cart, torn>>
      /\ \/ plan[i].status \in Rows /\ plan' = [plan EXCEPT ![i].status = "archived"]
         \/ plan' = plan
  BY DEF ArchivePlan
<1> HIDE DEF o
<1>4. /\ plan' \in [Plans -> [status : Rows \cup Gone, term : Values]]
      /\ \A j \in Plans : plan'[j] = plan[j]
           \/ (plan[j].status \in Rows /\ plan'[j].status \in Rows)
  BY <1>3 DEF OffersInv, OffersTypes, Rows
<1>5. \A s \in Rows : s \notin Gone
  BY DEF Rows, Gone
<1> QED
  BY <1>2, <1>3, <1>4, <1>5, OnlyPlans DEF OffersInv, OffersTypes

(* Setting the status of a plan changes no row that is not there.            *)
LEMMA StatusSet ==
  ASSUME OffersInv, NEW i \in Plans, NEW s \in Rows, SetStatus(i, s)
  PROVE  /\ plan' \in [Plans -> [status : Rows \cup Gone, term : Values]]
         /\ \A j \in Plans : plan[j].status \in Rows => plan'[j].status \in Rows
         /\ \A j \in Plans : plan[j].status \in Gone => plan'[j].status \in Gone
BY DEF SetStatus, OffersInv, OffersTypes, Rows, Gone

(* publish: the product, and then its plans.                                 *)
LEMMA PublishStep ==
  ASSUME OffersInv, NEW p \in Requests,
         \/ PublishCheck(p) \/ PublishProduct(p) \/ PublishPlans(p)
         \/ \E i \in Plans : ActivatePlan(p, i)
  PROVE  OffersInv'
<1>1. \A S \in SUBSET Plans, k \in {"launch", "plans", "activate"} :
        Doing(k, S, 0) \in Works /\ WorkFits(Doing(k, S, 0))
  BY DoingFits DEF Stages
<1>2. {} \in SUBSET Plans /\ torn \subseteq Plans
  BY DEF OffersInv, OffersTypes
<1>3. CASE PublishCheck(p)
  BY <1>1, <1>2, <1>3, IdleFits, OnlyRequest DEF PublishCheck, Returns, history
<1>4. CASE PublishPlans(p)
  <2> DEFINE S == {i \in Plans : Inactive(i) /\ Priced(i)}
  <2>1. S \in SUBSET Plans
    OBVIOUS
  <2>2. NextOf(Doing("activate", S, 0)) \in Works /\ WorkFits(NextOf(Doing("activate", S, 0)))
    BY <1>1, <2>1, NextFits
  <2> QED
    BY <1>2, <1>4, <2>2, OnlyRequest DEF PublishPlans, history
<1>5. CASE PublishProduct(p)
  <2>1. PricesKept
    BY <1>5 DEF PublishProduct, PricesKept
  <2>2. op' \in [Requests -> Works] /\ \A q \in Requests : WorkFits(op[q])'
    BY <1>1, <1>2, <1>5, <2>1, RequestStep DEF PublishProduct
  <2>3. OffersTypes'
    BY <1>5, <2>2 DEF PublishProduct, OffersInv, OffersTypes, history
  <2> QED
    BY <1>5, <2>2, <2>3 DEF PublishProduct, OffersInv, OneActivePrice, IntervalTaken, PricesOf,
       ReferencedRowsStay
<1>6. ASSUME NEW i \in Plans, ActivatePlan(p, i) PROVE OffersInv'
  <2>1. op[p].todo \ {i} \in SUBSET Plans
    BY DEF OffersInv, OffersTypes, Works
  <2>2. NextOf(Doing("activate", op[p].todo \ {i}, 0)) \in Works
        /\ WorkFits(NextOf(Doing("activate", op[p].todo \ {i}, 0)))
    BY <1>1, <2>1, NextFits
  <2>3. "active" \in Rows /\ torn' \subseteq Plans
    BY <1>2, <1>6 DEF Rows, ActivatePlan, Tears
  <2> QED
    BY <1>6, <2>2, <2>3, StatusSet, OnlyPlans DEF ActivatePlan
<1> QED
  BY <1>3, <1>4, <1>5, <1>6

(* The pages for plans and prices write one row at a time.                   *)
LEMMA PagesStep ==
  ASSUME OffersInv, Pages
  PROVE  OffersInv'
<1>0. torn \subseteq Plans
  BY DEF OffersInv, OffersTypes
<1>1. ASSUME NEW s \in {"active", "off"}, SetProductStatus(s) PROVE OffersInv'
  <2>1. PricesKept
    BY <1>1 DEF SetProductStatus, PricesKept
  <2>2. op' \in [Requests -> Works] /\ \A q \in Requests : WorkFits(op[q])'
    BY <1>1, <2>1, RequestsStay DEF SetProductStatus
  <2>3. OffersTypes'
    BY <1>1, <2>2 DEF SetProductStatus, OffersInv, OffersTypes, history
  <2> QED
    BY <1>1, <2>2, <2>3 DEF SetProductStatus, OffersInv, OneActivePrice, IntervalTaken, PricesOf,
       ReferencedRowsStay
<1>2. ASSUME NEW i \in Plans, CreatePlan(i) PROVE OffersInv'
  <2>1. /\ plan' \in [Plans -> [status : Rows \cup Gone, term : Values]]
        /\ \A j \in Plans : j # i => plan'[j] = plan[j]
        /\ plan'[i].status \in Rows
    BY <1>2 DEF CreatePlan, OffersInv, OffersTypes, Rows
  <2> QED
    BY <1>0, <1>2, <2>1, OnlyPlans DEF CreatePlan, history
<1>3. ASSUME NEW i \in Plans, NEW s \in Rows, SetPlanStatus(i, s) PROVE OffersInv'
  BY <1>0, <1>3, StatusSet, OnlyPlans DEF SetPlanStatus, Tears
<1>4. ASSUME NEW i \in Plans, NEW a \in Amounts, NEW id \in Intervals, CreatePrice(i, a, id)
      PROVE  OffersInv'
  BY <1>4, PriceInserted DEF CreatePrice
<1>5. ASSUME NEW k \in Prices, NEW b \in BOOLEAN, SetPriceActive(k, b) PROVE OffersInv'
  <2> DEFINE line == [price[k] EXCEPT !.status = IF b THEN "active" ELSE "inactive"]
  <2>1. price' = [price EXCEPT ![k] = line]
    BY <1>5 DEF SetPriceActive
  <2>2. price[k].status \notin Gone
    BY <1>5 DEF SetPriceActive, Gone
  <2>3. /\ line \in PriceRows /\ line.status = IF b THEN "active" ELSE "inactive"
        /\ line.plan = price[k].plan /\ line.interval = price[k].interval
    BY DEF OffersInv, OffersTypes, PriceRows
  <2>4. line.plan \in Plans /\ plan[line.plan].status \in Rows
    BY <2>2, <2>3 DEF OffersInv, OffersTypes, ReferencedRowsStay, Gone
  <2> HIDE DEF line
  <2> QED
    BY <1>5, <2>1, <2>3, <2>4, PriceWritten DEF SetPriceActive, history
<1> QED
  BY <1>1, <1>2, <1>3, <1>4, <1>5 DEF Pages

(* The foreign keys are judged when the row goes, whatever was counted.      *)
LEMMA DeleteRowStep ==
  ASSUME OffersInv, NEW p \in Requests, DeleteRow(p)
  PROVE  OffersInv'
<1> DEFINE n == op[p].at
           kind == op[p].kind
<1>1. /\ kind \in {"deletePlan", "deletePrice", "deleteProduct"}
      /\ Goes(p, NoRequest) /\ UNCHANGED <<orders, cart, torn>>
  BY DEF DeleteRow, Returns, history
<1>2. torn' \subseteq Plans
  BY <1>1 DEF OffersInv, OffersTypes
<1>3. CASE Restricted(kind, n)
  BY <1>1, <1>2, <1>3, IdleFits, OnlyRequest DEF DeleteRow
<1>4. CASE ~Restricted(kind, n) /\ kind = "deletePlan"
  <2>1. n \in Plans /\ ~OrderedPlan(n) /\ PricesOf(n) = {}
    BY <1>4 DEF Restricted, OffersInv, WorkFits
  <2>2. plan' = [plan EXCEPT ![n].status = "deleted"] /\ UNCHANGED <<product, price>>
    BY <1>4 DEF DeleteRow
  <2>3. PricesKept
    BY <2>2 DEF PricesKept
  <2>4. op' \in [Requests -> Works] /\ \A q \in Requests : WorkFits(op[q])'
    BY <1>1, <2>3, IdleFits, RequestStep
  <2>5. /\ plan' \in [Plans -> [status : Rows \cup Gone, term : Values]]
        /\ plan'[n].status \in Gone /\ \A i \in Plans : i # n => plan'[i] = plan[i]
    BY <2>1, <2>2 DEF OffersInv, OffersTypes, Gone
  <2>6. OffersTypes'
    BY <1>1, <2>2, <2>4, <2>5 DEF OffersInv, OffersTypes
  <2>7. OneActivePrice'
    BY <2>2 DEF OffersInv, OneActivePrice, IntervalTaken, PricesOf
  <2>8. ReferencedRowsStay'
    <3>1. ASSUME NEW o \in orders
          PROVE  plan'[o.plan].status \in Rows /\ price[o.price].status \notin Gone
      BY <2>1, <2>5 DEF OrderedPlan, OffersInv, OffersTypes, ReferencedRowsStay
    <3>2. ASSUME NEW k \in Prices, price[k].status \notin Gone
          PROVE  plan'[price[k].plan].status \in Rows
      BY <2>1, <2>5, <3>2 DEF PricesOf, OffersInv, OffersTypes, ReferencedRowsStay, Gone
    <3>3. product = "deleted" => \A i \in Plans : plan'[i].status \in Gone
      BY <2>5 DEF OffersInv, ReferencedRowsStay
    <3> QED
      BY <1>1, <2>2, <3>1, <3>2, <3>3 DEF ReferencedRowsStay
  <2> QED
    BY <2>4, <2>6, <2>7, <2>8 DEF OffersInv
<1>5. CASE ~Restricted(kind, n) /\ kind = "deletePrice"
  <2> DEFINE line == [price[n] EXCEPT !.status = "deleted"]
  <2>1. n \in Prices /\ ~OrderedPrice(n)
    BY <1>5 DEF Restricted, OffersInv, WorkFits
  <2>2. price' = [price EXCEPT ![n] = line] /\ UNCHANGED <<product, plan>>
    BY <1>5 DEF DeleteRow
  <2>3. line \in PriceRows /\ line.status = "deleted" /\ line.plan = price[n].plan
    BY <2>1 DEF OffersInv, OffersTypes, PriceRows, Gone
  <2> HIDE DEF line
  <2>4. line.plan \in Plans
    BY <1>5, <2>1, <2>3 DEF OffersInv, OffersTypes, WorkFits
  <2> QED
    BY <1>1, <2>1, <2>2, <2>3, <2>4, IdleFits, PriceWritten
<1>6. CASE ~Restricted(kind, n) /\ kind = "deleteProduct"
  <2>1. \A i \in Plans : plan[i].status \notin Rows
    BY <1>6 DEF Restricted
  <2>2. product' = "deleted" /\ UNCHANGED <<plan, price>>
    BY <1>6 DEF DeleteRow
  <2>3. PricesKept
    BY <2>2 DEF PricesKept
  <2>4. op' \in [Requests -> Works] /\ \A q \in Requests : WorkFits(op[q])'
    BY <1>1, <2>3, IdleFits, RequestStep
  <2>5. OffersTypes'
    BY <1>1, <2>2, <2>4 DEF OffersInv, OffersTypes
  <2>6. \A i \in Plans : plan[i].status \in Gone
    BY <2>1 DEF OffersInv, OffersTypes
  <2> QED
    BY <1>1, <2>2, <2>4, <2>5, <2>6 DEF OffersInv, OneActivePrice, IntervalTaken, PricesOf,
       ReferencedRowsStay
<1> QED
  BY <1>1, <1>3, <1>4, <1>5, <1>6

(* The counts that come before a deletion change nothing.                    *)
LEMMA DeleteStep ==
  ASSUME OffersInv, NEW p \in Requests, Delete(p)
  PROVE  OffersInv'
<1>1. {} \in SUBSET Plans /\ torn \subseteq Plans
  BY DEF OffersInv, OffersTypes
<1>2. ASSUME NEW i \in Plans, DeletePlan(p, i) PROVE OffersInv'
  <2>1. Doing("deletePlan", {}, i) \in Works /\ WorkFits(Doing("deletePlan", {}, i))
    BY <1>1, DoingFits DEF Stages
  <2> QED
    BY <1>1, <1>2, <2>1, OnlyRequest DEF DeletePlan, Begins, history
<1>3. ASSUME NEW k \in Prices, DeletePrice(p, k) PROVE OffersInv'
  <2>1. Doing("deletePrice", {}, k) \in Works /\ WorkFits(Doing("deletePrice", {}, k))
    BY <1>1, <1>3, DoingFits DEF Stages, DeletePrice, Gone
  <2> QED
    BY <1>1, <1>3, <2>1, OnlyRequest DEF DeletePrice, Begins, history
<1>4. ASSUME DeleteProduct(p) PROVE OffersInv'
  <2>1. Doing("deleteProduct", {}, 0) \in Works /\ WorkFits(Doing("deleteProduct", {}, 0))
    BY <1>1, DoingFits DEF Stages
  <2> QED
    BY <1>1, <1>4, <2>1, OnlyRequest DEF DeleteProduct, Begins, history
<1> QED
  BY <1>2, <1>3, <1>4, DeleteRowStep DEF Delete

(* An order names the plan and the price that were read, and the database    *)
(* refuses it when one of them is gone.                                      *)
LEMMA PlaceOrderStep ==
  ASSUME OffersInv, NEW c \in Customers, PlaceOrder(c)
  PROVE  OffersInv'
<1> DEFINE b == cart[c]
           o == [plan |-> b.plan, price |-> b.price, term |-> b.term, amount |-> b.amount]
<1>1. /\ b.pc = "order" /\ cart' = [cart EXCEPT ![c] = NoCart]
      /\ UNCHANGED <<product, plan, price, op, torn>>
      /\ \/ orders' = orders
         \/ /\ orders' = orders \cup {o}
            /\ plan[b.plan].status \in Rows /\ price[b.price].status \notin Gone
  BY DEF PlaceOrder, catalog, history
<1>2. o \in [plan : Plans, price : Prices, term : Values, amount : Amounts]
  BY <1>1 DEF OffersInv, OffersTypes, Carts
<1>3. NoCart \in Carts /\ NoCart.pc = "none"
  BY DEF NoCart, Cart, Carts, Values
<1>4. OffersTypes'
  BY <1>1, <1>2, <1>3 DEF OffersInv, OffersTypes
<1>5. \A p \in Requests : WorkFits(op[p])'
  BY <1>1 DEF OffersInv, WorkFits
<1>6. ReferencedRowsStay'
  BY <1>1 DEF OffersInv, ReferencedRowsStay
<1> QED
  BY <1>1, <1>4, <1>5, <1>6 DEF OffersInv, OneActivePrice, IntervalTaken, PricesOf

(* A checkout writes no row of the catalogue.                                *)
LEMMA CheckoutStep ==
  ASSUME OffersInv, NEW c \in Customers, Checkout(c)
  PROVE  OffersInv'
<1>1. NoCart \in Carts /\ NoCart.pc = "none" /\ cart[c] \in Carts
  BY DEF NoCart, Cart, Carts, Values, OffersInv, OffersTypes
<1>2. ASSUME NEW i \in Plans, NEW k \in Prices, ReadPlan(c, i, k) PROVE OffersInv'
  <2> DEFINE b == Cart("product", i, k, plan[i].term, 0)
  <2>1. b \in Carts /\ b.plan = i /\ b.price = k /\ b.pc = "product"
    BY DEF Cart, Carts, OffersInv, OffersTypes
  <2> HIDE DEF b
  <2>2. cart' = [cart EXCEPT ![c] = b] /\ UNCHANGED <<catalog, orders, op, history>>
    BY <1>2 DEF ReadPlan, b
  <2> QED
    BY <2>1, <2>2, OnlyCart
<1>3. CASE ReadProduct(c)
  <2> DEFINE b == IF product = "active" THEN [cart[c] EXCEPT !.pc = "price"] ELSE NoCart
  <2>1. /\ b \in Carts /\ b.pc # "order"
        /\ b.pc # "none" => b.plan = cart[c].plan /\ b.price = cart[c].price
    BY <1>1 DEF Carts
  <2> HIDE DEF b
  <2>2. cart' = [cart EXCEPT ![c] = b] /\ UNCHANGED <<catalog, orders, op, history>>
    BY <1>3 DEF ReadProduct, b
  <2>3. cart[c].plan \in Plans /\ cart[c].price \in Prices
    BY <1>3 DEF ReadProduct, OffersInv, OffersTypes
  <2> QED
    BY <2>1, <2>2, <2>3, OnlyCart
<1>4. CASE ReadPrice(c)
  <2> DEFINE r == price[cart[c].price]
             b == IF r.status = "active" /\ r.amount > 0
                  THEN Cart("order", cart[c].plan, cart[c].price, cart[c].term,
                    r.amount) ELSE NoCart
  <2>1. cart[c].plan \in Plans /\ cart[c].price \in Prices
    BY <1>4 DEF ReadPrice, OffersInv, OffersTypes
  <2>2. r.amount \in Amounts \cup {0}
    BY <2>1 DEF OffersInv, OffersTypes, PriceRows
  <2>3. /\ b \in Carts
        /\ b.pc # "none" => b.plan = cart[c].plan /\ b.price = cart[c].price
        /\ b.pc = "order" => b.amount \in Amounts
    BY <1>1, <2>2 DEF Carts, Cart
  <2> HIDE DEF b
  <2>4. cart' = [cart EXCEPT ![c] = b] /\ UNCHANGED <<catalog, orders, op, history>>
    BY <1>4 DEF ReadPrice, b
  <2> QED
    BY <2>1, <2>3, <2>4, OnlyCart
<1>5. CASE Abandon(c)
  BY <1>1, <1>5, OnlyCart DEF Abandon
<1> QED
  BY <1>2, <1>3, <1>4, <1>5, PlaceOrderStep DEF Checkout

(* A request that dies leaves what it wrote.                                 *)
LEMMA StopStep ==
  ASSUME OffersInv, NEW p \in Requests, Stop(p)
  PROVE  OffersInv'
<1>1. torn' \subseteq Plans
  BY EditOf DEF Stop, WorkFits, OffersInv, OffersTypes
<1> QED
  BY <1>1, IdleFits, OnlyRequest DEF Stop, Returns

(* At first there is nothing to sell.                                        *)
LEMMA OffersInitHolds ==
  ASSUME OffersInit
  PROVE  OffersInv
<1>1. OffersTypes
  <2>1. NoCart \in Carts /\ NoCart.pc = "none"
    BY DEF NoCart, Cart, Carts, Values
  <2> QED
    BY <2>1, IdleFits, OffersAssumption DEF OffersInit, OffersTypes, PriceRows, Values, Gone
<1>2. \A p \in Requests : WorkFits(op[p])
  BY IdleFits DEF OffersInit
<1> QED
  BY <1>1, <1>2 DEF OffersInit, OffersInv, OneActivePrice, ReferencedRowsStay, Gone

(* The invariant is inductive.                                               *)
LEMMA OffersStepHolds ==
  ASSUME OffersInv, [OffersNext]_offerVars
  PROVE  OffersInv'
<1>1. ASSUME NEW p \in Requests, Studio(p) PROVE OffersInv'
  BY <1>1, SaveStep, SavePlanStep, ArchivePlanStep, SavePriceStep, SavePriceFailsStep, PublishStep
     DEF Studio
<1>2. CASE UNCHANGED offerVars
  <2>1. UNCHANGED <<product, plan, price, orders, op, cart, torn>>
    BY <1>2 DEF offerVars, catalog, history
  <2> QED
    BY <2>1 DEF OffersInv, OffersTypes, WorkFits, OneActivePrice, IntervalTaken, PricesOf,
       ReferencedRowsStay
<1> QED
  BY <1>1, <1>2, DeleteStep, StopStep, PagesStep, CheckoutStep DEF OffersNext

(* The strengthened invariant of plans, prices and orders holds.             *)
THEOREM OffersInvariance == OffersSpec => []OffersInv
<1>1. OffersInit => OffersInv
  BY OffersInitHolds
<1>2. OffersInv /\ [OffersNext]_offerVars => OffersInv'
  BY OffersStepHolds
<1> QED
  BY <1>1, <1>2, PTL DEF OffersSpec

(* However forms are saved, published, deleted and ordered at once, a plan   *)
(* has one active price for an interval, what an order names is there, and   *)
(* no plan goes before its prices, nor the product before its plans.         *)
THEOREM RowsInOrder == OffersSpec => []RowsStayInOrder
<1>1. OffersInv => RowsStayInOrder
  BY DEF OffersInv, OffersTypes, OneActivePrice, Works, Carts, PriceRows, OffersTypeOK,
     RowsStayInOrder
<1> QED
  BY <1>1, OffersInvariance, PTL
-----------------------------------------------------------------------------
(* What is ordered was entered together.                                     *)

(* Requests that have written the row of a plan and not its price; checkouts *)
(* that have read the row and not the price.                                 *)
Halves(i) == {q \in Requests : op[q].kind = "price" /\ op[q].at = i}
HasRead(c, i) == cart[c].pc \in {"product", "price"} /\ cart[c].plan = i

(* One request at most is half-way, and the plan is off sale with the term   *)
(* of its form until the price follows; nobody reads a plan half-way; and    *)
(* when nobody is half-way, row and price are as they were entered.          *)
AsEntered(i) ==
  /\ \A q \in Halves(i) : /\ Halves(i) = {q}
                          /\ plan[i].term = op[q].form[i].term
                          /\ plan[i].status # "active"
  /\ Halves(i) = {} => \A k \in Prices : OnlyPrice(k, i) =>
       entered[i] = [term |-> plan[i].term, amount |-> price[k].amount]
  /\ \A c \in Customers : HasRead(c, i) => Halves(i) = {} /\ cart[c].term = plan[i].term

(* The strengthening of OffersAreAsEntered, up to plans that were mixed.     *)
Entries == [term : Values, amount : Amounts \cup {0}]

EnteredInv ==
  /\ entered \in [Plans -> Entries]
  /\ \A k \in Prices : price[k].status = "none" => price[k].plan = 0
  /\ \A c \in Customers :
       cart[c].pc \in {"product", "price"} => price[cart[c].price].plan = cart[c].plan
  /\ \A i \in Plans \ torn : AsEntered(i)

(* A step that writes neither the term of a plan nor the amount of a price   *)
(* leaves a plan as it was entered, unless it puts a half-saved plan on sale.*)
Untouched(i) ==
  /\ plan'[i].term = plan[i].term
  /\ plan'[i].status = "active" => plan[i].status = "active" \/ Halves(i) = {}
  /\ entered'[i] = entered[i]
  /\ Halves(i)' = Halves(i) /\ \A q \in Halves(i) : op'[q] = op[q]

SamePrices ==
  \A k \in Prices : /\ price'[k].plan = price[k].plan
                    /\ price'[k].amount = price[k].amount
                    /\ price'[k].status = "none" => price[k].status = "none"

LEMMA UntouchedStays ==
  ASSUME NEW i \in Plans, AsEntered(i), Untouched(i), SamePrices,
         \A c \in Customers : HasRead(c, i)' => Halves(i) = {} /\ cart'[c].term = plan[i].term
  PROVE  AsEntered(i)'
<1>1. \A k \in Prices : OnlyPrice(k, i)' => OnlyPrice(k, i)
  BY DEF OnlyPrice, SamePrices
<1>2. \A q \in Halves(i)' : /\ Halves(i)' = {q}
                            /\ plan'[i].term = op'[q].form[i].term
                            /\ plan'[i].status # "active"
  BY DEF AsEntered, Untouched
<1>3. Halves(i)' = {} => \A k \in Prices : OnlyPrice(k, i)' =>
        entered'[i] = [term |-> plan'[i].term, amount |-> price'[k].amount]
  BY <1>1 DEF AsEntered, Untouched, SamePrices
<1>4. \A c \in Customers : HasRead(c, i)' => Halves(i)' = {} /\ cart'[c].term = plan'[i].term
  BY DEF Untouched
<1> QED
  BY <1>2, <1>3, <1>4 DEF AsEntered

(* Everything but the save of a plan's row and price, the creation of a      *)
(* price, and a checkout.                                                    *)
LEMMA NothingEntered ==
  ASSUME OffersInv, EnteredInv, SamePrices, UNCHANGED <<cart, entered>>, torn \subseteq torn',
         \A i \in Plans \ torn' : Untouched(i)
  PROVE  EnteredInv'
<1>1. ASSUME NEW i \in Plans \ torn' PROVE AsEntered(i)'
  <2>1. AsEntered(i)
    BY DEF EnteredInv
  <2>2. \A c \in Customers : HasRead(c, i)' => Halves(i) = {} /\ cart'[c].term = plan[i].term
    BY <2>1 DEF AsEntered, HasRead
  <2> QED
    BY <2>1, <2>2, UntouchedStays
<1>2. \A k \in Prices : price'[k].status = "none" => price'[k].plan = 0
  BY DEF EnteredInv, SamePrices
<1>3. \A c \in Customers :
        cart'[c].pc \in {"product", "price"} => price'[cart'[c].price].plan = cart'[c].plan
  BY DEF EnteredInv, SamePrices, OffersInv, OffersTypes
<1> QED
  BY <1>1, <1>2, <1>3 DEF EnteredInv

(* A request that is half-way with another plan, or with none, before and    *)
(* after its step.                                                           *)
LEMMA HalvesStay ==
  ASSUME OffersInv, NEW p \in Requests, NEW o, Goes(p, o), NEW i,
         ~(op[p].kind = "price" /\ op[p].at = i), ~(o.kind = "price" /\ o.at = i)
  PROVE  Halves(i)' = Halves(i) /\ \A q \in Halves(i) : op'[q] = op[q]
<1>1. \A q \in Requests : op'[q] = IF q = p THEN o ELSE op[q]
  BY DEF Goes, OffersInv, OffersTypes
<1> QED
  BY <1>1 DEF Halves

(* Saves begin, are published, or end.                                       *)
LEMMA RequestsEnterNothing ==
  ASSUME OffersInv, EnteredInv, NEW p \in Requests, NEW o, Goes(p, o), o.kind # "price",
         UNCHANGED <<catalog, cart, entered>>, torn \subseteq torn',
         op[p].kind = "price" => op[p].at \in torn'
  PROVE  EnteredInv'
<1>1. \A i \in Plans \ torn' : Halves(i)' = Halves(i) /\ \A q \in Halves(i) : op'[q] = op[q]
  BY HalvesStay
<1>2. SamePrices /\ \A i \in Plans \ torn' : Untouched(i)
  BY <1>1 DEF SamePrices, Untouched, catalog
<1> QED
  BY <1>2, NothingEntered

(* NextOf goes to a price only from a price.                                 *)
LEMMA NextIsNoPrice ==
  ASSUME NEW o, o.kind # "price"
  PROVE  NextOf(o).kind # "price"
BY DEF NextOf, Doing, NoRequest

(* The steps that write statuses only.                                       *)
LEMMA StatusesEnterNothing ==
  ASSUME OffersInv, EnteredInv, NEW p \in Requests, NEW o, Goes(p, o), o.kind # "price",
         op[p].kind # "price", SamePrices, UNCHANGED <<cart, entered>>, torn \subseteq torn',
         \A i \in Plans \ torn' :
           /\ plan'[i].term = plan[i].term
           /\ plan'[i].status = "active" => plan[i].status = "active" \/ Halves(i) = {}
  PROVE  EnteredInv'
<1>1. \A i \in Plans \ torn' : Halves(i)' = Halves(i) /\ \A q \in Halves(i) : op'[q] = op[q]
  BY HalvesStay
<1>2. \A i \in Plans \ torn' : Untouched(i)
  BY <1>1 DEF Untouched
<1> QED
  BY <1>2, NothingEntered

(* The plan's row is saved: it goes off sale.                                *)
LEMMA PlanIsEntered ==
  ASSUME OffersInv, EnteredInv, NEW p \in Requests, NEW j \in Plans, SavePlan(p, j)
  PROVE  EnteredInv'
<1>1. NoRequest.kind # "price"
  BY DEF NoRequest, Doing
<1>2. CASE ~Savable(p, j)
  BY <1>1, <1>2, RequestsEnterNothing DEF SavePlan, Returns, catalog
<1>3. CASE Savable(p, j)
  <2> DEFINE o == Saving(op[p], "price", op[p].todo, j, op[p].publish)
  <2>1. /\ op[p].kind = "save" /\ Goes(p, o) /\ Tears(j, HalfSaved(p, j) \/ HalfRead(j))
        /\ plan' = [plan EXCEPT ![j] = [status |-> "draft", term |-> op[p].form[j].term]]
        /\ UNCHANGED <<product, price, cart, entered>>
    BY <1>3 DEF SavePlan, SavedStatus
  <2>2. o.kind = "price" /\ o.at = j /\ o.form = op[p].form
    BY DEF Saving
  <2> HIDE DEF o
  <2>3. \A i \in Plans : plan'[i] = IF i = j THEN [status |-> "draft", term |-> op[p].form[j].term]
                                    ELSE plan[i]
    BY <2>1 DEF OffersInv, OffersTypes
  <2>4. \A q \in Requests : op'[q] = IF q = p THEN o ELSE op[q]
    BY <2>1 DEF Goes, OffersInv, OffersTypes
  <2>5. torn \subseteq torn'
    BY <2>1 DEF Tears
  <2>6. ASSUME j \notin torn' PROVE AsEntered(j)'
    <3>1. ~HalfSaved(p, j) /\ ~HalfRead(j)
      BY <2>1, <2>6 DEF Tears
    <3>2. Halves(j)' = {p}
      BY <2>2, <2>4, <3>1 DEF Halves, HalfSaved
    <3>3. plan'[j].term = op'[p].form[j].term /\ plan'[j].status # "active"
      BY <2>2, <2>3, <2>4
    <3>4. \A c \in Customers : ~HasRead(c, j)'
      BY <2>1, <3>1 DEF HasRead, HalfRead
    <3> QED
      BY <3>2, <3>3, <3>4 DEF AsEntered
  <2>7. ASSUME NEW i \in Plans \ torn', i # j PROVE AsEntered(i)'
    <3>1. AsEntered(i)
      BY <2>5 DEF EnteredInv
    <3>2. Halves(i)' = Halves(i) /\ \A q \in Halves(i) : op'[q] = op[q]
      BY <2>1, <2>2, <2>7, HalvesStay
    <3>3. Untouched(i) /\ SamePrices
      BY <2>1, <2>3, <2>7, <3>2 DEF Untouched, SamePrices
    <3>4. \A c \in Customers : HasRead(c, i)' => Halves(i) = {} /\ cart'[c].term = plan[i].term
      BY <2>1, <3>1 DEF AsEntered, HasRead
    <3> QED
      BY <3>1, <3>3, <3>4, UntouchedStays
  <2> QED
    BY <2>1, <2>6, <2>7 DEF EnteredInv
<1> QED
  BY <1>2, <1>3

(* A price is written for plan j, together with the history of the plan.     *)
LEMMA PriceIsEntered ==
  ASSUME OffersInv, EnteredInv, NEW j \in Plans, NEW a,
         \E k \in Prices :
           /\ price[k].plan = j \/ price[k].status = "none"
           /\ price'[k].plan = j /\ price'[k].amount = a /\ price'[k].status # "none"
           /\ \A l \in Prices : l # k => price'[l] = price[l],
         UNCHANGED <<plan, cart, torn>>,
         entered' \in [Plans -> Entries],
         entered'[j] = [term |-> plan[j].term, amount |-> a] \/ j \in torn,
         \A i \in Plans : i # j => entered'[i] = entered[i],
         \A i \in Plans \ torn : i # j =>
           Halves(i)' = Halves(i) /\ \A q \in Halves(i) : op'[q] = op[q],
         \/ Halves(j)' = {} \/ j \in torn
         \/ Halves(j)' = Halves(j) /\ \A q \in Halves(j) : op'[q] = op[q]
  PROVE  EnteredInv'
<1>1. PICK k \in Prices :
        /\ price[k].plan = j \/ price[k].status = "none"
        /\ price'[k].plan = j /\ price'[k].amount = a /\ price'[k].status # "none"
        /\ \A l \in Prices : l # k => price'[l] = price[l]
  OBVIOUS
<1>2. price[k].plan \in {0, j} /\ 0 \notin Plans
  BY <1>1, OffersAssumption DEF EnteredInv
<1>3. \A l \in Prices : price'[l].status = "none" => price'[l].plan = 0
  BY <1>1 DEF EnteredInv
<1>4. ASSUME NEW c \in Customers, cart'[c].pc \in {"product", "price"}
      PROVE  price'[cart'[c].price].plan = cart'[c].plan
  <2>1. /\ cart[c].price \in Prices /\ cart[c].plan \in Plans
        /\ price[cart[c].price].plan = cart[c].plan
    BY <1>4 DEF EnteredInv, OffersInv, OffersTypes
  <2> QED
    BY <1>1, <1>2, <2>1
<1>5. ASSUME j \notin torn PROVE AsEntered(j)'
  <2>1. AsEntered(j)
    BY <1>5 DEF EnteredInv
  <2>2. \A l \in Prices : OnlyPrice(l, j)' => l = k
    BY <1>1 DEF OnlyPrice
  <2>3. \A c \in Customers : HasRead(c, j)' => Halves(j)' = {} /\ cart'[c].term = plan'[j].term
    BY <1>5, <2>1 DEF AsEntered, HasRead
  <2>4. \A q \in Halves(j)' : /\ Halves(j)' = {q}
                              /\ plan'[j].term = op'[q].form[j].term
                              /\ plan'[j].status # "active"
    BY <1>5, <2>1 DEF AsEntered
  <2> QED
    BY <1>1, <1>5, <2>2, <2>3, <2>4 DEF AsEntered
<1>6. ASSUME NEW i \in Plans \ torn, i # j PROVE AsEntered(i)'
  <2>1. AsEntered(i)
    BY DEF EnteredInv
  <2>2. \A l \in Prices : price'[l].plan = i <=> price[l].plan = i
    BY <1>1, <1>2, <1>6
  <2>3. \A l \in Prices : OnlyPrice(l, i)' => OnlyPrice(l, i) /\ price'[l] = price[l]
    BY <1>1, <1>6, <2>2 DEF OnlyPrice
  <2>4. Halves(i)' = Halves(i) /\ \A q \in Halves(i) : op'[q] = op[q]
    BY <1>6
  <2>5. entered'[i] = entered[i]
    BY <1>6
  <2>6. \A q \in Halves(i)' : /\ Halves(i)' = {q}
                              /\ plan'[i].term = op'[q].form[i].term
                              /\ plan'[i].status # "active"
    BY <2>1, <2>4 DEF AsEntered
  <2>7. \A c \in Customers : HasRead(c, i)' => Halves(i)' = {} /\ cart'[c].term = plan'[i].term
    BY <2>1, <2>4 DEF AsEntered, HasRead
  <2>8. Halves(i)' = {} => \A l \in Prices : OnlyPrice(l, i)' =>
          entered'[i] = [term |-> plan'[i].term, amount |-> price'[l].amount]
    BY <2>1, <2>3, <2>4, <2>5 DEF AsEntered
  <2> QED
    BY <2>6, <2>7, <2>8 DEF AsEntered
<1> QED
  BY <1>3, <1>4, <1>5, <1>6 DEF EnteredInv

(* The plan's price is saved: row and price are those of the form.           *)
LEMMA FormIsEntered ==
  ASSUME OffersInv, EnteredInv, NEW p \in Requests, SavePrice(p)
  PROVE  EnteredInv'
<1>0. PICK j \in Plans : j = op[p].at
  BY EditOf DEF SavePrice, WorkFits
<1> DEFINE e == op[p].form[j]
           S == op[p].newest[j]
           k == IF S = {} THEN 0 ELSE CHOOSE n \in S : TRUE
           o == NextOf(Saving(op[p], "save", op[p].todo \ {j}, 0, op[p].publish))
<1>1. /\ op[p].kind = "price" /\ Goes(p, o) /\ entered' = [entered EXCEPT ![j] = e]
      /\ UNCHANGED <<product, plan, orders, cart, torn>>
      /\ IF k = 0 THEN InsertPrice(j, e.amount, "")
         ELSE price' = [price EXCEPT ![k] = Sold(price[k].plan, e.amount, "")]
  <2> DEFINE i == op[p].at
             f == op[p].form[i]
             m == IF op[p].newest[i] = {} THEN 0 ELSE CHOOSE n \in op[p].newest[i] : TRUE
             r == NextOf(Saving(op[p], "save", op[p].todo \ {i}, 0, op[p].publish))
  <2>1. /\ op[p].kind = "price" /\ Goes(p, r) /\ entered' = [entered EXCEPT ![i] = f]
        /\ UNCHANGED <<product, plan, orders, cart, torn>>
        /\ IF m = 0 THEN InsertPrice(i, f.amount, "")
           ELSE price' = [price EXCEPT ![m] = Sold(price[m].plan, f.amount, "")]
    BY DEF SavePrice
  <2>2. i = j /\ f = e /\ m = k /\ r = o
    BY <1>0
  <2> HIDE DEF i, f, m, r
  <2> QED
    BY <2>1, <2>2
<1>2. op[p] \in Works /\ WorkFits(op[p]) /\ j \in DOMAIN op[p].form /\ e \in Edits
  BY <1>0, <1>1, EditOf DEF WorkFits
<1>3. o.kind # "price"
  BY NextIsNoPrice DEF Saving
<1>4. S \subseteq Prices /\ \A n \in S : price[n].plan = j
  <2>1. PICK I \in SUBSET Plans : op[p].newest \in [I -> SUBSET Prices]
    BY <1>2 DEF Works, Snapshots
  <2> QED
    BY <1>0, <1>1, <1>2, <2>1 DEF WorkFits
<1>5. e = [term |-> e.term, amount |-> e.amount]
  BY <1>2, OffersAssumption DEF Edit
<1>6. S # {} => k \in S
  OBVIOUS
<1>7. S = {} => k = 0
  OBVIOUS
<1> HIDE DEF e, S, k, o
<1>8. \E n \in Prices :
        /\ price[n].plan = j \/ price[n].status = "none"
        /\ price'[n].plan = j /\ price'[n].amount = e.amount /\ price'[n].status # "none"
        /\ \A l \in Prices : l # n => price'[l] = price[l]
  <2>1. price \in [Prices -> PriceRows] /\ 0 \notin Prices
    BY OffersAssumption DEF OffersInv, OffersTypes
  <2>2. CASE S = {}
    <3>1. PICK n \in Prices : price[n].status = "none"
                             /\ price' = [price EXCEPT ![n] = Sold(j, e.amount, "")]
      BY <1>1, <1>7, <2>2 DEF InsertPrice
    <3> QED
      BY <2>1, <3>1 DEF Sold
  <2>3. CASE S # {}
    <3>1. k \in Prices /\ price[k].plan = j /\ k # 0
      BY <1>4, <1>6, <2>1, <2>3
    <3>2. price' = [price EXCEPT ![k] = Sold(price[k].plan, e.amount, "")]
      BY <1>1, <3>1
    <3> QED
      BY <2>1, <3>1, <3>2 DEF Sold
  <2> QED
    BY <2>2, <2>3
<1>9. \A q \in Requests : op'[q] = IF q = p THEN o ELSE op[q]
  BY <1>1 DEF Goes, OffersInv, OffersTypes
<1>10. \A i \in Plans \ torn : i # j =>
         Halves(i)' = Halves(i) /\ \A q \in Halves(i) : op'[q] = op[q]
  BY <1>0, <1>3, <1>9 DEF Halves
<1>11. ASSUME j \notin torn PROVE Halves(j)' = {} /\ e.term = plan[j].term
  <2>1. p \in Halves(j) /\ AsEntered(j)
    BY <1>0, <1>1, <1>11 DEF Halves, EnteredInv
  <2>2. Halves(j) = {p} /\ plan[j].term = e.term
    BY <2>1 DEF AsEntered, e
  <2>3. Halves(j)' = {}
    BY <1>3, <1>9, <2>2 DEF Halves
  <2> QED
    BY <2>2, <2>3
<1>12. entered \in [Plans -> Entries]
  BY DEF EnteredInv
<1>13. /\ entered' \in [Plans -> Entries] /\ entered'[j] = e
       /\ \A i \in Plans : i # j => entered'[i] = entered[i]
  BY <1>1, <1>2, <1>12, OffersAssumption DEF Entries, Edit, Values
<1>14. entered'[j] = [term |-> plan[j].term, amount |-> e.amount] \/ j \in torn
  BY <1>5, <1>11, <1>13
<1>15. UNCHANGED <<plan, cart, torn>> /\ (Halves(j)' = {} \/ j \in torn)
  BY <1>1, <1>11
<1> QED
  BY <1>8, <1>10, <1>13, <1>14, <1>15, PriceIsEntered

(* The steps of the studio.                                                  *)
LEMMA StudioEnters ==
  ASSUME OffersInv, EnteredInv, NEW p \in Requests, Studio(p)
  PROVE  EnteredInv'
<1> USE DEF catalog, history
<1>1. ASSUME NEW form \in Forms, NEW publish \in BOOLEAN, Save(p, form, publish)
      PROVE  EnteredInv'
  <2>1. PICK o : op[p] = NoRequest /\ o.kind = "save" /\ Goes(p, NextOf(o))
    BY <1>1 DEF Save, Begins
  <2>2. op[p].kind # "price"
    BY <2>1 DEF NoRequest, Doing
  <2> QED
    BY <1>1, <2>1, <2>2, NextIsNoPrice, RequestsEnterNothing DEF Save
<1>2. ASSUME NEW i \in Plans, SavePlan(p, i) PROVE EnteredInv'
  BY <1>2, PlanIsEntered
<1>3. ASSUME NEW i \in Plans, ArchivePlan(p, i) PROVE EnteredInv'
  <2>1. PICK o : op[p].kind = "save" /\ o.kind # "price" /\ Goes(p, o)
    BY <1>3, NextIsNoPrice DEF ArchivePlan, Saving
  <2>2. \A j \in Plans : plan'[j].term = plan[j].term
                         /\ (plan'[j].status = "active" => plan[j].status = "active")
    BY <1>3 DEF ArchivePlan, OffersInv, OffersTypes
  <2>3. SamePrices /\ UNCHANGED <<cart, entered>> /\ torn \subseteq torn'
    BY <1>3 DEF ArchivePlan, SamePrices
  <2> QED
    BY <2>1, <2>2, <2>3, StatusesEnterNothing
<1>4. ASSUME NEW i \in Plans, ActivatePlan(p, i) PROVE EnteredInv'
  <2>1. PICK o : op[p].kind = "activate" /\ o.kind # "price" /\ Goes(p, o)
    BY <1>4, NextIsNoPrice DEF ActivatePlan, Doing
  <2>2. \A j \in Plans : plan'[j].term = plan[j].term /\ (j # i => plan'[j] = plan[j])
    BY <1>4 DEF ActivatePlan, SetStatus, OffersInv, OffersTypes
  <2>3. i \notin torn' => Halves(i) = {}
    BY <1>4, <2>1 DEF ActivatePlan, Tears, HalfSaved, Halves
  <2>4. SamePrices /\ UNCHANGED <<cart, entered>> /\ torn \subseteq torn'
    BY <1>4 DEF ActivatePlan, SamePrices, Tears
  <2> QED
    BY <2>1, <2>2, <2>3, <2>4, StatusesEnterNothing
<1>5. CASE SavePrice(p)
  BY <1>5, FormIsEntered
<1>6. CASE SavePriceFails(p)
  <2>1. NoRequest.kind # "price"
    BY DEF NoRequest, Doing
  <2> QED
    BY <1>6, <2>1, RequestsEnterNothing DEF SavePriceFails, Returns, Tears
<1>7. CASE PublishCheck(p) \/ PublishPlans(p)
  <2>1. PICK o : op[p].kind # "price" /\ o.kind # "price" /\ Goes(p, o)
    BY <1>7, NextIsNoPrice DEF PublishCheck, PublishPlans, Returns, NoRequest, Doing
  <2> QED
    BY <1>7, <2>1, RequestsEnterNothing DEF PublishCheck, PublishPlans
<1>8. CASE PublishProduct(p)
  <2>1. PICK o : op[p].kind # "price" /\ o.kind # "price" /\ Goes(p, o)
    BY <1>8 DEF PublishProduct, Doing
  <2>2. SamePrices /\ UNCHANGED <<plan, cart, entered, torn>>
    BY <1>8 DEF PublishProduct, SamePrices
  <2> QED
    BY <2>1, <2>2, StatusesEnterNothing
<1> QED
  BY <1>1, <1>2, <1>3, <1>4, <1>5, <1>6, <1>7, <1>8 DEF Studio

(* The steps of the other pages.                                             *)
LEMMA PagesEnter ==
  ASSUME OffersInv, EnteredInv, Pages
  PROVE  EnteredInv'
<1> USE DEF history
<1>1. \A i \in Plans : op' = op =>
        Halves(i)' = Halves(i) /\ \A q \in Halves(i) : op'[q] = op[q]
  BY DEF Halves
<1>2. ASSUME NEW s \in {"active", "off"}, SetProductStatus(s) PROVE EnteredInv'
  <2>1. SamePrices /\ \A i \in Plans : Untouched(i)
    BY <1>1, <1>2 DEF SetProductStatus, SamePrices, Untouched
  <2> QED
    BY <1>2, <2>1, NothingEntered DEF SetProductStatus
<1>3. ASSUME NEW i \in Plans, CreatePlan(i) PROVE EnteredInv'
  <2>1. \A j \in Plans : plan'[j].term = plan[j].term
                         /\ (plan'[j].status = "active" => plan[j].status = "active")
    BY <1>3 DEF CreatePlan, OffersInv, OffersTypes
  <2>2. SamePrices /\ \A j \in Plans : Untouched(j)
    BY <1>1, <1>3, <2>1 DEF CreatePlan, SamePrices, Untouched
  <2> QED
    BY <1>3, <2>2, NothingEntered DEF CreatePlan
<1>4. ASSUME NEW i \in Plans, NEW s \in Rows, SetPlanStatus(i, s) PROVE EnteredInv'
  <2>1. \A j \in Plans : plan'[j].term = plan[j].term /\ (j # i => plan'[j] = plan[j])
    BY <1>4 DEF SetPlanStatus, SetStatus, OffersInv, OffersTypes
  <2>2. i \notin torn' => Halves(i) = {}
    BY <1>4 DEF SetPlanStatus, Tears, Halves
  <2>3. SamePrices /\ \A j \in Plans \ torn' : Untouched(j)
    BY <1>1, <1>4, <2>1, <2>2 DEF SetPlanStatus, SamePrices, Untouched
  <2> QED
    BY <1>4, <2>3, NothingEntered DEF SetPlanStatus, Tears
<1>5. ASSUME NEW i \in Plans, NEW a \in Amounts, NEW id \in Intervals, CreatePrice(i, a, id)
      PROVE  EnteredInv'
  <2>1. PICK n \in Prices : /\ price[n].status = "none"
                            /\ price' = [price EXCEPT ![n] = Sold(i, a, id)]
    BY <1>5 DEF CreatePrice, InsertPrice
  <2>2. /\ price'[n].plan = i /\ price'[n].amount = a /\ price'[n].status # "none"
        /\ \A l \in Prices : l # n => price'[l] = price[l]
    BY <2>1 DEF Sold, OffersInv, OffersTypes
  <2>3. plan[i].term \in Values
    BY <1>5 DEF OffersInv, OffersTypes
  <2>4. /\ entered' \in [Plans -> Entries]
        /\ entered'[i] = [term |-> plan[i].term, amount |-> a]
        /\ \A j \in Plans : j # i => entered'[j] = entered[j]
    BY <1>5, <2>3 DEF CreatePrice, EnteredInv, Entries
  <2>5. UNCHANGED <<plan, op, cart, torn>>
    BY <1>5 DEF CreatePrice
  <2> QED
    BY <1>1, <2>1, <2>2, <2>4, <2>5, PriceIsEntered
<1>6. ASSUME NEW k \in Prices, NEW b \in BOOLEAN, SetPriceActive(k, b) PROVE EnteredInv'
  <2>1. SamePrices
    BY <1>6 DEF SetPriceActive, SamePrices, OffersInv, OffersTypes
  <2>2. \A i \in Plans : Untouched(i)
    BY <1>1, <1>6 DEF SetPriceActive, Untouched
  <2> QED
    BY <1>6, <2>1, <2>2, NothingEntered DEF SetPriceActive
<1> QED
  BY <1>2, <1>3, <1>4, <1>5, <1>6 DEF Pages

(* Deletions, and requests that stop.                                        *)
LEMMA DeletionsEnterNothing ==
  ASSUME OffersInv, EnteredInv, NEW p \in Requests, Delete(p)
  PROVE  EnteredInv'
<1> USE DEF history
<1>1. NoRequest.kind # "price"
  BY DEF NoRequest, Doing
<1>2. CASE DeleteRow(p)
  <2>1. /\ op[p].kind \in {"deletePlan", "deletePrice", "deleteProduct"}
        /\ Goes(p, NoRequest) /\ UNCHANGED <<cart, entered, torn>>
    BY <1>2 DEF DeleteRow, Returns
  <2>2. SamePrices
    <3>1. price' = price \/ price' = [price EXCEPT ![op[p].at].status = "deleted"]
      BY <1>2 DEF DeleteRow, catalog
    <3>2. price \in [Prices -> PriceRows]
      BY DEF OffersInv, OffersTypes
    <3>3. \A l \in Prices : /\ price'[l].plan = price[l].plan
                            /\ price'[l].amount = price[l].amount
                            /\ price'[l].status = "none" => price[l].status = "none"
      <4> DEFINE k == op[p].at
      <4> HIDE DEF k
      <4>1. CASE price' = price
        BY <4>1
      <4>2. CASE price' = [price EXCEPT ![k].status = "deleted"]
        <5> TAKE l \in Prices
        <5>1. price'[l] = IF l = k THEN [price[l] EXCEPT !.status = "deleted"] ELSE price[l]
          BY <3>2, <4>2
        <5>2. price[l] \in PriceRows
          BY <3>2
        <5> QED
          BY <5>1, <5>2 DEF PriceRows
      <4> QED
        BY <3>1, <4>1, <4>2 DEF k
    <3> QED
      BY <3>3 DEF SamePrices
  <2>3. \A i \in Plans : /\ plan'[i].term = plan[i].term
                         /\ plan'[i].status = "active" => plan[i].status = "active"
    BY <1>2 DEF DeleteRow, OffersInv, OffersTypes, catalog
  <2> QED
    BY <1>1, <2>1, <2>2, <2>3, StatusesEnterNothing
<1>3. CASE ~DeleteRow(p)
  <2>1. PICK o : op[p] = NoRequest /\ o.kind # "price" /\ Goes(p, o)
    BY <1>3 DEF Delete, DeletePlan, DeletePrice, DeleteProduct, Begins, Doing
  <2>2. UNCHANGED <<catalog, cart, entered, torn>>
    BY <1>3 DEF Delete, DeletePlan, DeletePrice, DeleteProduct
  <2> QED
    BY <1>1, <2>1, <2>2, RequestsEnterNothing
<1> QED
  BY <1>2, <1>3

LEMMA StopEntersNothing ==
  ASSUME OffersInv, EnteredInv, NEW p \in Requests, Stop(p)
  PROVE  EnteredInv'
<1>1. NoRequest.kind # "price"
  BY DEF NoRequest, Doing
<1> QED
  BY <1>1, RequestsEnterNothing DEF Stop, Returns

(* A checkout reads a plan on sale: nobody is half-way with it.              *)
LEMMA CheckoutEntersNothing ==
  ASSUME OffersInv, EnteredInv, NEW c \in Customers, Checkout(c)
  PROVE  EnteredInv'
<1> USE DEF catalog, history
<1>1. UNCHANGED <<catalog, op, history>>
  BY DEF Checkout, ReadPlan, ReadProduct, ReadPrice, PlaceOrder, Abandon
<1>2. PICK t : /\ cart' = [cart EXCEPT ![c] = t]
               /\ \/ t.pc \notin {"product", "price"}
                  \/ /\ cart[c].pc = "product"
                     /\ t = [cart[c] EXCEPT !.pc = "price"]
                  \/ /\ t.plan \in Plans /\ t.price \in Prices
                     /\ plan[t.plan].status = "active"
                     /\ price[t.price].plan = t.plan /\ t.term = plan[t.plan].term
  <2>1. CASE \E i \in Plans, k \in Prices : ReadPlan(c, i, k)
    <3>1. PICK i \in Plans, k \in Prices : ReadPlan(c, i, k)
      BY <2>1
    <3> DEFINE t == Cart("product", i, k, plan[i].term, 0)
    <3>2. cart' = [cart EXCEPT ![c] = t] /\ plan[i].status = "active" /\ price[k].plan = i
      BY <3>1 DEF ReadPlan
    <3>3. t.plan = i /\ t.price = k /\ t.term = plan[i].term
      BY DEF Cart
    <3> HIDE DEF t
    <3> QED
      BY <3>2, <3>3
  <2>2. CASE ReadProduct(c)
    BY <2>2 DEF ReadProduct, NoCart, Cart
  <2>3. CASE ReadPrice(c) \/ PlaceOrder(c) \/ Abandon(c)
    BY <2>3 DEF ReadPrice, PlaceOrder, Abandon, NoCart, Cart
  <2> QED
    BY <2>1, <2>2, <2>3 DEF Checkout
<1>3. \A d \in Customers : cart'[d] = IF d = c THEN t ELSE cart[d]
  BY <1>2 DEF OffersInv, OffersTypes
<1>4. cart[c].pc = "product" /\ t = [cart[c] EXCEPT !.pc = "price"] =>
        /\ t.plan = cart[c].plan /\ t.price = cart[c].price /\ t.term = cart[c].term
  BY DEF OffersInv, OffersTypes, Carts
<1>5. ASSUME NEW i \in Plans \ torn' PROVE AsEntered(i)'
  <2>1. AsEntered(i)
    BY <1>1 DEF EnteredInv
  <2>2. Untouched(i) /\ SamePrices
    BY <1>1 DEF Untouched, SamePrices, Halves
  <2>3. plan[i].status = "active" => Halves(i) = {}
    BY <2>1 DEF AsEntered
  <2>4. \A d \in Customers : HasRead(d, i)' => Halves(i) = {} /\ cart'[d].term = plan[i].term
    BY <1>2, <1>3, <1>4, <2>1, <2>3 DEF AsEntered, HasRead
  <2> QED
    BY <2>1, <2>2, <2>4, UntouchedStays
<1>6. \A d \in Customers :
        cart'[d].pc \in {"product", "price"} => price[cart'[d].price].plan = cart'[d].plan
  BY <1>2, <1>3, <1>4 DEF EnteredInv
<1> QED
  BY <1>1, <1>5, <1>6 DEF EnteredInv

(* The strengthened invariant of what was entered holds.                     *)
THEOREM EnteredInvariance == OffersSpec => [](OffersInv /\ EnteredInv)
<1>1. ASSUME OffersInit PROVE EnteredInv
  <2>1. NoRequest.kind # "price" /\ NoCart.pc = "none"
    BY DEF NoRequest, Doing, NoCart, Cart
  <2>2. \A i \in Plans : Halves(i) = {} /\ \A c \in Customers : ~HasRead(c, i)
    BY <1>1, <2>1 DEF OffersInit, Halves, HasRead
  <2>3. ASSUME NEW i \in Plans, NEW k \in Prices PROVE ~OnlyPrice(k, i)
    BY <1>1, OffersAssumption DEF OffersInit, OnlyPrice
  <2> QED
    BY <1>1, <2>1, <2>2, <2>3 DEF OffersInit, EnteredInv, AsEntered, Entries, Values, Removed
<1>2. ASSUME OffersInv, EnteredInv, [OffersNext]_offerVars PROVE EnteredInv'
  <2>1. CASE UNCHANGED offerVars
    <3>1. SamePrices /\ \A i \in Plans : Untouched(i)
      BY <2>1 DEF offerVars, catalog, history, SamePrices, Untouched, Halves
    <3> QED
      BY <1>2, <2>1, <3>1, NothingEntered DEF offerVars, history
  <2> QED
    BY <1>2, <2>1, StudioEnters, PagesEnter, DeletionsEnterNothing, StopEntersNothing,
       CheckoutEntersNothing DEF OffersNext
<1> QED
  BY <1>1, <1>2, OffersInitHolds, OffersStepHolds, PTL DEF OffersSpec

(* However saves, publications and checkouts interleave, what a customer     *)
(* orders of a plan with one price has the term and the amount that were     *)
(* last entered together, unless the plan was mixed by requests that         *)
(* overlapped or died half-way.                                              *)
THEOREM WhatIsOrderedWasEntered == OffersSpec => OffersAreAsEntered
<1> DEFINE Ordered(c) ==
      LET o == cart'[c] IN
      cart[c].pc = "price" /\ o.pc = "order" /\ o.plan \notin torn /\ HadOnePrice(o.plan) =>
        entered[o.plan] = [term |-> o.term, amount |-> o.amount]
<1>1. ASSUME OffersInv, EnteredInv, [OffersNext]_offerVars, NEW c \in Customers,
             cart[c].pc = "price", cart'[c].pc = "order", cart'[c].plan \notin torn,
             HadOnePrice(cart'[c].plan)
      PROVE  entered[cart'[c].plan] = [term |-> cart'[c].term, amount |-> cart'[c].amount]
  <2> DEFINE i == cart[c].plan
             r == price[cart[c].price]
  <2>1. ReadPrice(c)
    <3>1. \A p \in Requests : ~Studio(p)
      BY <1>1 DEF Studio, Save, SavePlan, ArchivePlan, ActivatePlan, SavePrice, SavePriceFails,
         PublishCheck, PublishProduct, PublishPlans
    <3>2. \A p \in Requests : ~Delete(p) /\ ~Stop(p)
      BY <1>1 DEF Delete, Stop, DeletePlan, DeletePrice, DeleteProduct, DeleteRow
    <3>3. ~Pages /\ ~UNCHANGED offerVars
      BY <1>1 DEF Pages, SetProductStatus, CreatePlan, SetPlanStatus, CreatePrice, SetPriceActive,
         offerVars
    <3>4. PICK d \in Customers : Checkout(d)
      BY <1>1, <3>1, <3>2, <3>3 DEF OffersNext
    <3>5. d = c
      BY <1>1, <3>4 DEF Checkout, ReadPlan, ReadProduct, ReadPrice, PlaceOrder, Abandon,
         OffersInv, OffersTypes
    <3> QED
      BY <1>1, <3>4, <3>5 DEF Checkout, ReadPlan, ReadProduct, PlaceOrder, Abandon, NoCart, Cart,
         OffersInv, OffersTypes
  <2>2. cart'[c] = Cart("order", i, cart[c].price, cart[c].term, r.amount)
    BY <1>1, <2>1 DEF ReadPrice, NoCart, Cart, OffersInv, OffersTypes
  <2>3. cart'[c].plan = i /\ cart'[c].term = cart[c].term /\ cart'[c].amount = r.amount
    BY <2>2 DEF Cart
  <2>4. i \in Plans /\ cart[c].price \in Prices /\ r.plan = i
    BY <1>1 DEF OffersInv, OffersTypes, EnteredInv
  <2>5. AsEntered(i) /\ HasRead(c, i)
    BY <1>1, <2>3, <2>4 DEF EnteredInv, HasRead
  <2>6. OnlyPrice(cart[c].price, i)
    BY <1>1, <2>3, <2>4 DEF HadOnePrice, OnlyPrice
  <2> QED
    BY <2>3, <2>4, <2>5, <2>6 DEF AsEntered
<1>2. ASSUME OffersInv, EnteredInv, [OffersNext]_offerVars, NEW c \in Customers PROVE Ordered(c)
  BY <1>1, <1>2
<1>3. OffersInv /\ EnteredInv /\ [OffersNext]_offerVars =>
        [\A c \in Customers : Ordered(c)]_offerVars
  BY <1>2
<1> QED
  BY <1>3, EnteredInvariance, PTL DEF OffersSpec, OffersAreAsEntered
=============================================================================
