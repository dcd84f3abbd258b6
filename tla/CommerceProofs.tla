--------------------------- MODULE CommerceProofs ---------------------------
(***************************************************************************)
(* The commerce service keeps its rows consistent and honours the contract *)
(* of OrderContract, for any number of orders, refunds and webhooks, any   *)
(* price and any provider.                                                 *)
(*                                                                         *)
(* Each transaction works on one order, so the argument is pointwise: the  *)
(* safety properties are one predicate, Consistent, of the four rows of an *)
(* order, and it suffices to look at the order the step is about.          *)
(***************************************************************************)
EXTENDS Commerce, FiniteSetTheorems, WellFoundedInduction, TLAPS

(* What StatusesAgree, RefundsLedger and OutboxTellsTheOrder say of one      *)
(* order: its status s, its payment's p, what is refunded and its outbox.    *)
Consistent(s, p, r, x) ==
  /\ <<s, p>> \in
       {<<"none", "none">>, <<"draft", "none">>, <<"cancelled", "none">>,
        <<"pending_payment", "pending">>, <<"pending_payment", "failed">>,
        <<"cancelled", "failed">>, <<"paid", "succeeded">>,
        <<"partially_refunded", "succeeded">>, <<"refunded", "refunded">>,
        <<"voided", "voided">>}
  /\ s = "refunded" <=> r = Price
  /\ r > 0 => s \in {"partially_refunded", "refunded"}
  /\ s \in Bought => x.paid
  /\ x.paid => s \in Bought \cup {"voided"}
  /\ x.voided <=> s = "voided"
  /\ x.full > 0 <=> s = "refunded"
  /\ x.partial > 0 => s \in {"partially_refunded", "refunded"}

Sound == \A o \in Orders : Consistent(order[o], payment[o], refunded[o], outbox[o])

IInv == TypeOK /\ Sound

LEMMA SoundMeans == Sound <=> StatusesAgree /\ RefundsLedger /\ OutboxTellsTheOrder
BY DEF Sound, Consistent, StatusesAgree, RefundsLedger, OutboxTellsTheOrder

(* The transition tables, read backwards.                                    *)
LEMMA OrderTable ==
  ASSUME NEW s
  PROVE  /\ CanTransitionOrder(s, "pending_payment") => s = "draft"
         /\ CanTransitionOrder(s, "paid") => s = "pending_payment"
         /\ CanTransitionOrder(s, "cancelled") => s \in {"draft", "pending_payment"}
         /\ CanTransitionOrder(s, "voided") => s \in {"pending_payment", "paid"}
         /\ CanTransitionOrder(s, "partially_refunded") => s = "paid"
         /\ CanTransitionOrder(s, "refunded") => s \in {"paid", "partially_refunded"}
BY DEF CanTransitionOrder, ORDER_STATUS_TRANSITIONS, OrderStatus

LEMMA PaymentTable ==
  ASSUME NEW p
  PROVE  /\ CanTransitionPayment(p, "succeeded") => p = "pending"
         /\ CanTransitionPayment(p, "failed") => p = "pending"
         /\ CanTransitionPayment(p, "voided") => p \in {"pending", "succeeded"}
         /\ CanTransitionPayment(p, "refunded") => p = "succeeded"
BY DEF CanTransitionPayment, PAYMENT_STATUS_TRANSITIONS, PaymentStatus

-----------------------------------------------------------------------------
(* Types.                                                                    *)

(* The rows a transaction may write, and the rest.                           *)
RowsOK ==
  /\ order \in [Orders -> OrderStatus \cup {"none"}]
  /\ payment \in [Orders -> PaymentStatus \cup {"none"}]
  /\ refunded \in [Orders -> Nat]
  /\ held \in [Orders -> Int]
  /\ manual \in [Refunds -> Row]
  /\ refIdUsed \in [Orders -> BOOLEAN]
  /\ sub \in [Orders -> {"none", "active", "cancelled"}]
  /\ outbox \in [Orders -> OutboxOf]

OutsideOK ==
  /\ processed \subseteq EventIds
  /\ sent \in [EventIds -> Event \cup {NoEvent}]
  /\ charge \in [Orders -> {"open", "captured", "reversed"}]
  /\ returned \in [Orders -> Nat]
  /\ told \in [Orders -> Nat]

LEMMA TypeParts == TypeOK <=> RowsOK /\ OutsideOK
BY DEF TypeOK, RowsOK, OutsideOK

LEMMA AmountsAreNat == Amounts \subseteq Nat /\ Price \in Amounts
BY CommerceAssumption DEF Amounts

(* The order and the amount of a webhook that was sent.                      *)
LEMMA SentIsEvent ==
  ASSUME OutsideOK, NEW e \in EventIds, sent[e] # NoEvent
  PROVE  sent[e].order \in Orders /\ sent[e].amount \in Amounts
BY DEF OutsideOK, Event

LEMMA RefundTypes ==
  ASSUME RowsOK, NEW o \in Orders, NEW a \in Amounts, RecordRefund(o, a)
  PROVE  /\ order' \in [Orders -> OrderStatus \cup {"none"}]
         /\ payment' \in [Orders -> PaymentStatus \cup {"none"}]
         /\ refunded' \in [Orders -> Nat]
         /\ sub' \in [Orders -> {"none", "active", "cancelled"}]
         /\ outbox' \in [Orders -> OutboxOf]
<1>1. /\ order' \in [Orders -> OrderStatus \cup {"none"}]
      /\ payment' \in [Orders -> PaymentStatus \cup {"none"}]
      /\ sub' \in [Orders -> {"none", "active", "cancelled"}]
  BY DEF RecordRefund, Settle, SubscriptionsCancelledWith, StatusAfterRefund, RowsOK,
         OrderStatus, PaymentStatus
<1>2. refunded' \in [Orders -> Nat]
  BY AmountsAreNat DEF RecordRefund, RefundedAfter, RowsOK
<1>3. outbox' \in [Orders -> OutboxOf]
  <2>1. /\ [outbox[o] EXCEPT !.full = @ + 1] \in OutboxOf
        /\ [outbox[o] EXCEPT !.partial = @ + 1] \in OutboxOf
    BY DEF RowsOK, OutboxOf
  <2> QED
    BY <2>1 DEF RecordRefund, AnnounceRefund, RowsOK
<1> QED
  BY <1>1, <1>2, <1>3

LEMMA InitTypes == Init => TypeOK
<1> SUFFICES ASSUME Init PROVE TypeOK
  OBVIOUS
<1>1. (CHOOSE o \in Orders : TRUE) \in Orders
  BY CommerceAssumption
<1>2. manual \in [Refunds -> Row]
  BY <1>1, AmountsAreNat, CommerceAssumption DEF Init, Row, Amounts
<1> QED
  BY <1>2 DEF Init, TypeOK, OrderStatus, PaymentStatus, OutboxOf

(* What the writes shared by calls and webhooks do to the types.             *)
LEMMA ConfirmTypes ==
  ASSUME RowsOK, NEW o \in Orders, Confirm(o)
  PROVE  RowsOK'
<1>1. [outbox[o] EXCEPT !.paid = TRUE] \in OutboxOf
  BY DEF RowsOK, OutboxOf
<1> QED
  BY <1>1 DEF Confirm, RowsOK, OrderStatus, PaymentStatus

LEMMA FailTypes ==
  ASSUME RowsOK, NEW o \in Orders, Fail(o)
  PROVE  RowsOK'
BY DEF Fail, RowsOK, PaymentStatus

LEMMA VoidTypes ==
  ASSUME RowsOK, NEW o \in Orders, Void(o)
  PROVE  RowsOK'
<1>1. [outbox[o] EXCEPT !.voided = TRUE] \in OutboxOf
  BY DEF RowsOK, OutboxOf
<1> QED
  BY <1>1 DEF Void, SubscriptionsCancelledWith, RowsOK, OrderStatus, PaymentStatus

LEMMA CallTypes ==
  ASSUME RowsOK, OutsideOK, NEW o \in Orders, Call(o)
  PROVE  RowsOK' /\ OutsideOK'
<1>1. CASE CreateOrder(o)
  BY <1>1 DEF CreateOrder, RowsOK, OutsideOK, OrderStatus, providerVars
<1>2. CASE MarkPaymentPending(o)
  BY <1>2 DEF MarkPaymentPending, RowsOK, OutsideOK, OrderStatus, PaymentStatus, providerVars
<1>3. CASE CancelOrder(o)
  BY <1>3 DEF CancelOrder, RowsOK, OutsideOK, OrderStatus, PaymentStatus, providerVars
<1>4. CASE ConfirmPayment(o)
  BY <1>4, ConfirmTypes DEF ConfirmPayment, OutsideOK
<1>5. CASE FailPayment(o)
  BY <1>5, FailTypes DEF FailPayment, OutsideOK
<1>6. ASSUME NEW a \in Amounts, NEW r \in Refunds, RequestManualRefund(o, a, r)
      PROVE  RowsOK' /\ OutsideOK'
  <2>1. [status |-> "manual_required", order |-> o, amount |-> a] \in Row
    BY DEF Row
  <2>2. held' \in [Orders -> Int]
    BY <1>6, AmountsAreNat DEF RequestManualRefund, RowsOK
  <2> QED
    BY <1>6, <2>1, <2>2 DEF RequestManualRefund, RowsOK, OutsideOK, providerVars
<1>7. ASSUME NEW a \in Amounts, AskProvider(o, a), told' \in [Orders -> Nat]
      PROVE  OutsideOK'
  BY <1>7, AmountsAreNat DEF AskProvider, OutsideOK
<1>8. ASSUME NEW a \in Amounts, RequestRefund(o, a)
      PROVE  RowsOK' /\ OutsideOK'
  <2>1. told' \in [Orders -> Nat]
    BY <1>8, AmountsAreNat DEF RequestRefund, OutsideOK
  <2> QED
    BY <1>7, <1>8, <2>1, RefundTypes DEF RequestRefund, RowsOK
<1>9. ASSUME NEW a \in Amounts, RequestRefundUnrecorded(o, a)
      PROVE  RowsOK' /\ OutsideOK'
  BY <1>7, <1>9 DEF RequestRefundUnrecorded, commerceVars, RowsOK, OutsideOK
<1> QED
  BY <1>1, <1>2, <1>3, <1>4, <1>5, <1>6, <1>8, <1>9 DEF Call

LEMMA ManualTypes ==
  ASSUME RowsOK, OutsideOK, NEW r \in Refunds, ConfirmManualRefund(r)
  PROVE  RowsOK' /\ OutsideOK'
<1> DEFINE o == manual[r].order
           a == manual[r].amount
<1>1. manual[r] \in Row /\ o \in Orders /\ a \in Amounts
  BY DEF RowsOK, Row
<1>2. RecordRefund(o, a) /\ held' = [held EXCEPT ![o] = @ - a]
      /\ manual' = [manual EXCEPT ![r].status = "succeeded"]
      /\ UNCHANGED <<refIdUsed, processed, sent, charge, returned, told>>
  BY DEF ConfirmManualRefund
<1>3. [manual[r] EXCEPT !.status = "succeeded"] \in Row
  BY <1>1 DEF Row
<1>4. held' \in [Orders -> Int] /\ manual' \in [Refunds -> Row]
  BY <1>1, <1>2, <1>3, AmountsAreNat DEF RowsOK
<1> QED
  BY <1>1, <1>2, <1>4, RefundTypes DEF RowsOK, OutsideOK

LEMMA WebhookTypes ==
  ASSUME RowsOK, OutsideOK, NEW e \in EventIds, Webhook(e)
  PROVE  RowsOK' /\ OutsideOK'
<1> DEFINE o == sent[e].order
<1>1. Claim(e)
  BY DEF Webhook, WebhookIgnored, WebhookSucceeded, WebhookFailed, WebhookRefunded,
         WebhookVoided, Applies
<1>2. OutsideOK' /\ o \in Orders /\ sent[e].amount \in Amounts
  BY <1>1, SentIsEvent DEF Claim, providerVars, OutsideOK
<1>3. CASE UNCHANGED commerceVars
  BY <1>2, <1>3 DEF commerceVars, RowsOK
<1>4. CASE WebhookSucceeded(e)
  BY <1>2, <1>3, <1>4, ConfirmTypes DEF WebhookSucceeded
<1>5. CASE WebhookFailed(e)
  BY <1>2, <1>3, <1>5, FailTypes DEF WebhookFailed
<1>6. CASE WebhookRefunded(e)
  <2>1. PICK a \in Amounts :
          \/ UNCHANGED commerceVars
          \/ RecordRefund(o, a) /\ UNCHANGED <<held, manual, refIdUsed>>
    BY <1>2, <1>6, AmountsAreNat DEF WebhookRefunded
  <2> QED
    BY <1>2, <1>3, <2>1, RefundTypes DEF RowsOK
<1>7. CASE WebhookVoided(e)
  BY <1>2, <1>7, VoidTypes DEF WebhookVoided
<1> QED
  BY <1>3, <1>4, <1>5, <1>6, <1>7 DEF Webhook, WebhookIgnored

LEMMA ProviderTypes ==
  ASSUME RowsOK, OutsideOK, NEW e \in EventIds, NEW o \in Orders, Provider(e, o)
  PROVE  RowsOK' /\ OutsideOK' /\ UNCHANGED commerceVars
<1>1. ASSUME NEW kind, NEW a \in Amounts, Sends(e, kind, o, a)
      PROVE  /\ UNCHANGED commerceVars /\ UNCHANGED processed
             /\ sent' \in [EventIds -> Event \cup {NoEvent}]
  <2>1. [kind |-> kind, order |-> o, amount |-> a] \in Event
    BY <1>1, CommerceAssumption DEF Sends, Event
  <2> QED
    BY <1>1, <2>1 DEF Sends, OutsideOK
<1>2. 0 \in Amounts /\ Price \in Amounts /\ Amounts \subseteq Nat
  BY CommerceAssumption DEF Amounts
<1>3. ASSUME NEW a \in Amounts,
             ProviderCaptures(e, o, a) \/ ProviderReturns(e, o, a) \/ ProviderReports(e, o, a)
      PROVE  OutsideOK' /\ UNCHANGED commerceVars
  <2>1. CASE ProviderCaptures(e, o, a)
    BY <1>1, <2>1 DEF ProviderCaptures, OutsideOK
  <2>2. CASE ProviderReturns(e, o, a)
    BY <1>1, <1>2, <2>2 DEF ProviderReturns, OutsideOK
  <2>3. CASE ProviderReports(e, o, a)
    BY <1>1, <1>2, <2>3 DEF ProviderReports, OutsideOK
  <2> QED
    BY <1>3, <2>1, <2>2, <2>3
<1>4. ASSUME ProviderDeclines(e, o) \/ ProviderReverses(e, o) \/ ProviderSendsOther(e, o)
      PROVE  OutsideOK' /\ UNCHANGED commerceVars
  BY <1>1, <1>2, <1>4
     DEF ProviderDeclines, ProviderReverses, ProviderSendsOther, OutsideOK
<1>5. OutsideOK' /\ UNCHANGED commerceVars
  BY <1>3, <1>4 DEF Provider
<1> QED
  BY <1>5 DEF commerceVars, RowsOK

LEMMA TypeStep == TypeOK /\ [Next]_vars => TypeOK'
<1> SUFFICES ASSUME RowsOK, OutsideOK, [Next]_vars PROVE RowsOK' /\ OutsideOK'
  BY TypeParts DEF TypeOK, RowsOK, OutsideOK
<1>1. CASE UNCHANGED vars
  BY <1>1 DEF vars, RowsOK, OutsideOK
<1> QED
  BY <1>1, CallTypes, ManualTypes, WebhookTypes, ProviderTypes DEF Next

-----------------------------------------------------------------------------
(* Effects: what a step does to the order it is about.                       *)

(* The rows of order o become s, p, r and x; those of the others stay.       *)
Becomes(o, s, p, r, x) ==
  /\ order' = [order EXCEPT ![o] = s]
  /\ payment' = [payment EXCEPT ![o] = p]
  /\ refunded' = [refunded EXCEPT ![o] = r]
  /\ outbox' = [outbox EXCEPT ![o] = x]

Unpaid == {"none", "draft", "pending_payment"}

(* The only five ways an order moves on, each with the row it announces.     *)
Effect(o, s, p, r, x) ==
  /\ Becomes(o, s, p, r, x)
  /\ Consistent(s, p, r, x)
  /\ \/ order[o] \in Unpaid /\ s \in Unpaid \cup {"cancelled"} /\ x = outbox[o]
     \/ order[o] \in Unpaid /\ s = "paid" /\ x = [outbox[o] EXCEPT !.paid = TRUE]
     \/ /\ order[o] \in {"paid", "partially_refunded"} /\ s = "partially_refunded"
        /\ x = [outbox[o] EXCEPT !.partial = @ + 1]
     \/ /\ order[o] \in {"paid", "partially_refunded", "refunded"} /\ s = "refunded"
        /\ x = [outbox[o] EXCEPT !.full = @ + 1]
     \/ /\ order[o] \in Unpaid \cup {"paid"} /\ s = "voided"
        /\ x = [outbox[o] EXCEPT !.voided = TRUE]

Untouched == UNCHANGED <<order, payment, refunded, outbox>>

Moved == \E o \in Orders : \E s, p, r, x : Effect(o, s, p, r, x)

LEMMA ConfirmEffect ==
  ASSUME RowsOK, Sound, NEW o \in Orders, Confirm(o)
  PROVE  Effect(o, "paid", "succeeded", refunded[o], [outbox[o] EXCEPT !.paid = TRUE])
<1> DEFINE x == [outbox[o] EXCEPT !.paid = TRUE]
<1>1. order[o] = "pending_payment" /\ payment[o] = "pending"
  BY OrderTable, PaymentTable DEF Confirm
<1>2. Consistent(order[o], payment[o], refunded[o], outbox[o]) /\ outbox[o] \in OutboxOf
  BY DEF Sound, RowsOK
<1>3. x.paid = TRUE /\ x.voided = outbox[o].voided /\ x.full = outbox[o].full
      /\ x.partial = outbox[o].partial
  BY <1>2 DEF OutboxOf
<1>4. Consistent("paid", "succeeded", refunded[o], x)
  BY <1>1, <1>2, <1>3 DEF Consistent, Bought
<1>5. Becomes(o, "paid", "succeeded", refunded[o], x)
  BY DEF Confirm, Becomes, RowsOK
<1> QED
  BY <1>1, <1>4, <1>5 DEF Effect, Unpaid

LEMMA FailEffect ==
  ASSUME RowsOK, Sound, NEW o \in Orders, Fail(o)
  PROVE  Effect(o, order[o], "failed", refunded[o], outbox[o])
<1>1. payment[o] = "pending" /\ Consistent(order[o], payment[o], refunded[o], outbox[o])
  BY PaymentTable DEF Fail, Sound
<1>2. order[o] = "pending_payment" /\ Consistent(order[o], "failed", refunded[o], outbox[o])
  BY <1>1 DEF Consistent
<1>3. Becomes(o, order[o], "failed", refunded[o], outbox[o])
  BY DEF Fail, Becomes, RowsOK
<1> QED
  BY <1>2, <1>3 DEF Effect, Unpaid

LEMMA VoidEffect ==
  ASSUME RowsOK, Sound, NEW o \in Orders, Void(o),
         ~(payment[o] = "voided" /\ order[o] = "voided")
  PROVE  Effect(o, "voided", "voided", refunded[o], [outbox[o] EXCEPT !.voided = TRUE])
<1> DEFINE x == [outbox[o] EXCEPT !.voided = TRUE]
<1>1. Consistent(order[o], payment[o], refunded[o], outbox[o]) /\ outbox[o] \in OutboxOf
  BY DEF Sound, RowsOK
<1>2. order[o] \in {"pending_payment", "paid"}
  BY <1>1, OrderTable DEF Void, Consistent
<1>3. x.paid = outbox[o].paid /\ x.voided = TRUE /\ x.full = outbox[o].full
      /\ x.partial = outbox[o].partial
  BY <1>1 DEF OutboxOf
<1>4. Consistent("voided", "voided", refunded[o], x)
  BY <1>1, <1>2, <1>3 DEF Consistent, Bought
<1>5. Becomes(o, "voided", "voided", refunded[o], x)
  BY DEF Void, Becomes, RowsOK
<1> QED
  BY <1>2, <1>4, <1>5 DEF Effect, Unpaid

(* A refund is the delicate case: it either completes the price or leaves    *)
(* something to refund, and the ledger, the status and the flag of the       *)
(* outbox row must take the same side.                                       *)
LEMMA RefundEffect ==
  ASSUME RowsOK, Sound, NEW o \in Orders, NEW a \in Amounts, RecordRefund(o, a)
  PROVE  \E s, p, r, x : Effect(o, s, p, r, x)
<1> DEFINE r == refunded[o] + a
           full == [outbox[o] EXCEPT !.full = @ + 1]
           partial == [outbox[o] EXCEPT !.partial = @ + 1]
<1>1. Consistent(order[o], payment[o], refunded[o], outbox[o]) /\ outbox[o] \in OutboxOf
  BY DEF Sound, RowsOK
<1>2. refunded[o] \in Nat /\ a \in Nat /\ Price \in Nat \ {0} /\ r \in Nat
  BY AmountsAreNat, CommerceAssumption DEF RowsOK
<1>3. /\ full.paid = outbox[o].paid /\ full.voided = outbox[o].voided
      /\ full.full = outbox[o].full + 1 /\ full.partial = outbox[o].partial
      /\ partial.paid = outbox[o].paid /\ partial.voided = outbox[o].voided
      /\ partial.full = outbox[o].full /\ partial.partial = outbox[o].partial + 1
      /\ outbox[o].full \in Nat /\ outbox[o].partial \in Nat
  BY <1>1 DEF OutboxOf
<1>4. CASE r = Price
  <2>1. order[o] \in {"paid", "partially_refunded", "refunded"}
    BY <1>1, <1>4, OrderTable
       DEF RecordRefund, Settle, AlreadySettled, StatusAfterRefund, IsFull, RefundedAfter
  <2>2. Becomes(o, "refunded", "refunded", r, full)
    BY <1>4 DEF RecordRefund, Settle, AlreadySettled, StatusAfterRefund, IsFull,
                RefundedAfter, AnnounceRefund, Becomes, RowsOK
  <2>3. Consistent("refunded", "refunded", r, full)
    BY <1>1, <1>2, <1>3, <1>4, <2>1 DEF Consistent, Bought
  <2>4. Effect(o, "refunded", "refunded", r, full)
    BY <2>1, <2>2, <2>3 DEF Effect
  <2> QED
    BY <2>4
<1>5. CASE r # Price
  <2>1. order[o] \in {"paid", "partially_refunded"}
    BY <1>5, OrderTable
       DEF RecordRefund, Settle, AlreadySettled, StatusAfterRefund, IsFull, RefundedAfter
  <2>2. payment[o] = "succeeded"
    BY <1>1, <2>1 DEF Consistent
  <2>3. Becomes(o, "partially_refunded", "succeeded", r, partial)
    BY <1>5, <2>2 DEF RecordRefund, Settle, AlreadySettled, StatusAfterRefund, IsFull,
                      RefundedAfter, AnnounceRefund, Becomes, RowsOK
  <2>4. Consistent("partially_refunded", "succeeded", r, partial)
    BY <1>1, <1>2, <1>3, <1>5, <2>1 DEF Consistent, Bought
  <2>5. Effect(o, "partially_refunded", "succeeded", r, partial)
    BY <2>1, <2>3, <2>4 DEF Effect
  <2> QED
    BY <2>5
<1> QED
  BY <1>4, <1>5

LEMMA CallEffect ==
  ASSUME RowsOK, Sound, NEW o \in Orders, Call(o)
  PROVE  Untouched \/ Moved
<1> DEFINE Same == Consistent(order[o], payment[o], refunded[o], outbox[o])
<1>1. Same
  BY DEF Sound
<1>2. CASE CreateOrder(o)
  <2>1. Consistent("draft", payment[o], refunded[o], outbox[o])
    BY <1>1, <1>2 DEF CreateOrder, Consistent, Bought
  <2>2. Becomes(o, "draft", payment[o], refunded[o], outbox[o])
    BY <1>2 DEF CreateOrder, Becomes, RowsOK
  <2>3. Effect(o, "draft", payment[o], refunded[o], outbox[o])
    BY <1>2, <2>1, <2>2 DEF CreateOrder, Effect, Unpaid
  <2> QED
    BY <2>3 DEF Moved
<1>3. CASE MarkPaymentPending(o)
  <2>1. order[o] = "draft"
    BY <1>3, OrderTable DEF MarkPaymentPending
  <2>2. Consistent("pending_payment", "pending", refunded[o], outbox[o])
    BY <1>1, <2>1 DEF Consistent, Bought
  <2>3. Becomes(o, "pending_payment", "pending", refunded[o], outbox[o])
    BY <1>3 DEF MarkPaymentPending, Becomes, RowsOK
  <2>4. Effect(o, "pending_payment", "pending", refunded[o], outbox[o])
    BY <2>1, <2>2, <2>3 DEF Effect, Unpaid
  <2> QED
    BY <2>4 DEF Moved
<1>4. CASE CancelOrder(o)
  <2> DEFINE p == IF payment[o] = "pending" THEN "failed" ELSE payment[o]
  <2>1. order[o] \in {"draft", "pending_payment"}
    BY <1>4, OrderTable DEF CancelOrder
  <2>2. Consistent("cancelled", p, refunded[o], outbox[o])
    BY <1>1, <2>1 DEF Consistent, Bought
  <2>3. Becomes(o, "cancelled", p, refunded[o], outbox[o])
    BY <1>4 DEF CancelOrder, Becomes, RowsOK
  <2>4. Effect(o, "cancelled", p, refunded[o], outbox[o])
    BY <2>1, <2>2, <2>3 DEF Effect, Unpaid
  <2> QED
    BY <2>4 DEF Moved
<1>5. CASE ConfirmPayment(o)
  BY <1>5, ConfirmEffect DEF ConfirmPayment, Moved
<1>6. CASE FailPayment(o)
  BY <1>6, FailEffect DEF FailPayment, Moved
<1>7. ASSUME NEW a \in Amounts, NEW r \in Refunds, RequestManualRefund(o, a, r)
      PROVE  Untouched
  BY <1>7 DEF RequestManualRefund, Untouched
<1>8. ASSUME NEW a \in Amounts, RequestRefundUnrecorded(o, a)
      PROVE  Untouched
  BY <1>8 DEF RequestRefundUnrecorded, commerceVars, Untouched
<1>9. ASSUME NEW a \in Amounts, RequestRefund(o, a)
      PROVE  Moved
  BY <1>9, RefundEffect DEF RequestRefund, Moved
<1> QED
  BY <1>2, <1>3, <1>4, <1>5, <1>6, <1>7, <1>8, <1>9 DEF Call

LEMMA ManualEffect ==
  ASSUME RowsOK, Sound, NEW r \in Refunds, ConfirmManualRefund(r)
  PROVE  Moved
<1>1. manual[r].order \in Orders /\ manual[r].amount \in Amounts
  BY DEF RowsOK, Row
<1>2. RecordRefund(manual[r].order, manual[r].amount)
  BY DEF ConfirmManualRefund
<1> QED
  BY <1>1, <1>2, RefundEffect DEF Moved

LEMMA WebhookEffect ==
  ASSUME RowsOK, OutsideOK, Sound, NEW e \in EventIds, Webhook(e)
  PROVE  Untouched \/ Moved
<1> DEFINE o == sent[e].order
<1>1. o \in Orders /\ sent[e].amount \in Amounts
  BY SentIsEvent DEF Webhook, WebhookIgnored, WebhookSucceeded, WebhookFailed,
         WebhookRefunded, WebhookVoided, Applies, Claim
<1>2. CASE UNCHANGED commerceVars
  BY <1>2 DEF commerceVars, Untouched
<1>3. CASE WebhookSucceeded(e)
  BY <1>1, <1>2, <1>3, ConfirmEffect DEF WebhookSucceeded, Moved
<1>4. CASE WebhookFailed(e)
  BY <1>1, <1>2, <1>4, FailEffect DEF WebhookFailed, Moved
<1>5. CASE WebhookRefunded(e)
  <2>1. PICK a \in Amounts : UNCHANGED commerceVars \/ RecordRefund(o, a)
    BY <1>1, <1>5, AmountsAreNat DEF WebhookRefunded
  <2> QED
    BY <1>1, <1>2, <2>1, RefundEffect DEF Moved
<1>6. CASE WebhookVoided(e)
  BY <1>1, <1>6, VoidEffect DEF WebhookVoided, Moved
<1> QED
  BY <1>2, <1>3, <1>4, <1>5, <1>6 DEF Webhook, WebhookIgnored

(* Every step moves one order along, by one of the five ways, or no order.   *)
LEMMA StepEffect == IInv /\ [Next]_vars => Untouched \/ Moved
<1> SUFFICES ASSUME RowsOK, OutsideOK, Sound, [Next]_vars PROVE Untouched \/ Moved
  BY DEF IInv, TypeOK, RowsOK, OutsideOK
<1>1. CASE UNCHANGED vars
  BY <1>1 DEF vars, Untouched
<1>2. ASSUME NEW e \in EventIds, NEW o \in Orders, Provider(e, o)
      PROVE  Untouched
  BY <1>2, ProviderTypes DEF commerceVars, Untouched
<1> QED
  BY <1>1, <1>2, CallEffect, ManualEffect, WebhookEffect DEF Next

-----------------------------------------------------------------------------
(* Safety.                                                                   *)

LEMMA InitSound == Init => Sound
BY CommerceAssumption DEF Init, Sound, Consistent, Bought

LEMMA StepSound == IInv /\ [Next]_vars => Sound'
<1> SUFFICES ASSUME RowsOK, Sound, Untouched \/ Moved PROVE Sound'
  BY StepEffect, TypeParts DEF IInv
<1>1. CASE Untouched
  BY <1>1 DEF Untouched, Sound
<1>2. ASSUME NEW o \in Orders, NEW s, NEW p, NEW r, NEW x, Effect(o, s, p, r, x)
      PROVE  Sound'
  <2> SUFFICES ASSUME NEW q \in Orders
               PROVE  Consistent(order'[q], payment'[q], refunded'[q], outbox'[q])
    BY DEF Sound
  <2>1. CASE q = o
    <3>1. order'[q] = s /\ payment'[q] = p /\ refunded'[q] = r /\ outbox'[q] = x
      BY <1>2, <2>1 DEF Effect, Becomes, RowsOK
    <3> QED
      BY <1>2, <3>1 DEF Effect
  <2>2. CASE q # o
    <3>1. /\ order'[q] = order[q] /\ payment'[q] = payment[q]
          /\ refunded'[q] = refunded[q] /\ outbox'[q] = outbox[q]
      BY <1>2, <2>2 DEF Effect, Becomes, RowsOK
    <3> QED
      BY <3>1 DEF Sound
  <2> QED
    BY <2>1, <2>2
<1> QED
  BY <1>1, <1>2 DEF Moved

(* The invariant holds in every reachable state.                             *)
THEOREM Invariance == Spec => []IInv
<1>1. Init => IInv
  BY InitTypes, InitSound DEF IInv
<1>2. IInv /\ [Next]_vars => IInv'
  BY TypeStep, StepSound DEF IInv
<1> QED
  BY <1>1, <1>2, PTL DEF Spec

(* Every variable of the service keeps its type, whatever calls and webhooks *)
(* arrive in whatever order.                                                 *)
THEOREM TypeCorrect == Spec => []TypeOK
<1>1. IInv => TypeOK
  BY DEF IInv
<1> QED
  BY Invariance, <1>1, PTL

(* The order row and its payment row never contradict each other.            *)
THEOREM RowsNeverContradict == Spec => []StatusesAgree
<1>1. IInv => StatusesAgree
  BY SoundMeans DEF IInv
<1> QED
  BY Invariance, <1>1, PTL

(* An order is refunded exactly when its refund rows add up to its price,    *)
(* whatever mixture of requested, manual and provider refunds they are.      *)
THEOREM LedgerDecidesTheStatus == Spec => []RefundsLedger
<1>1. IInv => RefundsLedger
  BY SoundMeans DEF IInv
<1> QED
  BY Invariance, <1>1, PTL

(* The outbox holds exactly the rows that the status of the order calls for. *)
THEOREM OutboxIsExact == Spec => []OutboxTellsTheOrder
<1>1. IInv => OutboxTellsTheOrder
  BY SoundMeans DEF IInv
<1> QED
  BY Invariance, <1>1, PTL

-----------------------------------------------------------------------------
(* Subscriptions: what a step does to them is decided by what it does to the *)
(* status of the one order it is about.                                      *)

(* That an order not paid for has no subscription is what makes              *)
(* SubscriptionsArePaidFor inductive: a confirmation would otherwise find a  *)
(* cancelled one that no order of the plan accounts for.                     *)
SubscriptionsInv ==
  /\ SubscriptionsArePaidFor
  /\ \A o \in Orders : order[o] \in Unpaid \cup {"cancelled"} => sub[o] = "none"

TakenBack == {"refunded", "voided"}

StartsWith(o) ==
  /\ order[o] = "pending_payment" /\ order'[o] = "paid"
  /\ sub' = [sub EXCEPT ![o] = IF o \in Recurring THEN "active" ELSE @]

EndsWith(o) ==
  /\ \/ order[o] \in {"paid", "partially_refunded"} /\ order'[o] = "refunded"
     \/ order[o] \in {"pending_payment", "paid"} /\ order'[o] = "voided"
  /\ sub' = SubscriptionsCancelledWith(o)

GoesOnWith(o) ==
  /\ sub' = sub
  /\ \/ order'[o] = order[o]
     \/ order[o] \in Unpaid /\ order'[o] \in Unpaid \cup {"cancelled"}
     \/ order[o] = "paid" /\ order'[o] = "partially_refunded"

Follows(o) ==
  /\ \A p \in Orders : p # o => order'[p] = order[p]
  /\ StartsWith(o) \/ EndsWith(o) \/ GoesOnWith(o)

SubscriptionsFollow == UNCHANGED <<order, sub>> \/ \E o \in Orders : Follows(o)

LEMMA ConfirmFollows ==
  ASSUME RowsOK, NEW o \in Orders, Confirm(o)
  PROVE  Follows(o)
<1>1. order[o] = "pending_payment"
  BY OrderTable DEF Confirm
<1> QED
  BY <1>1 DEF Confirm, Follows, StartsWith, RowsOK

LEMMA VoidFollows ==
  ASSUME RowsOK, Sound, NEW o \in Orders, Void(o),
         ~(payment[o] = "voided" /\ order[o] = "voided")
  PROVE  Follows(o)
<1>1. order[o] \in {"pending_payment", "paid"}
  BY OrderTable DEF Void, Sound, Consistent
<1> QED
  BY <1>1 DEF Void, Follows, EndsWith, RowsOK

LEMMA RefundFollows ==
  ASSUME RowsOK, NEW o \in Orders, NEW a \in Amounts, RecordRefund(o, a)
  PROVE  Follows(o)
<1>1. Settle(o, a)
  BY DEF RecordRefund
<1>2. CASE AlreadySettled(o, a)
  BY <1>1, <1>2 DEF Settle, Follows, GoesOnWith
<1>3. CASE ~AlreadySettled(o, a) /\ IsFull(o, a)
  <2>1. StatusAfterRefund(o, a) = "refunded"
    BY <1>3 DEF StatusAfterRefund
  <2>2. /\ order[o] \in {"paid", "partially_refunded"}
        /\ order' = [order EXCEPT ![o] = "refunded"]
        /\ sub' = SubscriptionsCancelledWith(o)
    BY <1>1, <1>3, <2>1, OrderTable DEF Settle
  <2> QED
    BY <2>2 DEF Follows, EndsWith, RowsOK
<1>4. CASE ~AlreadySettled(o, a) /\ ~IsFull(o, a)
  <2>1. StatusAfterRefund(o, a) = "partially_refunded"
    BY <1>4 DEF StatusAfterRefund
  <2>2. /\ order[o] = "paid"
        /\ order' = [order EXCEPT ![o] = "partially_refunded"]
        /\ sub' = sub
    BY <1>1, <1>4, <2>1, OrderTable DEF Settle
  <2> QED
    BY <2>2 DEF Follows, GoesOnWith, RowsOK
<1> QED
  BY <1>2, <1>3, <1>4

LEMMA CallFollows ==
  ASSUME RowsOK, Sound, NEW o \in Orders, Call(o)
  PROVE  SubscriptionsFollow
<1>1. CASE CreateOrder(o) \/ MarkPaymentPending(o) \/ CancelOrder(o)
  <2>1. /\ sub' = sub /\ \A p \in Orders : p # o => order'[p] = order[p]
        /\ order[o] \in Unpaid /\ order'[o] \in Unpaid \cup {"cancelled"}
    BY <1>1, OrderTable DEF CreateOrder, MarkPaymentPending, CancelOrder, RowsOK, Unpaid
  <2> QED
    BY <2>1 DEF SubscriptionsFollow, Follows, GoesOnWith
<1>2. CASE ConfirmPayment(o)
  BY <1>2, ConfirmFollows DEF ConfirmPayment, SubscriptionsFollow
<1>3. CASE FailPayment(o)
  BY <1>3 DEF FailPayment, Fail, SubscriptionsFollow
<1>4. ASSUME NEW a \in Amounts, NEW r \in Refunds, RequestManualRefund(o, a, r)
      PROVE  SubscriptionsFollow
  BY <1>4 DEF RequestManualRefund, SubscriptionsFollow
<1>5. ASSUME NEW a \in Amounts, RequestRefund(o, a)
      PROVE  SubscriptionsFollow
  BY <1>5, RefundFollows DEF RequestRefund, SubscriptionsFollow
<1>6. ASSUME NEW a \in Amounts, RequestRefundUnrecorded(o, a)
      PROVE  SubscriptionsFollow
  BY <1>6 DEF RequestRefundUnrecorded, commerceVars, SubscriptionsFollow
<1> QED
  BY <1>1, <1>2, <1>3, <1>4, <1>5, <1>6 DEF Call

LEMMA ManualFollows ==
  ASSUME RowsOK, NEW r \in Refunds, ConfirmManualRefund(r)
  PROVE  SubscriptionsFollow
<1>1. manual[r].order \in Orders /\ manual[r].amount \in Amounts
  BY DEF RowsOK, Row
<1>2. RecordRefund(manual[r].order, manual[r].amount)
  BY DEF ConfirmManualRefund
<1> QED
  BY <1>1, <1>2, RefundFollows DEF SubscriptionsFollow

LEMMA WebhookFollows ==
  ASSUME RowsOK, OutsideOK, Sound, NEW e \in EventIds, Webhook(e)
  PROVE  SubscriptionsFollow
<1> DEFINE o == sent[e].order
<1>1. o \in Orders /\ sent[e].amount \in Amounts
  BY SentIsEvent DEF Webhook, WebhookIgnored, WebhookSucceeded, WebhookFailed,
         WebhookRefunded, WebhookVoided, Applies, Claim
<1>2. CASE UNCHANGED commerceVars
  BY <1>2 DEF commerceVars, SubscriptionsFollow
<1>3. CASE WebhookSucceeded(e)
  BY <1>1, <1>2, <1>3, ConfirmFollows DEF WebhookSucceeded, SubscriptionsFollow
<1>4. CASE WebhookFailed(e)
  BY <1>2, <1>4 DEF WebhookFailed, Fail, SubscriptionsFollow
<1>5. CASE WebhookRefunded(e)
  <2>1. PICK a \in Amounts : UNCHANGED commerceVars \/ RecordRefund(o, a)
    BY <1>1, <1>5, AmountsAreNat DEF WebhookRefunded
  <2> QED
    BY <1>1, <1>2, <2>1, RefundFollows DEF SubscriptionsFollow
<1>6. CASE WebhookVoided(e)
  BY <1>1, <1>6, VoidFollows DEF WebhookVoided, SubscriptionsFollow
<1> QED
  BY <1>2, <1>3, <1>4, <1>5, <1>6 DEF Webhook, WebhookIgnored

LEMMA StepFollows == IInv /\ [Next]_vars => SubscriptionsFollow
<1> SUFFICES ASSUME RowsOK, OutsideOK, Sound, [Next]_vars PROVE SubscriptionsFollow
  BY DEF IInv, TypeOK, RowsOK, OutsideOK
<1>1. CASE UNCHANGED vars
  BY <1>1 DEF vars, SubscriptionsFollow
<1>2. ASSUME NEW e \in EventIds, NEW o \in Orders, Provider(e, o)
      PROVE  SubscriptionsFollow
  BY <1>2, ProviderTypes DEF commerceVars, SubscriptionsFollow
<1> QED
  BY <1>1, <1>2, CallFollows, ManualFollows, WebhookFollows DEF Next

LEMMA FollowingStep ==
  ASSUME RowsOK, SubscriptionsInv, NEW o \in Orders, Follows(o)
  PROVE  SubscriptionsInv'
<1>1. \A p \in Orders : order[p] \in TakenBack => order'[p] \in TakenBack
  BY DEF Follows, StartsWith, EndsWith, GoesOnWith, TakenBack, Unpaid
<1>2. CASE StartsWith(o)
  <2>1. /\ sub'[o] = IF o \in Recurring THEN "active" ELSE "none"
        /\ \A p \in Orders : p # o => sub'[p] = sub[p] /\ order'[p] = order[p]
    BY <1>2 DEF StartsWith, SubscriptionsInv, RowsOK, Follows, Unpaid
  <2> QED
    BY <1>1, <1>2, <2>1
       DEF StartsWith, SubscriptionsInv, SubscriptionsArePaidFor, Bought, Unpaid, TakenBack
<1>3. CASE EndsWith(o)
  <2>1. ASSUME NEW p \in Orders
        PROVE  /\ sub'[p] = IF PlanOf[p] = PlanOf[o] /\ sub[p] = "active"
                            THEN "cancelled" ELSE sub[p]
               /\ p # o => order'[p] = order[p]
    BY <1>3 DEF EndsWith, SubscriptionsCancelledWith, Follows
  <2>2. order'[o] \in TakenBack /\ sub'[o] # "active" /\ (sub'[o] = "none" <=> sub[o] = "none")
    BY <1>3, <2>1 DEF EndsWith, TakenBack
  <2>3. o \in Recurring /\ order'[o] \in Bought => sub'[o] # "none"
    BY <1>3, <2>2 DEF EndsWith, SubscriptionsInv, SubscriptionsArePaidFor, Bought
  <2> QED
    BY <1>1, <1>3, <2>1, <2>2, <2>3
       DEF EndsWith, SubscriptionsInv, SubscriptionsArePaidFor, Bought, Unpaid, TakenBack
<1>4. CASE GoesOnWith(o)
  BY <1>1, <1>4 DEF Follows, GoesOnWith, SubscriptionsInv, SubscriptionsArePaidFor, Bought,
       Unpaid, TakenBack
<1> QED
  BY <1>2, <1>3, <1>4 DEF Follows

(* Whatever calls and webhooks arrive, a customer pays for every active      *)
(* subscription, has one for every recurring order in force, and loses it    *)
(* only with an order for the same plan.                                     *)
THEOREM SubscriptionsFollowPayment == Spec => []SubscriptionsArePaidFor
<1>1. Init => SubscriptionsInv
  BY DEF Init, SubscriptionsInv, SubscriptionsArePaidFor, Bought, Unpaid
<1>2. IInv /\ SubscriptionsInv /\ [Next]_vars => SubscriptionsInv'
  <2> SUFFICES ASSUME RowsOK, SubscriptionsInv, SubscriptionsFollow PROVE SubscriptionsInv'
    BY StepFollows, TypeParts DEF IInv
  <2>1. CASE UNCHANGED <<order, sub>>
    BY <2>1 DEF SubscriptionsInv, SubscriptionsArePaidFor
  <2> QED
    BY <2>1, FollowingStep DEF SubscriptionsFollow
<1>3. SubscriptionsInv => SubscriptionsArePaidFor
  BY DEF SubscriptionsInv
<1> QED
  BY Invariance, <1>1, <1>2, <1>3, PTL DEF Spec

-----------------------------------------------------------------------------
(* Sums over finite sets: what SumFunctionOnSet adds up to.                  *)

(* A non-empty set of subsets of a finite set has a minimal element: this is *)
(* how the lemmas below are proved by induction on the set.                  *)
LEMMA MinimalSubset ==
  ASSUME NEW S, IsFiniteSet(S), NEW B \in SUBSET SUBSET S, B # {}
  PROVE  \E T \in B : \A U \in SUBSET T : U # T => U \notin B
<1>1. IsWellFoundedOn(StrictSubsetOrdering(S), SUBSET S)
  BY FS_StrictSubsetOrderingWellFounded, FS_FiniteSubsetsOfFinite
<1>2. PICK T \in B : \A U \in B : ~(<<U, T>> \in StrictSubsetOrdering(S))
  BY <1>1, WFMin
<1>3. ASSUME NEW U \in SUBSET T, U # T, U \in B PROVE FALSE
  <2>1. <<U, T>> \in (SUBSET S) \X (SUBSET S)
    BY <1>3
  <2>2. <<U, T>> \in StrictSubsetOrdering(S)
    BY <1>3, <2>1 DEF StrictSubsetOrdering
  <2> QED
    BY <1>2, <1>3, <2>2
<1> QED
  BY <1>2, <1>3

Total(f, S) == SumFunctionOnSet(f, S)
First(S) == CHOOSE x \in S : TRUE

Solves(g, f, S) ==
  g = [s \in SUBSET S |-> IF s = {} THEN 0 ELSE f[First(s)] + g[s \ {First(s)}]]

LEMMA TotalIs ==
  ASSUME NEW f, NEW S
  PROVE  Total(f, S) = (CHOOSE g : Solves(g, f, S))[S]
BY DEF Total, SumFunctionOnSet, FoldFunctionOnSet, MapThenFoldSet, Solves, First

Totals(f, S) == [s \in SUBSET S |-> Total(f, s)]

Summed(f, S) == Solves(Totals(f, S), f, S) /\ \A g : Solves(g, f, S) => g = Totals(f, S)

LEMMA FirstIn ==
  ASSUME NEW S, S # {}
  PROVE  First(S) \in S
BY DEF First

LEMMA SummedStep ==
  ASSUME NEW f, NEW T, \A U \in SUBSET T : U # T => Summed(f, U)
  PROVE  Summed(f, T)
<1> DEFINE k == [s \in SUBSET T |-> IF s = {} THEN 0 ELSE f[First(s)] + Total(f, s \ {First(s)})]
<1>1. ASSUME NEW U \in SUBSET T, U # T
      PROVE  Total(f, U) = k[U]
  <2>1. Solves(Totals(f, U), f, U)
    BY <1>1 DEF Summed
  <2>2. Totals(f, U)[U] = IF U = {} THEN 0 ELSE f[First(U)] + Totals(f, U)[U \ {First(U)}]
    BY <2>1 DEF Solves
  <2>3. Totals(f, U)[U] = Total(f, U) /\ Totals(f, U)[U \ {First(U)}] = Total(f, U \ {First(U)})
    BY DEF Totals
  <2> QED
    BY <2>2, <2>3
<1>2. ASSUME NEW s \in SUBSET T, s # {}
      PROVE  s \ {First(s)} \in SUBSET T /\ s \ {First(s)} # T
  BY <1>2, FirstIn
<1>3. Solves(k, f, T)
  <2>1. ASSUME NEW s \in SUBSET T, s # {}
        PROVE  Total(f, s \ {First(s)}) = k[s \ {First(s)}]
    BY <1>1, <1>2, <2>1
  <2> QED
    BY <2>1 DEF Solves
<1>4. ASSUME NEW g, Solves(g, f, T)
      PROVE  g = k
  <2>1. ASSUME NEW U \in SUBSET T, U # T PROVE g[U] = Total(f, U)
    <3> DEFINE h == [s \in SUBSET U |-> g[s]]
    <3>1. ASSUME NEW s \in SUBSET U
          PROVE  h[s] = IF s = {} THEN 0 ELSE f[First(s)] + h[s \ {First(s)}]
      <4>1. s \in SUBSET T /\ s \ {First(s)} \in SUBSET U
        OBVIOUS
      <4>2. g[s] = IF s = {} THEN 0 ELSE f[First(s)] + g[s \ {First(s)}]
        BY <1>4, <4>1 DEF Solves
      <4> QED
        BY <4>1, <4>2
    <3>2. Solves(h, f, U)
      BY <3>1 DEF Solves
    <3>3. h = Totals(f, U)
      BY <2>1, <3>2 DEF Summed
    <3>4. h[U] = g[U] /\ Totals(f, U)[U] = Total(f, U)
      BY DEF Totals
    <3> QED
      BY <3>3, <3>4
  <2>2. ASSUME NEW s \in SUBSET T PROVE g[s] = k[s]
    <3>1. g[s] = IF s = {} THEN 0 ELSE f[First(s)] + g[s \ {First(s)}]
      BY <1>4 DEF Solves
    <3>2. s # {} => g[s \ {First(s)}] = Total(f, s \ {First(s)})
      BY <1>2, <2>1
    <3> QED
      BY <3>1, <3>2
  <2>3. g = [s \in SUBSET T |-> g[s]]
    BY <1>4 DEF Solves
  <2> QED
    BY <2>2, <2>3
<1>5. Total(f, T) = k[T]
  <2>1. (CHOOSE g : Solves(g, f, T)) = k
    BY <1>3, <1>4
  <2> QED
    BY <2>1, TotalIs
<1>6. Totals(f, T) = k
  <2>1. ASSUME NEW s \in SUBSET T PROVE Total(f, s) = k[s]
    BY <1>1, <1>5
  <2> QED
    BY <2>1 DEF Totals
<1> QED
  BY <1>3, <1>4, <1>6 DEF Summed

LEMMA AllSummed ==
  ASSUME NEW f, NEW S, IsFiniteSet(S)
  PROVE  Summed(f, S)
<1> DEFINE B == {T \in SUBSET S : ~Summed(f, T)}
<1>1. SUFFICES ASSUME B # {} PROVE FALSE
  OBVIOUS
<1>2. B \in SUBSET SUBSET S
  OBVIOUS
<1>3. PICK T \in B : \A U \in SUBSET T : U # T => U \notin B
  <2> HIDE DEF B
  <2> QED
    BY <1>1, <1>2, MinimalSubset
<1>4. \A U \in SUBSET T : U # T => Summed(f, U)
  BY <1>3
<1> QED
  BY <1>3, <1>4, SummedStep

LEMMA TotalUnfolds ==
  ASSUME NEW f, NEW S, IsFiniteSet(S)
  PROVE  Total(f, S) = IF S = {} THEN 0 ELSE f[First(S)] + Total(f, S \ {First(S)})
<1>1. Solves(Totals(f, S), f, S)
  BY AllSummed DEF Summed
<1>2. Totals(f, S)[S] = IF S = {} THEN 0 ELSE f[First(S)] + Totals(f, S)[S \ {First(S)}]
  BY <1>1 DEF Solves
<1> QED
  BY <1>2 DEF Totals

LEMMA TotalOfNone ==
  ASSUME NEW f
  PROVE  Total(f, {}) = 0
BY TotalUnfolds, FS_EmptySet

LEMMA TotalIsNat ==
  ASSUME NEW f, NEW S, IsFiniteSet(S), \A x \in S : f[x] \in Nat
  PROVE  Total(f, S) \in Nat
<1> DEFINE B == {T \in SUBSET S : Total(f, T) \notin Nat}
<1>1. SUFFICES ASSUME B # {} PROVE FALSE
  OBVIOUS
<1>2. B \in SUBSET SUBSET S
  OBVIOUS
<1>3. PICK T \in B : \A U \in SUBSET T : U # T => U \notin B
  <2> HIDE DEF B
  <2> QED
    BY <1>1, <1>2, MinimalSubset
<1>4. IsFiniteSet(T) /\ \A x \in T : f[x] \in Nat
  BY FS_Subset
<1>5. T # {}
  BY TotalOfNone
<1>6. First(T) \in T /\ f[First(T)] \in Nat /\ Total(f, T \ {First(T)}) \in Nat
  BY <1>3, <1>4, <1>5, FirstIn
<1> QED
  BY <1>4, <1>5, <1>6, TotalUnfolds

(* The order of the summands does not matter: any one may be taken first.    *)
LEMMA TotalTakes ==
  ASSUME NEW f, NEW S, IsFiniteSet(S), \A x \in S : f[x] \in Nat, NEW y \in S
  PROVE  Total(f, S) = f[y] + Total(f, S \ {y})
<1> DEFINE Takes(T) == \A x \in T : Total(f, T) = f[x] + Total(f, T \ {x})
           B == {T \in SUBSET S : ~Takes(T)}
<1>1. SUFFICES ASSUME B # {} PROVE FALSE
  BY DEF Takes
<1>2. B \in SUBSET SUBSET S
  OBVIOUS
<1>3. PICK T \in B : \A U \in SUBSET T : U # T => U \notin B
  <2> HIDE DEF B
  <2> QED
    BY <1>1, <1>2, MinimalSubset
<1>4. PICK x \in T : Total(f, T) # f[x] + Total(f, T \ {x})
  OBVIOUS
<1>5. IsFiniteSet(T) /\ \A U \in SUBSET T : IsFiniteSet(U)
  BY FS_Subset
<1> DEFINE c == First(T)
<1>6. c \in T /\ Total(f, T) = f[c] + Total(f, T \ {c})
  BY <1>4, <1>5, FirstIn, TotalUnfolds
<1>7. x # c
  BY <1>4, <1>6
<1>8. Total(f, T \ {c}) = f[x] + Total(f, (T \ {c}) \ {x})
  BY <1>3, <1>4, <1>6, <1>7
<1>9. Total(f, T \ {x}) = f[c] + Total(f, (T \ {x}) \ {c})
  BY <1>3, <1>4, <1>6, <1>7
<1>10. (T \ {x}) \ {c} = (T \ {c}) \ {x}
  OBVIOUS
<1>11. f[x] \in Nat /\ f[c] \in Nat /\ Total(f, (T \ {c}) \ {x}) \in Nat
  BY <1>5, <1>6, TotalIsNat
<1> QED
  BY <1>4, <1>6, <1>8, <1>9, <1>10, <1>11

(* A sum is determined by its summands.                                      *)
LEMMA TotalOfSame ==
  ASSUME NEW f, NEW g, NEW S, IsFiniteSet(S), \A x \in S : f[x] = g[x]
  PROVE  Total(f, S) = Total(g, S)
<1> DEFINE B == {T \in SUBSET S : Total(f, T) # Total(g, T)}
<1>1. SUFFICES ASSUME B # {} PROVE FALSE
  OBVIOUS
<1>2. B \in SUBSET SUBSET S
  OBVIOUS
<1>3. PICK T \in B : \A U \in SUBSET T : U # T => U \notin B
  <2> HIDE DEF B
  <2> QED
    BY <1>1, <1>2, MinimalSubset
<1>4. IsFiniteSet(T) /\ T # {}
  BY FS_Subset, TotalOfNone
<1>5. First(T) \in T /\ Total(f, T \ {First(T)}) = Total(g, T \ {First(T)})
  BY <1>3, <1>4, FirstIn
<1> QED
  BY <1>4, <1>5, TotalUnfolds

(* Two sums that differ in one summand at most.                              *)
Summand(f, S, y) == IF y \in S THEN f[y] ELSE 0

AlikeBut(y, f, S, g, T) ==
  /\ IsFiniteSet(S) /\ IsFiniteSet(T)
  /\ \A x \in S : f[x] \in Nat
  /\ \A x \in T : g[x] \in Nat
  /\ S \ {y} = T \ {y}
  /\ \A x \in S \ {y} : f[x] = g[x]

LEMMA TotalChanges ==
  ASSUME NEW y, NEW f, NEW S, NEW g, NEW T, AlikeBut(y, f, S, g, T)
  PROVE  /\ Total(f, S) \in Nat /\ Total(g, T) \in Nat
         /\ Total(g, T) + Summand(f, S, y) = Total(f, S) + Summand(g, T, y)
<1> DEFINE R == S \ {y}
<1> USE DEF AlikeBut, Summand
<1>1. IsFiniteSet(R) /\ Total(f, R) = Total(g, R) /\ Total(f, R) \in Nat
  BY FS_Subset, TotalOfSame, TotalIsNat
<1>2. Total(f, S) = Summand(f, S, y) + Total(f, R)
  <2>1. CASE y \in S
    BY <2>1, TotalTakes
  <2>2. CASE y \notin S
    <3>1. Total(f, S) = Total(f, R)
      <4>1. S = R
        BY <2>2
      <4> QED
        BY <4>1
    <3>2. Total(f, R) \in Nat
      BY <1>1
    <3> QED
      BY <2>2, <3>1, <3>2
  <2> QED
    BY <2>1, <2>2
<1>3. Total(g, T) = Summand(g, T, y) + Total(g, R)
  <2>1. CASE y \in T
    BY <2>1, TotalTakes
  <2>2. CASE y \notin T
    <3>1. Total(g, T) = Total(g, R)
      <4>1. T = R
        BY <2>2
      <4> QED
        BY <4>1
    <3>2. Total(g, R) \in Nat
      BY <1>1
    <3> QED
      BY <2>2, <3>1, <3>2
  <2> QED
    BY <2>1, <2>2
<1>4. Summand(f, S, y) \in Nat /\ Summand(g, T, y) \in Nat
  OBVIOUS
<1>5. ASSUME NEW a \in Nat, NEW b \in Nat, NEW t \in Nat, NEW u, NEW w, u = a + t, w = b + t
      PROVE  u \in Nat /\ w \in Nat /\ w + a = u + b
  BY <1>5
<1> QED
  BY <1>1, <1>2, <1>3, <1>4, <1>5

-----------------------------------------------------------------------------
(* Money: every refund in the ledger is backed by money that went back, or   *)
(* was reported to have.                                                     *)

(* The amount a refund row adds to the sums of order q, and the amount an    *)
(* event does that reports part of a payment returned.                       *)
ManualRows(m, q, st) == {r \in Refunds : m[r].order = q /\ m[r].status = st}
ManualSum(m, q, st) == Total([r \in Refunds |-> m[r].amount], ManualRows(m, q, st))

Reports(snt, prc, e, q) ==
  e \notin prc /\ snt[e] # NoEvent /\ snt[e].kind = "partially_refunded" /\ snt[e].order = q
ReportSum(snt, prc, q) ==
  Total([e \in EventIds |-> snt[e].amount], {e \in EventIds : Reports(snt, prc, e, q)})

Succeeded(q) == ManualSum(manual, q, "succeeded")
Open(q) == ManualSum(manual, q, "manual_required")
Reported(q) == ReportSum(sent, processed, q)

(* What the provider has reported and the service has not yet recorded may   *)
(* be recorded at any time, unless the payment is refunded altogether: so it *)
(* belongs to what has to be backed.                                         *)
LedgerBacked(q) ==
  /\ refunded[q] <= returned[q] + Succeeded(q) \/ refunded[q] <= told[q] + Succeeded(q)
  /\ refunded[q] < Price => refunded[q] + Reported(q) <= told[q] + Succeeded(q)

(* An order that was never paid for holds nothing back, and what is refunded *)
(* and held fits in the payment until the provider refunds on its own.       *)
Early == {"none", "pending", "failed"}

HeldFits(q) ==
  /\ held[q] = Open(q)
  /\ refunded[q] <= Price
  /\ payment[q] \in Early => held[q] = 0
  /\ payment[q] = "succeeded" /\ ~ReportedRefund(q) => refunded[q] + held[q] <= Price

EventsAreReal ==
  /\ \A e \in processed : sent[e] # NoEvent
  /\ \A e \in EventIds : sent[e] # NoEvent /\ sent[e].kind = "refunded" =>
                         returned[sent[e].order] >= Price

MoneyInv ==
  /\ EventsAreReal
  /\ \A q \in Orders : LedgerBacked(q) /\ HeldFits(q)

LEMMA ManualTotals ==
  ASSUME NEW q, NEW st
  PROVE  ManualTotal(q, st) = ManualSum(manual, q, st)
BY DEF ManualTotal, ManualSum, ManualRows, Total

LEMMA ManualSumIsNat ==
  ASSUME NEW m \in [Refunds -> Row], NEW q, NEW st
  PROVE  ManualSum(m, q, st) \in Nat
<1> DEFINE f == [r \in Refunds |-> m[r].amount]
<1>1. \A r \in Refunds : f[r] \in Nat
  BY AmountsAreNat DEF Row
<1>2. IsFiniteSet(ManualRows(m, q, st)) /\ ManualRows(m, q, st) \subseteq Refunds
  BY CommerceAssumption, FS_Subset DEF ManualRows
<1> QED
  BY <1>1, <1>2, TotalIsNat DEF ManualSum

Share(row, q, st) == IF row.order = q /\ row.status = st THEN row.amount ELSE 0

(* One refund row changes.                                                   *)
LEMMA ManualSumChanges ==
  ASSUME NEW m \in [Refunds -> Row], NEW n \in [Refunds -> Row], NEW r \in Refunds,
         \A x \in Refunds : x # r => n[x] = m[x], NEW q, NEW st
  PROVE  ManualSum(n, q, st) + Share(m[r], q, st) = ManualSum(m, q, st) + Share(n[r], q, st)
<1> DEFINE f == [x \in Refunds |-> m[x].amount]
           g == [x \in Refunds |-> n[x].amount]
           S == ManualRows(m, q, st)
           T == ManualRows(n, q, st)
<1>1. IsFiniteSet(S) /\ IsFiniteSet(T) /\ S \subseteq Refunds /\ T \subseteq Refunds
  BY CommerceAssumption, FS_Subset DEF ManualRows
<1>2. (\A x \in S : f[x] \in Nat) /\ (\A x \in T : g[x] \in Nat)
  BY <1>1, AmountsAreNat DEF Row
<1>3. S \ {r} = T \ {r}
  BY DEF ManualRows
<1>4. \A x \in S \ {r} : f[x] = g[x]
  BY <1>1
<1>5. AlikeBut(r, f, S, g, T)
  <2> HIDE DEF f, g, S, T
  <2> QED
    BY <1>1, <1>2, <1>3, <1>4 DEF AlikeBut
<1>6. Total(g, T) + Summand(f, S, r) = Total(f, S) + Summand(g, T, r)
  <2> HIDE DEF f, g, S, T
  <2> QED
    BY <1>5, TotalChanges
<1>7. Summand(f, S, r) = Share(m[r], q, st) /\ Summand(g, T, r) = Share(n[r], q, st)
  BY DEF ManualRows, Share, Summand
<1> QED
  BY <1>6, <1>7 DEF ManualSum

LEMMA ReportSumIsNat ==
  ASSUME NEW s \in [EventIds -> Event \cup {NoEvent}], NEW k, NEW q
  PROVE  ReportSum(s, k, q) \in Nat
<1> DEFINE f == [x \in EventIds |-> s[x].amount]
           S == {x \in EventIds : Reports(s, k, x, q)}
<1>1. \A x \in S : f[x] \in Nat
  BY AmountsAreNat DEF Reports, Event
<1>2. IsFiniteSet(S)
  BY CommerceAssumption, FS_Subset
<1> QED
  BY <1>1, <1>2, TotalIsNat DEF ReportSum

ReportShare(snt, prc, e, q) == IF Reports(snt, prc, e, q) THEN snt[e].amount ELSE 0

(* One event is sent or processed.                                           *)
LEMMA ReportSumChanges ==
  ASSUME NEW s \in [EventIds -> Event \cup {NoEvent}], NEW t \in [EventIds -> Event \cup {NoEvent}],
         NEW k, NEW l, NEW e \in EventIds,
         \A x \in EventIds : x # e => t[x] = s[x] /\ (x \in l <=> x \in k), NEW q
  PROVE  /\ ReportSum(s, k, q) \in Nat /\ ReportSum(t, l, q) \in Nat
         /\ ReportSum(t, l, q) + ReportShare(s, k, e, q) = ReportSum(s, k, q)
              + ReportShare(t, l, e, q)
<1> DEFINE f == [x \in EventIds |-> s[x].amount]
           g == [x \in EventIds |-> t[x].amount]
           S == {x \in EventIds : Reports(s, k, x, q)}
           T == {x \in EventIds : Reports(t, l, x, q)}
<1>1. IsFiniteSet(S) /\ IsFiniteSet(T) /\ S \subseteq EventIds /\ T \subseteq EventIds
  BY CommerceAssumption, FS_Subset
<1>2. (\A x \in S : f[x] \in Nat) /\ (\A x \in T : g[x] \in Nat)
  BY AmountsAreNat DEF Reports, Event
<1>3. S \ {e} = T \ {e}
  BY DEF Reports
<1>4. \A x \in S \ {e} : f[x] = g[x]
  BY <1>1
<1>5. AlikeBut(e, f, S, g, T)
  <2> HIDE DEF f, g, S, T
  <2> QED
    BY <1>1, <1>2, <1>3, <1>4 DEF AlikeBut
<1>6. /\ Total(f, S) \in Nat /\ Total(g, T) \in Nat
      /\ Total(g, T) + Summand(f, S, e) = Total(f, S) + Summand(g, T, e)
  <2> HIDE DEF f, g, S, T
  <2> QED
    BY <1>5, TotalChanges
<1>7. Summand(f, S, e) = ReportShare(s, k, e, q) /\ Summand(g, T, e) = ReportShare(t, l, e, q)
  BY DEF ReportShare, Summand
<1> QED
  BY <1>6, <1>7 DEF ReportSum

LEMMA MoneyTypes ==
  ASSUME RowsOK, OutsideOK, NEW q \in Orders
  PROVE  /\ refunded[q] \in Nat /\ returned[q] \in Nat /\ told[q] \in Nat
         /\ Succeeded(q) \in Nat /\ Open(q) \in Nat /\ Reported(q) \in Nat
<1>1. Succeeded(q) \in Nat /\ Open(q) \in Nat
  BY ManualSumIsNat DEF RowsOK, Succeeded, Open
<1>2. Reported(q) \in Nat
  BY ReportSumIsNat DEF OutsideOK, Reported
<1> QED
  BY <1>1, <1>2 DEF RowsOK, OutsideOK

LEMMA MoneyTypesAfter ==
  ASSUME RowsOK', OutsideOK', NEW q \in Orders
  PROVE  /\ refunded'[q] \in Nat /\ returned'[q] \in Nat /\ told'[q] \in Nat
         /\ held'[q] \in Int
         /\ Succeeded(q)' \in Nat /\ Open(q)' \in Nat /\ Reported(q)' \in Nat
<1>1. Succeeded(q)' \in Nat /\ Open(q)' \in Nat
  BY ManualSumIsNat DEF RowsOK, Succeeded, Open
<1>2. Reported(q)' \in Nat
  BY ReportSumIsNat DEF OutsideOK, Reported
<1> QED
  BY <1>1, <1>2 DEF RowsOK, OutsideOK

(* A payment that is not in force becomes so with nothing refunded.          *)
LEMMA PaymentsMove ==
  ASSUME IInv, [Next]_vars, NEW q \in Orders
  PROVE  /\ payment'[q] \in Early => payment[q] \in Early
         /\ payment'[q] = "succeeded" =>
              payment[q] = "succeeded" \/ (payment[q] \in Early /\ refunded'[q] = 0)
<1>1. IInv'
  BY TypeStep, StepSound DEF IInv
<1>2. CASE Untouched
  <2>1. payment' = payment
    BY <1>2 DEF Untouched
  <2> QED
    BY <2>1
<1>3. ASSUME NEW o \in Orders, NEW s, NEW p, NEW r, NEW x, Effect(o, s, p, r, x)
      PROVE  /\ payment'[q] \in Early => payment[q] \in Early
             /\ payment'[q] = "succeeded" =>
                  payment[q] = "succeeded" \/ (payment[q] \in Early /\ refunded'[q] = 0)
  <2>1. CASE q # o
    <3>1. payment'[q] = payment[q]
      BY <1>3, <2>1 DEF Effect, Becomes, IInv, TypeOK
    <3> QED
      BY <3>1
  <2>2. CASE q = o
    <3>1. payment'[q] = p /\ refunded'[q] = r /\ r \in Nat
      BY <1>1, <1>3, <2>2 DEF Effect, Becomes, IInv, TypeOK
    <3>2. Consistent(order[q], payment[q], refunded[q], outbox[q]) /\ Consistent(s, p, r, x)
      BY <1>3, <2>2 DEF Effect, IInv, Sound
    <3>3. \/ order[q] \in Unpaid /\ s \in Unpaid \cup {"cancelled", "paid"}
          \/ order[q] \in {"paid", "partially_refunded"} /\ s = "partially_refunded"
          \/ s \in {"refunded", "voided"}
      BY <1>3, <2>2 DEF Effect
    <3>4. /\ order[q] \in Unpaid => payment[q] \in Early
          /\ order[q] \in {"paid", "partially_refunded"} => payment[q] = "succeeded"
      BY <3>2 DEF Consistent, Unpaid, Early
    <3>5. /\ p \in Early => s \in Unpaid \cup {"cancelled"}
          /\ p = "succeeded" => s \in {"paid", "partially_refunded"}
      BY <3>2 DEF Consistent, Unpaid, Early
    <3>6. s = "paid" => r = 0
      BY <3>1, <3>2 DEF Consistent
    <3> QED
      BY <3>1, <3>3, <3>4, <3>5, <3>6 DEF Unpaid
  <2> QED
    BY <2>1, <2>2
<1> QED
  BY <1>2, <1>3, StepEffect DEF Moved

(* What a step must keep for one order.                                      *)
LEMMA LedgerStep ==
  ASSUME RowsOK, OutsideOK, RowsOK', OutsideOK', NEW q \in Orders, LedgerBacked(q),
         refunded[q] <= refunded'[q], refunded'[q] <= Price,
         returned[q] <= returned'[q], told[q] <= told'[q], Succeeded(q) <= Succeeded(q)',
         \/ refunded'[q] + Reported(q)' + told[q] + Succeeded(q)
              <= refunded[q] + Reported(q) + told'[q] + Succeeded(q)'
         \/ refunded'[q] = Price /\ Price <= returned'[q] + Succeeded(q)'
  PROVE  LedgerBacked(q)'
<1>1. Price \in Nat
  BY CommerceAssumption
<1> QED
  BY <1>1, MoneyTypes, MoneyTypesAfter DEF LedgerBacked

LEMMA HeldStep ==
  ASSUME IInv, IInv', [Next]_vars, NEW q \in Orders, HeldFits(q),
         held'[q] = Open(q)', refunded'[q] <= Price,
         payment[q] \in Early => held'[q] = held[q],
         payment'[q] = "succeeded" =>
           \/ held'[q] + refunded'[q] <= Price
           \/ held'[q] = held[q] /\ refunded'[q] = refunded[q]
                /\ (ReportedRefund(q) => ReportedRefund(q)')
           \/ ReportedRefund(q)'
  PROVE  HeldFits(q)'
<1>1. Price \in Nat
  BY CommerceAssumption
<1>2. RowsOK /\ RowsOK' /\ OutsideOK /\ OutsideOK'
  BY DEF IInv, TypeOK, RowsOK, OutsideOK
<1>3. refunded[q] \in Nat /\ refunded'[q] \in Nat /\ held[q] \in Int /\ held'[q] \in Int
  BY <1>2 DEF RowsOK
<1>4. payment'[q] \in Early => held'[q] = 0
  BY PaymentsMove DEF HeldFits
<1>5. ASSUME payment'[q] = "succeeded", ~ReportedRefund(q)'
      PROVE  refunded'[q] + held'[q] <= Price
  <2>1. CASE held'[q] + refunded'[q] <= Price
    BY <1>3, <2>1
  <2>2. CASE /\ held'[q] = held[q] /\ refunded'[q] = refunded[q]
             /\ ~ReportedRefund(q)
    <3>1. CASE payment[q] = "succeeded"
      BY <2>2, <3>1 DEF HeldFits
    <3>2. CASE payment[q] \in Early /\ refunded'[q] = 0
      BY <1>1, <2>2, <3>2 DEF HeldFits
    <3> QED
      BY <1>5, <3>1, <3>2, PaymentsMove
  <2> QED
    BY <1>5, <2>1, <2>2
<1> QED
  BY <1>4, <1>5 DEF HeldFits

(* What one webhook or one refund row changes in the sums.                   *)
RefundReportsStay == \A q \in Orders : ReportedRefund(q) => ReportedRefund(q)'

LEMMA ClaimedReports ==
  ASSUME OutsideOK, OutsideOK', NEW e \in EventIds, Claim(e), NEW q \in Orders
  PROVE  /\ Reported(q)' + ReportShare(sent, processed, e, q) = Reported(q)
         /\ RefundReportsStay
<1>1. sent' = sent /\ processed' = processed \cup {e}
  BY DEF Claim, providerVars
<1>2. ReportShare(sent', processed', e, q) = 0
  BY <1>1 DEF ReportShare, Reports
<1>3. /\ ReportSum(sent, processed, q) \in Nat /\ ReportSum(sent', processed', q) \in Nat
      /\ ReportSum(sent', processed', q) + ReportShare(sent, processed, e, q)
           = ReportSum(sent, processed, q) + ReportShare(sent', processed', e, q)
  <2>1. \A x \in EventIds : x # e => sent'[x] = sent[x] /\ (x \in processed' <=> x \in processed)
    BY <1>1
  <2>2. sent \in [EventIds -> Event \cup {NoEvent}] /\ sent' \in [EventIds -> Event \cup {NoEvent}]
    BY DEF OutsideOK
  <2> QED
    BY <2>1, <2>2, ReportSumChanges
<1>4. Reported(q)' = ReportSum(sent', processed', q)
  BY DEF Reported
<1>5. RefundReportsStay
  BY <1>1 DEF RefundReportsStay, ReportedRefund
<1> QED
  BY <1>2, <1>3, <1>4, <1>5 DEF Reported

LEMMA SentReports ==
  ASSUME OutsideOK, OutsideOK', EventsAreReal, NEW e \in EventIds, NEW kind, NEW o \in Orders,
         NEW a \in Amounts, Sends(e, kind, o, a), NEW q \in Orders
  PROVE  /\ Reported(q)' = Reported(q) + IF q = o /\ kind = "partially_refunded" THEN a ELSE 0
         /\ RefundReportsStay
<1>1. /\ sent[e] = NoEvent /\ processed' = processed /\ e \notin processed
      /\ sent' = [sent EXCEPT ![e] = [kind |-> kind, order |-> o, amount |-> a]]
      /\ kind \in Kinds
  BY CommerceAssumption DEF Sends, EventsAreReal
<1>2. /\ sent'[e] = [kind |-> kind, order |-> o, amount |-> a] /\ sent'[e] # NoEvent
      /\ \A x \in EventIds : x # e => sent'[x] = sent[x]
  BY <1>1, CommerceAssumption DEF OutsideOK, Event
<1>3. /\ ReportSum(sent, processed, q) \in Nat /\ ReportSum(sent', processed', q) \in Nat
      /\ ReportSum(sent', processed', q) + ReportShare(sent, processed, e, q)
           = ReportSum(sent, processed, q) + ReportShare(sent', processed', e, q)
  <2>1. \A x \in EventIds : x # e => sent'[x] = sent[x] /\ (x \in processed' <=> x \in processed)
    BY <1>1, <1>2
  <2>2. sent \in [EventIds -> Event \cup {NoEvent}] /\ sent' \in [EventIds -> Event \cup {NoEvent}]
    BY DEF OutsideOK
  <2> QED
    BY <2>1, <2>2, ReportSumChanges
<1>4. /\ ReportShare(sent, processed, e, q) = 0
      /\ ReportShare(sent', processed', e, q) = IF q = o
           /\ kind = "partially_refunded" THEN a ELSE 0
  BY <1>1, <1>2 DEF ReportShare, Reports
<1>5. Reported(q)' = ReportSum(sent', processed', q)
  BY DEF Reported
<1>6. RefundReportsStay
  BY <1>1, <1>2 DEF RefundReportsStay, ReportedRefund, OutsideOK
<1>7. ReportSum(sent', processed', q) = ReportSum(sent, processed, q)
        + ReportShare(sent', processed', e, q)
  BY <1>3, <1>4
<1> QED
  BY <1>4, <1>5, <1>6, <1>7 DEF Reported

LEMMA ReportsStay ==
  ASSUME UNCHANGED <<sent, processed>>, NEW q \in Orders
  PROVE  Reported(q)' = Reported(q) /\ RefundReportsStay
BY DEF Reported, RefundReportsStay, ReportedRefund

LEMMA ManualStays ==
  ASSUME manual' = manual, NEW q \in Orders
  PROVE  Succeeded(q)' = Succeeded(q) /\ Open(q)' = Open(q)
BY DEF Succeeded, Open

LEMMA ManualOpens ==
  ASSUME RowsOK, RowsOK', NEW o \in Orders, NEW a \in Amounts, NEW r \in Refunds,
         RequestManualRefund(o, a, r), NEW q \in Orders
  PROVE  Succeeded(q)' = Succeeded(q) /\ Open(q)' = Open(q) + IF q = o THEN a ELSE 0
<1>1. /\ manual[r].status = "free"
           /\ manual'[r] = [status |-> "manual_required", order |-> o, amount |-> a]
      /\ \A x \in Refunds : x # r => manual'[x] = manual[x]
  BY DEF RequestManualRefund, RowsOK
<1>2. ASSUME NEW st
      PROVE  /\ ManualSum(manual, q, st) \in Nat /\ ManualSum(manual', q, st) \in Nat
             /\ ManualSum(manual', q, st) + Share(manual[r], q, st)
                  = ManualSum(manual, q, st) + Share(manual'[r], q, st)
  BY <1>1, ManualSumChanges, ManualSumIsNat DEF RowsOK
<1>3. /\ Share(manual[r], q, "succeeded") = 0 /\ Share(manual'[r], q, "succeeded") = 0
      /\ Share(manual[r], q, "manual_required") = 0
      /\ Share(manual'[r], q, "manual_required") = IF q = o THEN a ELSE 0
  BY <1>1 DEF Share
<1>4. (IF q = o THEN a ELSE 0) \in Nat
  BY AmountsAreNat
<1> QED
  BY <1>2, <1>3, <1>4 DEF Succeeded, Open

LEMMA ManualCloses ==
  ASSUME RowsOK, RowsOK', NEW r \in Refunds, ConfirmManualRefund(r), NEW q \in Orders
  PROVE  /\ Succeeded(q)' = Succeeded(q) + IF q = manual[r].order THEN manual[r].amount ELSE 0
         /\ Open(q)' + (IF q = manual[r].order THEN manual[r].amount ELSE 0) = Open(q)
<1>1. /\ manual[r].status = "manual_required"
      /\ manual' = [manual EXCEPT ![r].status = "succeeded"]
  BY DEF ConfirmManualRefund, AwaitsMoney
<1>2. /\ manual'[r].order = manual[r].order /\ manual'[r].amount = manual[r].amount
      /\ manual'[r].status = "succeeded"
      /\ \A x \in Refunds : x # r => manual'[x] = manual[x]
  BY <1>1 DEF RowsOK, Row
<1>3. ASSUME NEW st
      PROVE  /\ ManualSum(manual, q, st) \in Nat /\ ManualSum(manual', q, st) \in Nat
             /\ ManualSum(manual', q, st) + Share(manual[r], q, st)
                  = ManualSum(manual, q, st) + Share(manual'[r], q, st)
  BY <1>2, ManualSumChanges, ManualSumIsNat DEF RowsOK
<1> DEFINE b == IF q = manual[r].order THEN manual[r].amount ELSE 0
<1>4. /\ Share(manual[r], q, "succeeded") = 0 /\ Share(manual'[r], q, "succeeded") = b
      /\ Share(manual[r], q, "manual_required") = b /\ Share(manual'[r], q, "manual_required") = 0
  BY <1>1, <1>2 DEF Share
<1>5. b \in Nat
  BY AmountsAreNat DEF RowsOK, Row
<1> QED
  BY <1>3, <1>4, <1>5 DEF Succeeded, Open

(* What was sent stays sent, only that is claimed, and money never comes     *)
(* back from the customer.                                                   *)
LEMMA EventsKept ==
  ASSUME OutsideOK, OutsideOK', EventsAreReal,
         \A q \in Orders : returned[q] <= returned'[q],
         \/ UNCHANGED <<sent, processed>>
         \/ \E e \in EventIds : Claim(e)
         \/ \E e \in EventIds, o \in Orders, a \in Amounts, kind \in Kinds :
              Sends(e, kind, o, a) /\ (kind = "refunded" => Price <= returned'[o])
  PROVE  EventsAreReal'
<1>0. \A q \in Orders : returned[q] \in Nat /\ returned'[q] \in Nat
  BY DEF OutsideOK
<1>1. Price \in Nat
  BY CommerceAssumption
<1>2. ASSUME NEW x \in EventIds, sent[x] # NoEvent, sent[x].kind = "refunded"
      PROVE  Price <= returned'[sent[x].order]
  <2>1. sent[x].order \in Orders /\ Price <= returned[sent[x].order]
    BY <1>2, SentIsEvent DEF EventsAreReal
  <2> QED
    BY <1>0, <1>1, <2>1
<1>3. CASE UNCHANGED <<sent, processed>>
  BY <1>2, <1>3 DEF EventsAreReal
<1>4. ASSUME NEW e \in EventIds, Claim(e)
      PROVE  EventsAreReal'
  BY <1>2, <1>4 DEF EventsAreReal, Claim, providerVars
<1>5. ASSUME NEW e \in EventIds, NEW o \in Orders, NEW a \in Amounts, NEW kind \in Kinds,
             Sends(e, kind, o, a), kind = "refunded" => Price <= returned'[o]
      PROVE  EventsAreReal'
  <2>1. /\ sent[e] = NoEvent /\ processed' = processed
        /\ sent'[e] = [kind |-> kind, order |-> o, amount |-> a]
        /\ \A x \in EventIds : x # e => sent'[x] = sent[x]
    BY <1>5 DEF Sends, OutsideOK
  <2>2. ASSUME NEW x \in processed PROVE sent'[x] # NoEvent
    BY <2>1 DEF EventsAreReal, OutsideOK
  <2>3. ASSUME NEW x \in EventIds, sent'[x] # NoEvent, sent'[x].kind = "refunded"
        PROVE  Price <= returned'[sent'[x].order]
    <3>1. CASE x = e
      BY <1>5, <2>1, <2>3, <3>1
    <3>2. CASE x # e
      BY <1>2, <2>1, <2>3, <3>2
    <3> QED
      BY <3>1, <3>2
  <2>4. \A y \in EventIds : sent'[y] # NoEvent /\ sent'[y].kind = "refunded" =>
          returned'[sent'[y].order] >= Price
    BY <2>3
  <2> QED
    BY <2>1, <2>2, <2>4 DEF EventsAreReal
<1> QED
  BY <1>3, <1>4, <1>5

(* A step that records no refund.                                            *)
LEMMA QuietKeeps ==
  ASSUME IInv, IInv', [Next]_vars, MoneyInv, EventsAreReal', RefundReportsStay,
         UNCHANGED <<refunded, held, manual>>,
         \A q \in Orders : /\ returned[q] <= returned'[q] /\ told[q] <= told'[q]
                           /\ Reported(q)' + told[q] <= Reported(q) + told'[q]
  PROVE  MoneyInv'
<1> SUFFICES ASSUME NEW q \in Orders PROVE LedgerBacked(q)' /\ HeldFits(q)'
  BY DEF MoneyInv
<1>1. RowsOK /\ OutsideOK /\ RowsOK' /\ OutsideOK'
  BY DEF IInv, TypeOK, RowsOK, OutsideOK
<1>2. LedgerBacked(q) /\ HeldFits(q)
  BY DEF MoneyInv
<1>3. Succeeded(q)' = Succeeded(q) /\ Open(q)' = Open(q)
  BY ManualStays
<1>4. refunded'[q] = refunded[q] /\ held'[q] = held[q] /\ refunded[q] <= Price
  BY <1>2 DEF HeldFits
<1>5. LedgerBacked(q)'
  <2>1. refunded[q] \in Nat /\ Succeeded(q) \in Nat /\ Reported(q) \in Nat /\ told[q] \in Nat
        /\ Reported(q)' \in Nat /\ told'[q] \in Nat
    BY <1>1, MoneyTypes, MoneyTypesAfter
  <2>2. refunded'[q] + Reported(q)' + told[q] + Succeeded(q)
              <= refunded[q] + Reported(q) + told'[q] + Succeeded(q)'
    BY <1>3, <1>4, <2>1
  <2> QED
    BY <1>1, <1>2, <1>3, <1>4, <2>1, <2>2, LedgerStep
<1>6. HeldFits(q)'
  <2>1. held'[q] = Open(q)' /\ (ReportedRefund(q) => ReportedRefund(q)')
    BY <1>2, <1>3, <1>4 DEF HeldFits, RefundReportsStay
  <2> QED
    BY <1>2, <1>4, <2>1, HeldStep
<1> QED
  BY <1>5, <1>6

(* A step that records a refund of a for order o.                            *)
Backs(o, a) ==
  /\ held'[o] = Open(o)'
  /\ returned[o] <= returned'[o] /\ told[o] <= told'[o] /\ Succeeded(o) <= Succeeded(o)'
  /\ \/ a + Reported(o)' + told[o] + Succeeded(o) <= Reported(o) + told'[o] + Succeeded(o)'
     \/ refunded'[o] = Price /\ Price <= returned'[o] + Succeeded(o)'
  /\ payment[o] \in Early => held'[o] = held[o]
  /\ payment'[o] = "succeeded" => held'[o] + refunded'[o] <= Price \/ ReportedRefund(o)'

LeavesAlone(q) ==
  /\ held'[q] = held[q] /\ returned'[q] = returned[q] /\ told'[q] = told[q]
  /\ Succeeded(q)' = Succeeded(q) /\ Open(q)' = Open(q) /\ Reported(q)' <= Reported(q)

LEMMA RefundKeeps ==
  ASSUME IInv, IInv', [Next]_vars, MoneyInv, EventsAreReal', RefundReportsStay,
         NEW o \in Orders, NEW a \in Amounts,
         RecordRefund(o, a), RefundedAfter(o, a) <= Price, Backs(o, a),
         \A q \in Orders : q # o => LeavesAlone(q)
  PROVE  MoneyInv'
<1> SUFFICES ASSUME NEW q \in Orders PROVE LedgerBacked(q)' /\ HeldFits(q)'
  BY DEF MoneyInv
<1>1. RowsOK /\ OutsideOK /\ RowsOK' /\ OutsideOK'
  BY DEF IInv, TypeOK, RowsOK, OutsideOK
<1>2. LedgerBacked(q) /\ HeldFits(q)
  BY DEF MoneyInv
<1>3. /\ refunded[q] \in Nat /\ Succeeded(q) \in Nat /\ Reported(q) \in Nat
      /\ returned[q] \in Nat /\ told[q] \in Nat
      /\ refunded'[q] \in Nat /\ Succeeded(q)' \in Nat /\ Reported(q)' \in Nat
      /\ returned'[q] \in Nat /\ told'[q] \in Nat
  BY <1>1, MoneyTypes, MoneyTypesAfter
<1>4. a \in Nat /\ Price \in Nat
  BY AmountsAreNat
<1>5. CASE q = o
  <2>1. refunded'[q] = refunded[q] + a /\ refunded'[q] <= Price /\ refunded[q] <= refunded'[q]
    BY <1>1, <1>3, <1>4, <1>5 DEF RecordRefund, RefundedAfter, RowsOK
  <2>2. \/ refunded'[q] + Reported(q)' + told[q] + Succeeded(q)
              <= refunded[q] + Reported(q) + told'[q] + Succeeded(q)'
        \/ refunded'[q] = Price /\ Price <= returned'[q] + Succeeded(q)'
    BY <1>3, <1>4, <1>5, <2>1 DEF Backs
  <2>3. LedgerBacked(q)'
    BY <1>1, <1>2, <1>5, <2>1, <2>2, LedgerStep DEF Backs
  <2>4. HeldFits(q)'
    BY <1>2, <1>5, <2>1, HeldStep DEF Backs
  <2> QED
    BY <2>3, <2>4
<1>6. CASE q # o
  <2>1. refunded'[q] = refunded[q] /\ refunded[q] <= Price /\ LeavesAlone(q)
    BY <1>1, <1>2, <1>6 DEF RecordRefund, RowsOK, HeldFits
  <2>2. LedgerBacked(q)'
    BY <1>1, <1>2, <1>3, <2>1, LedgerStep DEF LeavesAlone
  <2>3. held'[q] = Open(q)' /\ held'[q] = held[q] /\ (ReportedRefund(q) => ReportedRefund(q)')
    BY <1>2, <2>1 DEF LeavesAlone, HeldFits, RefundReportsStay
  <2>4. HeldFits(q)'
    BY <1>2, <2>1, <2>3, HeldStep
  <2> QED
    BY <2>2, <2>4
<1> QED
  BY <1>5, <1>6

LEMMA ManualRequestKeeps ==
  ASSUME IInv, IInv', [Next]_vars, MoneyInv,
         NEW o \in Orders, NEW a \in Amounts, NEW r \in Refunds, RequestManualRefund(o, a, r)
  PROVE  MoneyInv'
<1>1. RowsOK /\ OutsideOK /\ RowsOK' /\ OutsideOK'
  BY DEF IInv, TypeOK, RowsOK, OutsideOK
<1>2. /\ UNCHANGED <<payment, refunded, processed, sent, returned, told>>
      /\ held' = [held EXCEPT ![o] = @ + a] /\ MayRequestRefund(o, a)
  BY DEF RequestManualRefund, providerVars
<1>3. EventsAreReal'
  BY <1>2 DEF EventsAreReal, MoneyInv
<1>4. ASSUME NEW q \in Orders PROVE LedgerBacked(q)' /\ HeldFits(q)'
  <2>1. LedgerBacked(q) /\ HeldFits(q)
    BY DEF MoneyInv
  <2>2. Succeeded(q)' = Succeeded(q) /\ Open(q)' = Open(q) + IF q = o THEN a ELSE 0
    BY <1>1, ManualOpens
  <2>3. Reported(q)' = Reported(q) /\ (ReportedRefund(q) => ReportedRefund(q)')
    BY <1>2, ReportsStay DEF RefundReportsStay
  <2>4. LedgerBacked(q)'
    BY <1>2, <2>1, <2>2, <2>3 DEF LedgerBacked
  <2>5. a \in Nat /\ Price \in Nat /\ held[q] \in Int /\ refunded[q] \in Nat
    BY <1>1, AmountsAreNat DEF RowsOK
  <2>6. held'[q] = held[q] + IF q = o THEN a ELSE 0
    BY <1>1, <1>2, <2>5 DEF RowsOK
  <2>7. held'[q] = Open(q)' /\ refunded'[q] = refunded[q] /\ refunded[q] <= Price
    BY <1>2, <2>1, <2>2, <2>6 DEF HeldFits
  <2>8. CASE q = o
    <3>1. payment[q] = "succeeded" /\ held'[q] + refunded'[q] <= Price
      BY <1>2, <2>5, <2>6, <2>7, <2>8 DEF MayRequestRefund
    <3>2. payment[q] \notin Early
      BY <3>1 DEF Early
    <3> QED
      BY <2>1, <2>4, <2>7, <3>1, <3>2, HeldStep
  <2>9. CASE q # o
    <3>1. held'[q] = held[q]
      BY <2>5, <2>6, <2>9
    <3> QED
      BY <2>1, <2>3, <2>4, <2>7, <3>1, HeldStep
  <2> QED
    BY <2>8, <2>9
<1> QED
  BY <1>3, <1>4 DEF MoneyInv

(* The provider is asked for a, whatever becomes of the rows.                *)
LEMMA Asked ==
  ASSUME OutsideOK, OutsideOK', EventsAreReal, NEW o \in Orders, NEW a \in Amounts,
           AskProvider(o, a)
  PROVE  /\ EventsAreReal' /\ RefundReportsStay
         /\ \A q \in Orders : /\ Reported(q)' = Reported(q)
                              /\ returned'[q] = returned[q] + IF q = o THEN a ELSE 0
<1>1. UNCHANGED <<sent, processed>> /\ returned' = [returned EXCEPT ![o] = @ + a]
  BY DEF AskProvider
<1>2. a \in Nat /\ \A q \in Orders : returned[q] \in Nat
  BY AmountsAreNat DEF OutsideOK
<1>3. \A q \in Orders : returned'[q] = returned[q] + IF q = o THEN a ELSE 0
  BY <1>1, <1>2 DEF OutsideOK
<1>4. \A q \in Orders : returned[q] <= returned'[q]
  BY <1>2, <1>3
<1>5. EventsAreReal'
  BY <1>1, <1>4, EventsKept
<1> QED
  BY <1>1, <1>3, <1>5, ReportsStay, CommerceAssumption

LEMMA CallKeeps ==
  ASSUME IInv, IInv', [Next]_vars, MoneyInv, NEW o \in Orders, Call(o)
  PROVE  MoneyInv'
<1>1. RowsOK /\ OutsideOK /\ RowsOK' /\ OutsideOK' /\ EventsAreReal
  BY DEF IInv, TypeOK, RowsOK, OutsideOK, MoneyInv
<1>2. ASSUME UNCHANGED <<refunded, held, manual, processed, sent, returned, told>>
      PROVE  MoneyInv'
  <2>1. EventsAreReal' /\ RefundReportsStay
    BY <1>1, <1>2, ReportsStay DEF EventsAreReal, RefundReportsStay, ReportedRefund
  <2>2. ASSUME NEW q \in Orders
        PROVE  /\ returned[q] <= returned'[q] /\ told[q] <= told'[q]
               /\ Reported(q)' + told[q] <= Reported(q) + told'[q]
    BY <1>1, <1>2, ReportsStay, MoneyTypes
  <2> QED
    BY <1>2, <2>1, <2>2, QuietKeeps
<1>3. CASE CreateOrder(o) \/ MarkPaymentPending(o) \/ CancelOrder(o) \/ ConfirmPayment(o)
             \/ FailPayment(o)
  BY <1>2, <1>3 DEF CreateOrder, MarkPaymentPending, CancelOrder, ConfirmPayment, FailPayment,
                    Confirm, Fail, providerVars
<1>4. ASSUME NEW a \in Amounts, RequestRefund(o, a)
      PROVE  MoneyInv'
  <2>1. /\ AskProvider(o, a) /\ RecordRefund(o, a) /\ UNCHANGED <<held, manual>>
        /\ told' = [told EXCEPT ![o] = @ + a]
    BY <1>4 DEF RequestRefund
  <2>2. /\ EventsAreReal' /\ RefundReportsStay
        /\ \A q \in Orders : /\ Reported(q)' = Reported(q)
                             /\ returned'[q] = returned[q] + IF q = o THEN a ELSE 0
    BY <1>1, <2>1, Asked
  <2>3. \A q \in Orders : /\ Succeeded(q)' = Succeeded(q) /\ Open(q)' = Open(q)
          /\ held'[q] = held[q]
                          /\ held[q] = Open(q) /\ Open(q) \in Nat /\ Succeeded(q) \in Nat
                          /\ Reported(q) \in Nat /\ returned[q] \in Nat /\ refunded[q] \in Nat
                          /\ told[q] \in Nat
    BY <1>1, <2>1, ManualStays, MoneyTypes DEF MoneyInv, HeldFits
  <2>4. a \in Nat /\ Price \in Nat
    BY AmountsAreNat
  <2>8. \A q \in Orders : told'[q] = told[q] + IF q = o THEN a ELSE 0
    BY <1>1, <2>1, <2>3, <2>4 DEF OutsideOK
  <2>5. RefundedAfter(o, a) <= Price /\ held'[o] + refunded'[o] <= Price
    <3>1. refunded[o] + held[o] + a <= Price
      BY <2>1 DEF AskProvider, MayRequestRefund
    <3>2. refunded'[o] = refunded[o] + a
      BY <1>1, <2>1 DEF RecordRefund, RefundedAfter, RowsOK
    <3> QED
      BY <2>3, <2>4, <3>1, <3>2 DEF RefundedAfter
  <2>6. Backs(o, a)
    BY <2>2, <2>3, <2>4, <2>5, <2>8 DEF Backs
  <2>7. \A q \in Orders : q # o => LeavesAlone(q)
    BY <2>2, <2>3, <2>8 DEF LeavesAlone
  <2> QED
    BY <2>1, <2>2, <2>5, <2>6, <2>7, RefundKeeps
<1>5. ASSUME NEW a \in Amounts, RequestRefundUnrecorded(o, a)
      PROVE  MoneyInv'
  <2>1. AskProvider(o, a) /\ UNCHANGED <<refunded, held, manual, told>>
    BY <1>5 DEF RequestRefundUnrecorded, commerceVars
  <2>2. /\ EventsAreReal' /\ RefundReportsStay
        /\ \A q \in Orders : /\ Reported(q)' = Reported(q)
                             /\ returned'[q] = returned[q] + IF q = o THEN a ELSE 0
    BY <1>1, <2>1, Asked
  <2>3. ASSUME NEW q \in Orders
        PROVE  /\ returned[q] <= returned'[q] /\ told[q] <= told'[q]
               /\ Reported(q)' + told[q] <= Reported(q) + told'[q]
    BY <1>1, <2>1, <2>2, MoneyTypes, AmountsAreNat
  <2> QED
    BY <2>1, <2>2, <2>3, QuietKeeps
<1> QED
  BY <1>3, <1>4, <1>5, ManualRequestKeeps DEF Call

LEMMA ManualKeeps ==
  ASSUME IInv, IInv', [Next]_vars, MoneyInv, NEW r \in Refunds, ConfirmManualRefund(r)
  PROVE  MoneyInv'
<1>1. RowsOK /\ OutsideOK /\ RowsOK' /\ OutsideOK' /\ EventsAreReal
  BY DEF IInv, TypeOK, RowsOK, OutsideOK, MoneyInv
<1>2. PICK o \in Orders, a \in Amounts : o = manual[r].order /\ a = manual[r].amount
  BY <1>1 DEF RowsOK, Row
<1>9. a \in Nat /\ Price \in Nat
  BY AmountsAreNat
<1>3. /\ RecordRefund(o, a) /\ RefundedAfter(o, a) <= Price
      /\ held' = [held EXCEPT ![o] = @ - a]
      /\ UNCHANGED <<processed, sent, returned, told>>
  BY <1>2 DEF ConfirmManualRefund
<1>4. EventsAreReal' /\ RefundReportsStay
  BY <1>1, <1>3 DEF EventsAreReal, RefundReportsStay, ReportedRefund
<1>5. ASSUME NEW q \in Orders
      PROVE  /\ Succeeded(q)' = Succeeded(q) + IF q = o THEN a ELSE 0
             /\ Open(q)' + (IF q = o THEN a ELSE 0) = Open(q)
             /\ held'[q] = held[q] - IF q = o THEN a ELSE 0
             /\ Reported(q)' = Reported(q)
             /\ returned'[q] = returned[q] /\ told'[q] = told[q] /\ told[q] \in Nat
             /\ held[q] = Open(q) /\ Open(q) \in Nat /\ Succeeded(q) \in Nat /\ Open(q)' \in Nat
             /\ Reported(q) \in Nat /\ returned[q] \in Nat /\ refunded[q] \in Nat /\ held[q] \in Int
  <2>1. /\ Succeeded(q)' = Succeeded(q) + IF q = o THEN a ELSE 0
        /\ Open(q)' + (IF q = o THEN a ELSE 0) = Open(q)
    BY <1>1, <1>2, ManualCloses
  <2>2. held[q] = Open(q) /\ held[q] \in Int
    BY <1>1 DEF RowsOK, MoneyInv, HeldFits
  <2>3. held'[q] = held[q] - IF q = o THEN a ELSE 0
    BY <1>1, <1>9, <1>3, <2>2 DEF RowsOK
  <2>4. Reported(q)' = Reported(q) /\ returned'[q] = returned[q] /\ told'[q] = told[q]
    BY <1>3, ReportsStay
  <2> QED
    BY <1>1, <2>1, <2>2, <2>3, <2>4, MoneyTypes, MoneyTypesAfter
<1>6. refunded'[o] = refunded[o] + a
  BY <1>1, <1>9, <1>3 DEF RecordRefund, RefundedAfter, RowsOK
<1>7. Backs(o, a)
  <2>1. held'[o] = Open(o)' /\ held'[o] + refunded'[o] = held[o] + refunded[o]
    BY <1>9, <1>5, <1>6
  <2>2. payment[o] \in Early => held[o] = 0 /\ held'[o] = 0
    BY <1>9, <1>5, <2>1 DEF MoneyInv, HeldFits
  <2>3. ASSUME payment'[o] = "succeeded"
        PROVE  held'[o] + refunded'[o] <= Price \/ ReportedRefund(o)'
    <3>1. CASE payment[o] = "succeeded"
      <4>1. ReportedRefund(o) \/ refunded[o] + held[o] <= Price
        BY <1>2, <3>1 DEF MoneyInv, HeldFits
      <4> QED
        BY <1>9, <1>4, <1>5, <2>1, <4>1 DEF RefundReportsStay
    <3>2. CASE payment[o] \in Early /\ refunded'[o] = 0
      BY <1>9, <2>2, <3>2
    <3> QED
      BY <1>2, <2>3, <3>1, <3>2, PaymentsMove
  <2>4. /\ returned[o] <= returned'[o] /\ told[o] <= told'[o] /\ Succeeded(o) <= Succeeded(o)'
        /\ a + Reported(o)' + told[o] + Succeeded(o)
             <= Reported(o) + told'[o] + Succeeded(o)'
    BY <1>9, <1>5
  <2> QED
    BY <2>1, <2>2, <2>3, <2>4 DEF Backs
<1>8. \A q \in Orders : q # o => LeavesAlone(q)
  BY <1>5 DEF LeavesAlone
<1> QED
  BY <1>2, <1>3, <1>4, <1>7, <1>8, RefundKeeps

LEMMA WebhookKeeps ==
  ASSUME IInv, IInv', [Next]_vars, MoneyInv, NEW e \in EventIds, Webhook(e)
  PROVE  MoneyInv'
<1>1. RowsOK /\ OutsideOK /\ RowsOK' /\ OutsideOK' /\ EventsAreReal
  BY DEF IInv, TypeOK, RowsOK, OutsideOK, MoneyInv
<1>2. Claim(e)
  BY DEF Webhook, WebhookIgnored, WebhookSucceeded, WebhookFailed, WebhookRefunded,
         WebhookVoided, Applies
<1>3. sent[e] # NoEvent /\ e \notin processed /\ processed' = processed \cup {e}
      /\ UNCHANGED <<sent, returned, told>>
  BY <1>2 DEF Claim, providerVars
<1>4. PICK o \in Orders : o = sent[e].order /\ sent[e].amount \in Amounts
  BY <1>1, <1>3, SentIsEvent
<1>5. ASSUME NEW q \in Orders
      PROVE  /\ Reported(q)' + ReportShare(sent, processed, e, q) = Reported(q)
             /\ ReportShare(sent, processed, e, q) \in Nat
             /\ Reported(q) \in Nat /\ Reported(q)' \in Nat /\ returned[q] \in Nat
             /\ refunded[q] \in Nat /\ Succeeded(q) \in Nat /\ told[q] \in Nat
             /\ returned'[q] = returned[q] /\ told'[q] = told[q]
  BY <1>1, <1>2, <1>3, <1>4, ClaimedReports, MoneyTypes, MoneyTypesAfter,
       AmountsAreNat DEF ReportShare
<1>6. EventsAreReal' /\ RefundReportsStay
  <2>1. \A q \in Orders : returned[q] <= returned'[q]
    BY <1>5
  <2> QED
    BY <1>1, <1>2, <1>4, <2>1, EventsKept, ClaimedReports
<1>7. ASSUME UNCHANGED <<refunded, held, manual>>
      PROVE  MoneyInv'
  <2>1. \A q \in Orders : /\ returned[q] <= returned'[q] /\ told[q] <= told'[q]
                          /\ Reported(q)' + told[q] <= Reported(q) + told'[q]
    BY <1>5
  <2> QED
    BY <1>6, <1>7, <2>1, QuietKeeps
<1>8. ASSUME WebhookRefunded(e)
      PROVE  MoneyInv'
  <2>1. PICK kind \in {"refunded", "partially_refunded"} :
          LET a == IF kind = "refunded" THEN Price ELSE sent[e].amount
          IN  /\ Applies(e, kind) /\ RefundedAfter(o, a) <= Price
              /\ IF AlreadySettled(o, a) THEN UNCHANGED commerceVars
                 ELSE RecordRefund(o, a) /\ UNCHANGED <<held, manual, refIdUsed>>
    BY <1>4, <1>8 DEF WebhookRefunded
  <2> DEFINE a == IF kind = "refunded" THEN Price ELSE sent[e].amount
  <2>2. a \in Amounts /\ a \in Nat /\ Price \in Nat
    BY <1>4, AmountsAreNat
  <2>3. CASE UNCHANGED commerceVars
    BY <1>7, <2>3 DEF commerceVars
  <2>4. CASE RecordRefund(o, a) /\ UNCHANGED <<held, manual>>
    <3>1. refunded'[o] = refunded[o] + a /\ refunded[o] + a <= Price
      BY <1>1, <1>4, <2>1, <2>4 DEF RecordRefund, RefundedAfter, RowsOK
    <3>2. ASSUME NEW q \in Orders
          PROVE  Succeeded(q)' = Succeeded(q) /\ Open(q)' = Open(q) /\ held'[q] = held[q]
                   /\ held[q] = Open(q)
      BY <2>4, ManualStays DEF MoneyInv, HeldFits
    <3>3. sent[e].kind = kind
      BY <2>1 DEF Applies
    <3>4. ReportedRefund(o)'
      BY <1>3, <1>4, <3>3 DEF ReportedRefund
    <3>5. \/ a + Reported(o)' + told[o] + Succeeded(o)
               <= Reported(o) + told'[o] + Succeeded(o)'
          \/ refunded'[o] = Price /\ Price <= returned'[o] + Succeeded(o)'
      <4>1. CASE kind = "refunded"
        <5>1. a = Price /\ refunded'[o] = Price
          BY <1>4, <1>5, <2>2, <3>1, <4>1
        <5>2. Price <= returned[o]
          BY <1>1, <1>3, <1>4, <3>3, <4>1 DEF EventsAreReal
        <5> QED
          BY <1>4, <1>5, <2>2, <3>2, <5>1, <5>2
      <4>2. CASE kind = "partially_refunded"
        <5>1. ReportShare(sent, processed, e, o) = a
          BY <1>3, <1>4, <3>3, <4>2 DEF ReportShare, Reports
        <5> QED
          BY <1>4, <1>5, <2>2, <3>2, <5>1
      <4> QED
        BY <2>1, <4>1, <4>2
    <3>6. Backs(o, a)
      BY <1>4, <1>5, <3>2, <3>4, <3>5 DEF Backs
    <3>7. \A q \in Orders : q # o => LeavesAlone(q)
      BY <1>5, <3>2 DEF LeavesAlone
    <3>8. RefundedAfter(o, a) <= Price
      BY <2>1
    <3> QED
      BY <1>4, <1>6, <2>2, <2>4, <3>6, <3>7, <3>8, RefundKeeps
  <2> QED
    BY <2>1, <2>3, <2>4
<1>9. CASE WebhookIgnored(e) \/ WebhookSucceeded(e) \/ WebhookFailed(e) \/ WebhookVoided(e)
  <2>1. UNCHANGED <<refunded, held, manual>>
    BY <1>9 DEF WebhookIgnored, WebhookSucceeded, WebhookFailed, WebhookVoided, Confirm, Fail, Void,
                commerceVars
  <2> QED
    BY <1>7, <2>1
<1> QED
  BY <1>8, <1>9 DEF Webhook

LEMMA ProviderKeeps ==
  ASSUME IInv, IInv', [Next]_vars, MoneyInv, NEW e \in EventIds, NEW o \in Orders, Provider(e, o)
  PROVE  MoneyInv'
<1>1. RowsOK /\ OutsideOK /\ RowsOK' /\ OutsideOK' /\ EventsAreReal
  BY DEF IInv, TypeOK, RowsOK, OutsideOK, MoneyInv
<1>2. PICK a \in Amounts, kind \in Kinds :
        /\ Sends(e, kind, o, a)
        /\ \/ UNCHANGED <<returned, told>> /\ kind \notin {"refunded", "partially_refunded"}
           \/ /\ \/ returned' = [returned EXCEPT ![o] = @ + a]
                 \/ returned' = returned
              /\ told' = [told EXCEPT ![o] = @ + a]
              /\ kind = "refunded" => Price <= returned'[o]
  <2>1. ASSUME NEW a \in Amounts, ProviderReturns(e, o, a)
        PROVE  \E k \in Kinds : /\ Sends(e, k, o, a)
                                /\ returned' = [returned EXCEPT ![o] = @ + a]
                                /\ told' = [told EXCEPT ![o] = @ + a]
                                /\ k = "refunded" => Price <= returned'[o]
    <3>1. returned' = [returned EXCEPT ![o] = @ + a] /\ told' = [told EXCEPT ![o] = @ + a]
      BY <2>1 DEF ProviderReturns
    <3>2. PICK k \in {"partially_refunded", "refunded"} :
            Sends(e, k, o, a) /\ (k = "refunded" => returned[o] + a = Price)
      BY <2>1 DEF ProviderReturns
    <3>3. k = "refunded" => Price <= returned'[o]
      BY <1>1, <3>1, <3>2, AmountsAreNat DEF OutsideOK
    <3> QED
      BY <3>1, <3>2, <3>3 DEF Kinds
  <2>2. 0 \in Amounts /\ Price \in Amounts
    BY AmountsAreNat DEF Amounts
  <2>3. CASE ProviderDeclines(e, o) \/ ProviderReverses(e, o) \/ ProviderSendsOther(e, o)
    BY <2>2, <2>3 DEF ProviderDeclines, ProviderReverses, ProviderSendsOther, Kinds
  <2>4. ASSUME NEW a \in Amounts, ProviderCaptures(e, o, a)
        PROVE  Sends(e, "succeeded", o, a) /\ UNCHANGED <<returned, told>>
    BY <2>4 DEF ProviderCaptures
  <2>5. ASSUME NEW a \in Amounts, ProviderReports(e, o, a)
        PROVE  \E k \in Kinds : /\ Sends(e, k, o, a) /\ returned' = returned
                                /\ told' = [told EXCEPT ![o] = @ + a]
                                /\ k = "refunded" => Price <= returned'[o]
    <3>1. returned' = returned /\ told' = [told EXCEPT ![o] = @ + a]
      BY <2>5 DEF ProviderReports
    <3>2. PICK k \in {"partially_refunded", "refunded"} :
            Sends(e, k, o, a) /\ (k = "refunded" => returned[o] >= Price)
      BY <2>5 DEF ProviderReports
    <3> QED
      BY <1>1, <3>1, <3>2, AmountsAreNat DEF OutsideOK, Kinds
  <2> QED
    BY <2>1, <2>3, <2>4, <2>5 DEF Provider, Kinds
<1>3. UNCHANGED <<refunded, held, manual>>
  BY <1>2 DEF Sends, commerceVars
<1>4. a \in Nat /\ Price \in Nat
  BY AmountsAreNat
<1>5. ASSUME NEW q \in Orders
      PROVE  /\ returned[q] <= returned'[q] /\ told[q] <= told'[q]
             /\ Reported(q)' + told[q] <= Reported(q) + told'[q]
  <2>0. Sends(e, kind, o, a)
    BY <1>2
  <2>1. Reported(q)' = Reported(q) + IF q = o /\ kind = "partially_refunded" THEN a ELSE 0
    BY <1>1, <2>0, SentReports
  <2>2. returned[q] \in Nat /\ told[q] \in Nat /\ Reported(q) \in Nat
    BY <1>1, MoneyTypes
  <2>3. CASE UNCHANGED <<returned, told>> /\ kind \notin {"refunded", "partially_refunded"}
    BY <2>1, <2>2, <2>3
  <2>4. CASE told' = [told EXCEPT ![o] = @ + a]
    <3>1. told'[q] = IF q = o THEN told[q] + a ELSE told[q]
      BY <1>1, <2>4 DEF OutsideOK
    <3>2. returned'[q] \in {returned[q], returned[q] + a}
      BY <1>1, <1>2 DEF OutsideOK
    <3> QED
      BY <1>4, <2>1, <2>2, <3>1, <3>2
  <2> QED
    BY <1>2, <2>3, <2>4
<1>6. RefundReportsStay
  BY <1>1, <1>2, SentReports
<1>7. EventsAreReal'
  <2>1. kind = "refunded" => Price <= returned'[o]
    BY <1>2
  <2> QED
    BY <1>1, <1>2, <1>5, <2>1, EventsKept
<1> QED
  BY <1>3, <1>5, <1>6, <1>7, QuietKeeps

LEMMA MoneyStep == IInv /\ IInv' /\ MoneyInv /\ [Next]_vars => MoneyInv'
<1> SUFFICES ASSUME IInv, IInv', MoneyInv, [Next]_vars PROVE MoneyInv'
  OBVIOUS
<1>1. CASE UNCHANGED vars
  BY <1>1 DEF vars, MoneyInv, EventsAreReal, LedgerBacked, HeldFits, Succeeded, Open, Reported,
              ReportedRefund
<1> QED
  BY <1>1, CallKeeps, ManualKeeps, WebhookKeeps, ProviderKeeps DEF Next

LEMMA MoneyInit == Init => MoneyInv
<1> SUFFICES ASSUME Init PROVE MoneyInv
  OBVIOUS
<1>1. EventsAreReal
  BY DEF Init, EventsAreReal
<1>2. ASSUME NEW q \in Orders PROVE LedgerBacked(q) /\ HeldFits(q)
  <2>1. /\ refunded[q] = 0 /\ returned[q] = 0 /\ told[q] = 0 /\ held[q] = 0
        /\ payment[q] = "none" /\ Price \in Nat
    BY CommerceAssumption DEF Init
  <2>2. ManualRows(manual, q, "succeeded") = {} /\ ManualRows(manual, q, "manual_required") = {}
    BY DEF Init, ManualRows
  <2>3. Succeeded(q) = 0 /\ Open(q) = 0
    BY <2>2, TotalOfNone DEF Succeeded, Open, ManualSum
  <2>4. {e \in EventIds : Reports(sent, processed, e, q)} = {}
    BY DEF Init, Reports
  <2>5. Reported(q) = 0
    BY <2>4, TotalOfNone DEF Reported, ReportSum
  <2> QED
    BY <2>1, <2>3, <2>5 DEF LedgerBacked, HeldFits
<1> QED
  BY <1>1, <1>2 DEF MoneyInv

LEMMA MoneyMeans == IInv /\ MoneyInv => RefundsAreBacked
<1> SUFFICES ASSUME IInv, MoneyInv, NEW q \in Orders
             PROVE  /\ \/ refunded[q] <= returned[q] + ManualTotal(q, "succeeded")
                       \/ refunded[q] <= told[q] + ManualTotal(q, "succeeded")
                    /\ refunded[q] <= Price
                    /\ payment[q] = "succeeded" /\ ~ReportedRefund(q) =>
                         refunded[q] + ManualTotal(q, "manual_required") <= Price
  BY DEF RefundsAreBacked, RecordedRefundsAreReal, ReservationsFit
<1>1. ManualTotal(q, "succeeded") = Succeeded(q) /\ ManualTotal(q, "manual_required") = Open(q)
  BY ManualTotals DEF Succeeded, Open
<1> QED
  BY <1>1 DEF MoneyInv, LedgerBacked, HeldFits

(* Whatever is refunded in the ledger was returned by the provider or by     *)
(* hand, however calls, webhooks, retries and crashes interleave, unless the *)
(* provider reported a refund twice, and then it is what was reported; what  *)
(* finance was asked to return by hand still fits in the payment.            *)
THEOREM RefundsAreBackedByMoney == Spec => []RefundsAreBacked
<1> QED
  BY Invariance, MoneyInit, MoneyStep, MoneyMeans, PTL DEF Spec

-----------------------------------------------------------------------------
(* Refinement: each of the five effects is a step of the contract.           *)

(* Contract!Moves, from what happens to the phase and the announcements of   *)
(* each order.                                                               *)
LEMMA ContractMoves ==
  ASSUME NEW o \in Orders, NEW from, NEW to, NEW fact,
         Phase(o) \in from, Phase(o)' = to, Announced(o)' = Announced(o) \cup fact,
         \A q \in Orders \ {o} : Phase(q)' = Phase(q) /\ Announced(q)' = Announced(q)
  PROVE  Contract!Moves(o, from, to, fact)
BY DEF Contract!Moves

(* What the contract sees of order o once its status is s and its outbox x.  *)
PhaseOf(s) ==
  CASE s \in {"paid", "partially_refunded"} -> "paid"
    [] s \in {"refunded", "voided"}         -> s
    [] s = "cancelled"                      -> "closed"
    [] OTHER                                -> "unpaid"

AnnouncedBy(x) ==
  {y \in {"paid", "voided", "full", "partial"} :
     \/ y = "paid" /\ x.paid
     \/ y = "voided" /\ x.voided
     \/ y = "full" /\ x.full > 0
     \/ y = "partial" /\ x.partial > 0}

LEMMA SeenOf ==
  ASSUME NEW o \in Orders
  PROVE  Phase(o) = PhaseOf(order[o]) /\ Announced(o) = AnnouncedBy(outbox[o])
BY DEF Phase, PhaseOf, Announced, AnnouncedBy

LEMMA SeenAfter ==
  ASSUME NEW o \in Orders
  PROVE  Phase(o)' = PhaseOf(order'[o]) /\ Announced(o)' = AnnouncedBy(outbox'[o])
BY DEF Phase, PhaseOf, Announced, AnnouncedBy

LEMMA PhaseValues ==
  /\ \A s \in Unpaid : PhaseOf(s) = "unpaid"
  /\ PhaseOf("cancelled") = "closed"
  /\ PhaseOf("paid") = "paid" /\ PhaseOf("partially_refunded") = "paid"
  /\ PhaseOf("refunded") = "refunded" /\ PhaseOf("voided") = "voided"
BY DEF PhaseOf, Unpaid

LEMMA AnnouncedAfter ==
  ASSUME NEW x \in OutboxOf
  PROVE  /\ AnnouncedBy([x EXCEPT !.paid = TRUE]) = AnnouncedBy(x) \cup {"paid"}
         /\ AnnouncedBy([x EXCEPT !.voided = TRUE]) = AnnouncedBy(x) \cup {"voided"}
         /\ AnnouncedBy([x EXCEPT !.full = @ + 1]) = AnnouncedBy(x) \cup {"full"}
         /\ AnnouncedBy([x EXCEPT !.partial = @ + 1]) = AnnouncedBy(x) \cup {"partial"}
BY DEF AnnouncedBy, OutboxOf

LEMMA EffectIsMove ==
  ASSUME IInv, NEW o \in Orders, NEW s, NEW p, NEW r, NEW x, Effect(o, s, p, r, x)
  PROVE  Contract!Next \/ UNCHANGED Contract!vars
<1>1. order'[o] = s /\ outbox'[o] = x /\ outbox[o] \in OutboxOf
  BY DEF IInv, TypeOK, Effect, Becomes
<1>2. \A q \in Orders \ {o} : Phase(q)' = Phase(q) /\ Announced(q)' = Announced(q)
  <2>1. \A q \in Orders \ {o} : order'[q] = order[q] /\ outbox'[q] = outbox[q]
    BY DEF IInv, TypeOK, Effect, Becomes
  <2> QED
    BY <2>1, SeenOf, SeenAfter
<1>3. /\ Phase(o) = PhaseOf(order[o]) /\ Phase(o)' = PhaseOf(s)
      /\ Announced(o) = AnnouncedBy(outbox[o]) /\ Announced(o)' = AnnouncedBy(x)
  BY <1>1, SeenOf, SeenAfter
<1>4. CASE order[o] \in Unpaid /\ s \in Unpaid /\ x = outbox[o]
  <2>1. \A q \in Orders : Phase(q)' = Phase(q) /\ Announced(q)' = Announced(q)
    BY <1>2, <1>3, <1>4, PhaseValues
  <2> QED
    BY <2>1 DEF Contract!vars
<1>5. CASE order[o] \in Unpaid /\ s = "cancelled" /\ x = outbox[o]
  <2>1. Phase(o) = "unpaid" /\ Phase(o)' = "closed" /\ Announced(o)' = Announced(o) \cup {}
    BY <1>3, <1>5, PhaseValues
  <2>2. Contract!Moves(o, {"unpaid"}, "closed", {})
    BY <1>2, <2>1, ContractMoves
  <2> QED
    BY <2>2 DEF Contract!Next, Contract!Close
<1>6. CASE order[o] \in Unpaid /\ s = "paid" /\ x = [outbox[o] EXCEPT !.paid = TRUE]
  <2>1. Phase(o) = "unpaid" /\ Phase(o)' = "paid"
        /\ Announced(o)' = Announced(o) \cup {"paid"}
    BY <1>1, <1>3, <1>6, PhaseValues, AnnouncedAfter
  <2>2. Contract!Moves(o, {"unpaid"}, "paid", {"paid"})
    BY <1>2, <2>1, ContractMoves
  <2> QED
    BY <2>2 DEF Contract!Next, Contract!Pay
<1>7. CASE /\ order[o] \in {"paid", "partially_refunded"} /\ s = "partially_refunded"
           /\ x = [outbox[o] EXCEPT !.partial = @ + 1]
  <2>1. Phase(o) = "paid" /\ Phase(o)' = "paid"
        /\ Announced(o)' = Announced(o) \cup {"partial"}
    BY <1>1, <1>3, <1>7, PhaseValues, AnnouncedAfter
  <2>2. Contract!Moves(o, {"paid"}, "paid", {"partial"})
    BY <1>2, <2>1, ContractMoves
  <2> QED
    BY <2>2 DEF Contract!Next, Contract!RefundPart
<1>8. CASE /\ order[o] \in {"paid", "partially_refunded"} /\ s = "refunded"
           /\ x = [outbox[o] EXCEPT !.full = @ + 1]
  <2>1. Phase(o) = "paid" /\ Phase(o)' = "refunded"
        /\ Announced(o)' = Announced(o) \cup {"full"}
    BY <1>1, <1>3, <1>8, PhaseValues, AnnouncedAfter
  <2>2. Contract!Moves(o, {"paid"}, "refunded", {"full"})
    BY <1>2, <2>1, ContractMoves
  <2> QED
    BY <2>2 DEF Contract!Next, Contract!RefundAll
<1>9. CASE /\ order[o] = "refunded" /\ s = "refunded"
           /\ x = [outbox[o] EXCEPT !.full = @ + 1]
  <2>1. "full" \in Announced(o)
    BY <1>9 DEF IInv, Sound, Consistent, Announced
  <2>2. Announced(o)' = Announced(o) \cup {"full"}
    BY <1>1, <1>3, <1>9, AnnouncedAfter
  <2>3. Phase(o)' = Phase(o) /\ Announced(o)' = Announced(o)
    BY <1>3, <1>9, <2>1, <2>2
  <2>4. \A q \in Orders : Phase(q)' = Phase(q) /\ Announced(q)' = Announced(q)
    BY <1>2, <2>3
  <2> QED
    BY <2>4 DEF Contract!vars
<1>10. CASE /\ order[o] \in Unpaid \cup {"paid"} /\ s = "voided"
            /\ x = [outbox[o] EXCEPT !.voided = TRUE]
  <2>1. Phase(o) \in {"unpaid", "paid"} /\ Phase(o)' = "voided"
        /\ Announced(o)' = Announced(o) \cup {"voided"}
    BY <1>1, <1>3, <1>10, PhaseValues, AnnouncedAfter
  <2>2. Contract!Moves(o, {"unpaid", "paid"}, "voided", {"voided"})
    BY <1>2, <2>1, ContractMoves
  <2> QED
    BY <2>2 DEF Contract!Next, Contract!Void
<1> QED
  BY <1>4, <1>5, <1>6, <1>7, <1>8, <1>9, <1>10 DEF Effect

LEMMA ContractInit == Init => Contract!Init
<1> SUFFICES ASSUME Init PROVE Contract!Init
  OBVIOUS
<1>1. \A o \in Orders : order[o] = "none" /\ outbox[o].paid = FALSE
        /\ outbox[o].voided = FALSE /\ outbox[o].full = 0 /\ outbox[o].partial = 0
  BY DEF Init
<1>2. \A o \in Orders : Phase(o) = "unpaid" /\ Announced(o) = {}
  BY <1>1 DEF Phase, Announced
<1> QED
  BY <1>2 DEF Contract!Init

LEMMA ContractStep == IInv /\ [Next]_vars => [Contract!Next]_(Contract!vars)
<1> SUFFICES ASSUME IInv, Untouched \/ Moved
             PROVE  Contract!Next \/ UNCHANGED Contract!vars
  BY StepEffect
<1>1. CASE Untouched
  <2>1. \A o \in Orders : Phase(o)' = Phase(o) /\ Announced(o)' = Announced(o)
    BY <1>1, SeenOf, SeenAfter DEF Untouched
  <2> QED
    BY <2>1 DEF Contract!vars
<1> QED
  BY <1>1, EffectIsMove DEF Moved

(* The service implements its contract: each transaction, whoever called it, *)
(* moves one order along the contract and announces just that move in the    *)
(* outbox, or changes nothing the contract speaks of.                        *)
THEOREM ContractIsImplemented == Spec => ImplementsContract
<1> QED
  BY Invariance, ContractInit, ContractStep, PTL DEF Spec, ImplementsContract, Contract!Spec

(* After any calls and webhooks, the four kinds of rows of an order agree.   *)
THEOREM OrderRowsAgree == Spec => []RowsAgree
BY RowsNeverContradict, LedgerDecidesTheStatus, OutboxIsExact, PTL DEF RowsAgree
=============================================================================
