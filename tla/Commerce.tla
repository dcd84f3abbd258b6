------------------------------ MODULE Commerce ------------------------------
(***************************************************************************)
(* The commerce service: orders, payments, the refunds ledger, provider    *)
(* subscriptions, the webhook inbox and the rows put in the transactional  *)
(* outbox.  Every action is one database transaction of                    *)
(* packages/commerce/src/service.ts, taken as a whole (transactions that   *)
(* overlap are the subject of CommerceRace).  A call that throws rolls     *)
(* its transaction back, so it is no step of this module.                  *)
(*                                                                         *)
(* The payment provider is external: the actions named Provider... say     *)
(* what it may capture, return or reverse and which webhook it then sends. *)
(* A webhook stays deliverable for ever, in any order, so lost, reordered  *)
(* and repeated deliveries are all behaviours of the module.               *)
(***************************************************************************)
EXTENDS OrderStates, Integers, FiniteSets, Functions

CONSTANTS
  Orders,          \* orders of one customer
  Recurring,       \* orders whose checkout returned a providerSubscriptionId
  PlanOf,          \* the plan each order buys
  Price,           \* the amount of a payment, in minor units
  Refunds,         \* ids for refund rows that need a manual confirmation
  EventIds,        \* webhook event ids the provider may use
  SupportsRefund, SupportsPartialRefund,   \* provider capabilities
  FreshRefundIds,  \* provider.refund() returns a new id on every call
  MayCrash,        \* the process may die between provider.refund() and COMMIT
  ProviderKinds,   \* event types the provider's normalizeWebhookEvent produces
  NoEvent,         \* the value of an event id not used yet
  MaxReturned      \* bound on the money the provider is asked to return

Amounts == 0 .. Price
Kinds == {"succeeded", "failed", "refunded", "partially_refunded", "voided", "other"}
Event == [kind : Kinds, order : Orders, amount : Amounts]

ASSUME CommerceAssumption ==
  /\ Orders # {} /\ Recurring \subseteq Orders
  /\ IsFiniteSet(Refunds) /\ IsFiniteSet(EventIds)
  /\ Price \in Nat \ {0}
  /\ MaxReturned \in Nat
  /\ ProviderKinds \subseteq Kinds
  /\ NoEvent \notin Event
  /\ {SupportsRefund, SupportsPartialRefund, FreshRefundIds, MayCrash} \subseteq BOOLEAN

VARIABLES
  order,      \* orders.status
  payment,    \* payments.status: one payment per order
  refunded,   \* sum of the payment's refund rows with status succeeded
  held,       \* sum of its refund rows with status manual_required
  manual,     \* the refund rows that were created manual_required
  refIdUsed,  \* a refund row already carries the id provider.refund() returns
  sub,        \* the subscription created for an order
  outbox,     \* outbox rows of an order, by event type and publicId
  processed,  \* webhook_events rows with processedAt set
  sent,       \* webhooks the provider has sent
  charge,     \* the provider's own view of the charge
  returned,   \* money the provider has sent back
  told        \* money it has reported sent back, every report of it counted

commerceVars == <<order, payment, refunded, held, manual, refIdUsed, sub, outbox>>
providerVars == <<sent, charge, returned, told>>
vars == <<order, payment, refunded, held, manual, refIdUsed, sub, outbox,
          processed, sent, charge, returned, told>>

Row == [status : {"free", "manual_required", "succeeded"},
        order : Orders, amount : Amounts]

(* Rows of the outbox: the paid and voided rows have a publicId made from    *)
(* the order, so there is at most one of each; a refunded row is identified  *)
(* by its refund, and carries the flag full.                                 *)
OutboxOf == [paid : BOOLEAN, voided : BOOLEAN, full : Nat, partial : Nat]

Init ==
  /\ order = [o \in Orders |-> "none"]
  /\ payment = [o \in Orders |-> "none"]
  /\ refunded = [o \in Orders |-> 0]
  /\ held = [o \in Orders |-> 0]
  /\ manual = [r \in Refunds |-> [status |-> "free", order |-> CHOOSE o \in Orders : TRUE,
                                  amount |-> 0]]
  /\ refIdUsed = [o \in Orders |-> FALSE]
  /\ sub = [o \in Orders |-> "none"]
  /\ outbox = [o \in Orders |-> [paid |-> FALSE, voided |-> FALSE, full |-> 0, partial |-> 0]]
  /\ processed = {}
  /\ sent = [e \in EventIds |-> NoEvent]
  /\ charge = [o \in Orders |-> "open"]
  /\ returned = [o \in Orders |-> 0]
  /\ told = [o \in Orders |-> 0]

-----------------------------------------------------------------------------
(* Checkout: createOrder, then provider.createCheckout outside any           *)
(* transaction, then markPaymentPending.  A provider error cancels the       *)
(* draft (CancelOrder); a crash in between leaves it.                        *)

CreateOrder(o) ==
  /\ order[o] = "none"
  /\ order' = [order EXCEPT ![o] = "draft"]
  /\ UNCHANGED <<payment, refunded, held, manual, refIdUsed, sub, outbox, processed>>
  /\ UNCHANGED providerVars

MarkPaymentPending(o) ==
  /\ CanTransitionOrder(order[o], "pending_payment")
  /\ payment[o] = "none"
  /\ payment' = [payment EXCEPT ![o] = "pending"]
  /\ order' = [order EXCEPT ![o] = "pending_payment"]
  /\ UNCHANGED <<refunded, held, manual, refIdUsed, sub, outbox, processed>>
  /\ UNCHANGED providerVars

CancelOrder(o) ==
  /\ CanTransitionOrder(order[o], "cancelled")
  /\ order' = [order EXCEPT ![o] = "cancelled"]
  /\ payment' = [payment EXCEPT ![o] = IF @ = "pending" THEN "failed" ELSE @]
  /\ UNCHANGED <<refunded, held, manual, refIdUsed, sub, outbox, processed>>
  /\ UNCHANGED providerVars

-----------------------------------------------------------------------------
(* Writes shared by the direct calls and the webhook handlers.               *)

ReturnsWhilePending(o) == order[o] \in {"pending_payment", "paid"}   \* faulty
AlreadyConfirmed(o) == payment[o] = "succeeded" /\ order[o] = "paid"

(* cancelSubscriptionsForOrder: every active subscription of the customer    *)
(* for a plan of the order, whichever order created it.                      *)
SubscriptionsKept(o) == sub   \* faulty
SubscriptionsCancelledWith(o) ==
  [p \in Orders |-> IF PlanOf[p] = PlanOf[o] /\ sub[p] = "active"
                    THEN "cancelled" ELSE sub[p]]

(* confirmPaymentOn, past its early return *)
Confirm(o) ==
  /\ CanTransitionPayment(payment[o], "succeeded")
  /\ CanTransitionOrder(order[o], "paid")
  /\ payment' = [payment EXCEPT ![o] = "succeeded"]
  /\ order' = [order EXCEPT ![o] = "paid"]
  /\ sub' = [sub EXCEPT ![o] = IF o \in Recurring THEN "active" ELSE @]
  /\ outbox' = [outbox EXCEPT ![o].paid = TRUE]
  /\ UNCHANGED <<refunded, held, manual, refIdUsed>>

(* failPaymentOn, past its early return: the order keeps its status *)
Fail(o) ==
  /\ CanTransitionPayment(payment[o], "failed")
  /\ payment' = [payment EXCEPT ![o] = "failed"]
  /\ UNCHANGED <<order, refunded, held, manual, refIdUsed, sub, outbox>>

RefundedAfter(o, a) == refunded[o] + a

FullInOneGo(o, a) == a = Price   \* faulty
IsFull(o, a) == RefundedAfter(o, a) = Price

StatusAfterRefund(o, a) == IF IsFull(o, a) THEN "refunded" ELSE "partially_refunded"

(* The early return of applyLocalRefund and of settleSuccessfulRefund.       *)
AlreadySettled(o, a) ==
  /\ order[o] = StatusAfterRefund(o, a)
  /\ IsFull(o, a) => payment[o] = "refunded"

(* settleSuccessfulRefund *)
Settle(o, a) ==
  IF AlreadySettled(o, a) THEN UNCHANGED <<order, payment, sub>>
  ELSE /\ CanTransitionOrder(order[o], StatusAfterRefund(o, a))
       /\ order' = [order EXCEPT ![o] = StatusAfterRefund(o, a)]
       /\ IF IsFull(o, a)
          THEN /\ payment[o] = "refunded" \/ CanTransitionPayment(payment[o], "refunded")
               /\ payment' = [payment EXCEPT ![o] = "refunded"]
               /\ sub' = SubscriptionsCancelledWith(o)
          ELSE UNCHANGED <<payment, sub>>

(* enqueueOrderRefunded, with its flag full *)
AnnounceByAmount(o, a) ==   \* faulty
  outbox' = IF a = Price THEN [outbox EXCEPT ![o].full = @ + 1]
                         ELSE [outbox EXCEPT ![o].partial = @ + 1]
AnnounceRefund(o, a) ==
  outbox' = IF IsFull(o, a) THEN [outbox EXCEPT ![o].full = @ + 1]
                            ELSE [outbox EXCEPT ![o].partial = @ + 1]

(* The succeeded refund row, the statuses and the outbox row *)
RecordRefund(o, a) ==
  /\ refunded' = [refunded EXCEPT ![o] = RefundedAfter(o, a)]
  /\ Settle(o, a)
  /\ AnnounceRefund(o, a)

(* applyVoidOn, past its early return *)
Void(o) ==
  /\ payment[o] # "refunded" /\ order[o] \notin {"refunded", "partially_refunded"}
  /\ payment[o] # "voided" => CanTransitionPayment(payment[o], "voided")
  /\ order[o] # "voided" => CanTransitionOrder(order[o], "voided")
  /\ payment' = [payment EXCEPT ![o] = "voided"]
  /\ order' = [order EXCEPT ![o] = "voided"]
  /\ sub' = SubscriptionsCancelledWith(o)
  /\ outbox' = [outbox EXCEPT ![o].voided = TRUE]
  /\ UNCHANGED <<refunded, held, manual, refIdUsed>>

-----------------------------------------------------------------------------
(* Calls of the public API.                                                  *)

ConfirmPayment(o) ==
  /\ ~AlreadyConfirmed(o)
  /\ Confirm(o)
  /\ UNCHANGED <<processed, sent, charge, returned, told>>

FailPayment(o) ==
  /\ Fail(o)
  /\ UNCHANGED <<processed, sent, charge, returned, told>>

(* requestRefundOn: what both outcomes require, and the capability it needs *)
MayRequestUnreserved(o, a) ==   \* faulty
  payment[o] = "succeeded" /\ refunded[o] + a <= Price
MayRequestRefund(o, a) ==
  /\ payment[o] = "succeeded"
  /\ refunded[o] + held[o] + a <= Price

ProviderCanRefund(o, a) ==
  IF IsFull(o, a) THEN SupportsRefund ELSE SupportsPartialRefund

RequestManualRefund(o, a, r) ==
  /\ MayRequestRefund(o, a)
  /\ ~ProviderCanRefund(o, a)
  /\ manual[r].status = "free"
  /\ manual' = [manual EXCEPT ![r] = [status |-> "manual_required", order |-> o, amount |-> a]]
  /\ held' = [held EXCEPT ![o] = @ + a]
  /\ UNCHANGED <<order, payment, refunded, refIdUsed, sub, outbox, processed>>
  /\ UNCHANGED providerVars

(* provider.refund() is called inside the transaction, before the local      *)
(* rows are written: the money moves whether or not they are.  Its answer    *)
(* counts as a report when the rows are written (told).                      *)
AskProvider(o, a) ==
  /\ MayRequestRefund(o, a)
  /\ ProviderCanRefund(o, a)
  /\ returned[o] + a <= MaxReturned
  /\ returned' = [returned EXCEPT ![o] = @ + a]
  /\ UNCHANGED <<processed, sent, charge>>

RequestRefund(o, a) ==
  /\ AskProvider(o, a)
  /\ ~AlreadySettled(o, a)
  /\ FreshRefundIds \/ ~refIdUsed[o]
  /\ refIdUsed' = [refIdUsed EXCEPT ![o] = TRUE]
  /\ RecordRefund(o, a)
  /\ told' = [told EXCEPT ![o] = @ + a]
  /\ UNCHANGED <<held, manual>>

(* The provider was asked, and no row is written: applyLocalRefund returns   *)
(* early, or the unique index on providerRefundId or a crash rolls back.     *)
RequestRefundUnrecorded(o, a) ==
  /\ AskProvider(o, a)
  /\ \/ AlreadySettled(o, a)
     \/ ~FreshRefundIds /\ refIdUsed[o]
     \/ MayCrash
  /\ UNCHANGED commerceVars
  /\ UNCHANGED told

AwaitsMoney(r) == manual[r].status = "manual_required"

ConfirmManualRefund(r) ==
  LET o == manual[r].order
      a == manual[r].amount
  IN /\ AwaitsMoney(r)
     /\ payment[o] # "voided" /\ order[o] # "voided"
     /\ RefundedAfter(o, a) <= Price
     /\ manual' = [manual EXCEPT ![r].status = "succeeded"]
     /\ held' = [held EXCEPT ![o] = @ - a]
     /\ RecordRefund(o, a)
     /\ UNCHANGED <<refIdUsed, processed, sent, charge, returned, told>>

-----------------------------------------------------------------------------
(* processWebhook: claim the event id, apply the event, mark it processed,   *)
(* in one transaction.  A processed id is a duplicate and changes nothing.   *)

Claim(e) ==
  /\ sent[e] # NoEvent
  /\ e \notin processed
  /\ processed' = processed \cup {e}
  /\ UNCHANGED providerVars

IsVoided(o) == payment[o] = "voided" \/ order[o] = "voided"

(* applyNormalizedEvent reaches the switch on the event's type *)
Applies(e, kind) ==
  /\ Claim(e)
  /\ sent[e].kind = kind
  /\ order[sent[e].order] # "cancelled"
  /\ ~IsVoided(sent[e].order)

WebhookIgnored(e) ==
  /\ Claim(e)
  /\ LET o == sent[e].order IN
       \/ sent[e].kind = "other"
       \/ order[o] = "cancelled"
       \/ IsVoided(o) /\ sent[e].kind # "voided"
       \/ payment[o] = "voided" /\ order[o] = "voided"
  /\ UNCHANGED commerceVars

WebhookSucceeded(e) ==
  LET o == sent[e].order IN
    /\ Applies(e, "succeeded")
    /\ sent[e].amount = Price
    /\ IF AlreadyConfirmed(o) THEN UNCHANGED commerceVars ELSE Confirm(o)

WebhookFailed(e) ==
  LET o == sent[e].order IN
    /\ Applies(e, "failed")
    /\ IF payment[o] = "failed" THEN UNCHANGED commerceVars ELSE Fail(o)

(* applyProviderRefundEventOn: a payment_refunded event stands for the whole *)
(* payment whatever amount it carries.                                       *)
WebhookRefunded(e) ==
  \E kind \in {"refunded", "partially_refunded"} :
    /\ Applies(e, kind)
    /\ LET o == sent[e].order
           a == IF kind = "refunded" THEN Price ELSE sent[e].amount
       IN /\ RefundedAfter(o, a) <= Price
          /\ IF AlreadySettled(o, a) THEN UNCHANGED commerceVars
             ELSE RecordRefund(o, a) /\ UNCHANGED <<held, manual, refIdUsed>>

WebhookVoided(e) ==
  LET o == sent[e].order IN
    /\ Claim(e)
    /\ sent[e].kind = "voided"
    /\ order[o] # "cancelled"
    /\ ~(payment[o] = "voided" /\ order[o] = "voided")
    /\ Void(o)

-----------------------------------------------------------------------------
(* The payment provider (external).  A bank transfer may be repeated or of   *)
(* the wrong amount; a card reversal happens before any money is returned.   *)

Sends(e, kind, o, a) ==
  /\ sent[e] = NoEvent
  /\ kind \in ProviderKinds
  /\ payment[o] # "none"
  /\ sent' = [sent EXCEPT ![e] = [kind |-> kind, order |-> o, amount |-> a]]
  /\ UNCHANGED commerceVars
  /\ UNCHANGED processed

ProviderCaptures(e, o, a) ==
  /\ charge[o] # "reversed"
  /\ Sends(e, "succeeded", o, a)
  /\ charge' = [charge EXCEPT ![o] = IF a = Price THEN "captured" ELSE @]
  /\ UNCHANGED <<returned, told>>

ProviderDeclines(e, o) ==
  /\ charge[o] = "open"
  /\ Sends(e, "failed", o, Price)
  /\ UNCHANGED <<charge, returned, told>>

ProviderReturns(e, o, a) ==
  /\ charge[o] = "captured"
  /\ a > 0 /\ returned[o] + a <= Price
  /\ \/ Sends(e, "partially_refunded", o, a)
     \/ returned[o] + a = Price /\ Sends(e, "refunded", o, a)
  /\ returned' = [returned EXCEPT ![o] = @ + a]
  /\ told' = [told EXCEPT ![o] = @ + a]
  /\ UNCHANGED charge

(* A refund webhook for money that had gone back before: the event of a      *)
(* refund this service asked for, whether or not its row was written, or a   *)
(* second event of one refund.  Nothing in the event names the refund row.   *)
ProviderReports(e, o, a) ==
  /\ a > 0 /\ a <= returned[o]
  /\ \/ Sends(e, "partially_refunded", o, a)
     \/ returned[o] >= Price /\ Sends(e, "refunded", o, a)
  /\ told' = [told EXCEPT ![o] = @ + a]
  /\ UNCHANGED <<charge, returned>>

ProviderReverses(e, o) ==
  /\ charge[o] # "reversed" /\ returned[o] = 0
  /\ Sends(e, "voided", o, Price)
  /\ charge' = [charge EXCEPT ![o] = "reversed"]
  /\ UNCHANGED <<returned, told>>

ProviderSendsOther(e, o) == Sends(e, "other", o, 0) /\ UNCHANGED <<charge, returned, told>>

-----------------------------------------------------------------------------

Call(o) ==
  \/ CreateOrder(o) \/ MarkPaymentPending(o) \/ CancelOrder(o)
  \/ ConfirmPayment(o) \/ FailPayment(o)
  \/ \E a \in Amounts :
       \/ \E r \in Refunds : RequestManualRefund(o, a, r)
       \/ RequestRefund(o, a)
       \/ RequestRefundUnrecorded(o, a)

Webhook(e) ==
  \/ WebhookIgnored(e) \/ WebhookSucceeded(e) \/ WebhookFailed(e)
  \/ WebhookRefunded(e) \/ WebhookVoided(e)

Provider(e, o) ==
  \/ \E a \in Amounts :
       ProviderCaptures(e, o, a) \/ ProviderReturns(e, o, a) \/ ProviderReports(e, o, a)
  \/ ProviderDeclines(e, o) \/ ProviderReverses(e, o) \/ ProviderSendsOther(e, o)

Next ==
  \/ \E o \in Orders : Call(o)
  \/ \E r \in Refunds : ConfirmManualRefund(r)
  \/ \E e \in EventIds : Webhook(e)
  \/ \E e \in EventIds, o \in Orders : Provider(e, o)

Spec == Init /\ [][Next]_vars

(* The provider redelivers a webhook until it is answered with success.      *)
FairSpec == Spec /\ \A e \in EventIds : WF_vars(Webhook(e))

-----------------------------------------------------------------------------
(* Properties.                                                               *)

(* Every variable has its type.                                              *)
TypeOK ==
  /\ order \in [Orders -> OrderStatus \cup {"none"}]
  /\ payment \in [Orders -> PaymentStatus \cup {"none"}]
  /\ refunded \in [Orders -> Nat]
  /\ held \in [Orders -> Int]
  /\ manual \in [Refunds -> Row]
  /\ refIdUsed \in [Orders -> BOOLEAN]
  /\ sub \in [Orders -> {"none", "active", "cancelled"}]
  /\ outbox \in [Orders -> OutboxOf]
  /\ processed \subseteq EventIds
  /\ sent \in [EventIds -> Event \cup {NoEvent}]
  /\ charge \in [Orders -> {"open", "captured", "reversed"}]
  /\ returned \in [Orders -> Nat]
  /\ told \in [Orders -> Nat]

(* The order row and its payment row never contradict each other, whatever   *)
(* sequence of calls and webhooks wrote them one after the other.            *)
StatusesAgree ==
  \A o \in Orders : <<order[o], payment[o]>> \in
    {<<"none", "none">>, <<"draft", "none">>, <<"cancelled", "none">>,
     <<"pending_payment", "pending">>, <<"pending_payment", "failed">>,
     <<"cancelled", "failed">>, <<"paid", "succeeded">>,
     <<"partially_refunded", "succeeded">>, <<"refunded", "refunded">>,
     <<"voided", "voided">>}

(* The refunds ledger and the status agree: the whole price is refunded      *)
(* exactly when the order is refunded, however many refunds completed it,    *)
(* and a voided or cancelled order has no succeeded refund row ("voided is   *)
(* not a refund").                                                           *)
RefundsLedger ==
  \A o \in Orders :
    /\ order[o] = "refunded" <=> refunded[o] = Price
    /\ refunded[o] > 0 => order[o] \in {"partially_refunded", "refunded"}

Bought == {"paid", "partially_refunded", "refunded"}

(* The outbox rows of an order are exactly those its status calls for: the   *)
(* consumers that grant and take back access can rely on them.               *)
OutboxTellsTheOrder ==
  \A o \in Orders :
    /\ order[o] \in Bought => outbox[o].paid
    /\ outbox[o].paid => order[o] \in Bought \cup {"voided"}
    /\ outbox[o].voided <=> order[o] = "voided"
    /\ outbox[o].full > 0 <=> order[o] = "refunded"
    /\ outbox[o].partial > 0 => order[o] \in {"partially_refunded", "refunded"}

(* The rows of an order never contradict each other: its status, its         *)
(* payment's, its refunds and its outbox rows.                               *)
RowsAgree == StatusesAgree /\ RefundsLedger /\ OutboxTellsTheOrder

(* A subscription is active only while the order that created it is paid for; *)
(* a paid recurring order has created its subscription, and loses it only    *)
(* when some order for the same plan was taken back.                         *)
SubscriptionsArePaidFor ==
  \A o \in Orders :
    /\ sub[o] = "active" => order[o] \in {"paid", "partially_refunded"}
    /\ o \in Recurring /\ order[o] \in Bought => sub[o] # "none"
    /\ order[o] \in Bought /\ sub[o] = "cancelled" =>
         \E p \in Orders : PlanOf[p] = PlanOf[o] /\ order[p] \in {"refunded", "voided"}

ManualTotal(o, status) ==
  SumFunctionOnSet([r \in Refunds |-> manual[r].amount],
                   {r \in Refunds : manual[r].order = o /\ manual[r].status = status})

(* Every refund in the ledger is money that went back, returned by the       *)
(* provider or by hand and then confirmed by finance, once.  A refund the    *)
(* provider reports twice is recorded twice: that, and nothing else, makes   *)
(* the ledger exceed the money, and by no more than what was reported.       *)
RecordedRefundsAreReal ==
  \A o \in Orders :
    \/ refunded[o] <= returned[o] + ManualTotal(o, "succeeded")
    \/ refunded[o] <= told[o] + ManualTotal(o, "succeeded")

ReportedRefund(o) ==
  \E e \in processed : sent[e].order = o /\ sent[e].kind \in {"refunded", "partially_refunded"}

(* A manual refund that was accepted can still be confirmed as long as the   *)
(* payment is in force: what is refunded fits in the payment, and so do the  *)
(* requests accepted together, unless a refund was reported by a webhook.    *)
ReservationsFit ==
  \A o \in Orders :
    /\ refunded[o] <= Price
    /\ payment[o] = "succeeded" /\ ~ReportedRefund(o) =>
         refunded[o] + ManualTotal(o, "manual_required") <= Price

(* Refunds are backed by money: what is recorded was returned or reported    *)
(* so, and what was accepted can still be.                                   *)
RefundsAreBacked == RecordedRefundsAreReal /\ ReservationsFit

(* A capture of the right amount is eventually recognised: its order leaves  *)
(* the unpaid states, unless an earlier decline has closed the payment.      *)
CaptureIsSettled ==
  \A e \in EventIds, o \in Orders :
    (/\ sent[e] # NoEvent
     /\ sent[e] = [kind |-> "succeeded", order |-> o, amount |-> Price])
      ~> (order[o] \notin {"draft", "pending_payment"} \/ payment[o] = "failed")

-----------------------------------------------------------------------------
(* What the rest of the platform is promised of an order.                    *)

Phase(o) ==
  CASE order[o] \in {"paid", "partially_refunded"} -> "paid"
    [] order[o] \in {"refunded", "voided"}         -> order[o]
    [] order[o] = "cancelled"                      -> "closed"
    [] OTHER                                       -> "unpaid"

Announced(o) ==
  {x \in {"paid", "voided", "full", "partial"} :
     \/ x = "paid" /\ outbox[o].paid
     \/ x = "voided" /\ outbox[o].voided
     \/ x = "full" /\ outbox[o].full > 0
     \/ x = "partial" /\ outbox[o].partial > 0}

Contract == INSTANCE OrderContract
              WITH phase <- [o \in Orders |-> Phase(o)],
                   announced <- [o \in Orders |-> Announced(o)]

(* Every transaction is a step of the contract, or leaves it unchanged.      *)
ImplementsContract == Contract!Spec
=============================================================================
