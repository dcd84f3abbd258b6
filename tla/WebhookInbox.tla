---------------------------- MODULE WebhookInbox ----------------------------
(***************************************************************************)
(* The inbox of payment webhooks: deliveries of one provider event, several *)
(* at a time, each handled by processWebhook in a PostgreSQL transaction   *)
(* (packages/commerce/src/service.ts with DrizzleCommerceRepository) and   *)
(* answered by the route of apps/api.  The transaction inserts the unique  *)
(* row (provider, eventId), applies the event and sets processedAt, so the *)
(* row is committed processed or not at all.                               *)
(*                                                                         *)
(* A unique violation dooms a PostgreSQL transaction: the SELECT that      *)
(* claimWebhookEvent issues after catching it fails too, the call throws   *)
(* and the route answers 500.                                              *)
(***************************************************************************)
EXTENDS Integers

CONSTANTS
  Deliveries,   \* deliveries that may be under way at the same time
  AcksUnknown,  \* an unknown payment is answered with success (SePay)
  MaxTrouble    \* bound on crashes and on failures to apply the event

ASSUME InboxAssumption == MaxTrouble \in Nat /\ AcksUnknown \in BOOLEAN

VARIABLES
  at,        \* where each delivery stands
  known,     \* the payment the event names has been stored
  row,       \* the committed row of webhook_events
  applied,   \* how many times the event was applied and committed
  answers,   \* the answers given so far, with what the claim had found
  trouble    \* crashes and failures so far

inboxVars == <<at, known, row, applied, answers, trouble>>

Steps == {"idle", "open", "claimed", "doomed", "applied", "committed"}
Answers == [claim : {"inserted", "conflict", "unknown"}, status : {"ok", "error"}]

InboxInit ==
  /\ at = [d \in Deliveries |-> "idle"]
  /\ known = FALSE
  /\ row = "absent"
  /\ applied = 0
  /\ answers = {}
  /\ trouble = 0

Moves(d, from, to) ==
  /\ at[d] = from
  /\ at' = [at EXCEPT ![d] = to]

Answer(claim, status) == answers' = answers \cup {[claim |-> claim, status |-> status]}

(* markPaymentPending commits; a delivery may overtake it.                   *)
StorePayment ==
  /\ ~known
  /\ known' = TRUE
  /\ UNCHANGED <<at, row, applied, answers, trouble>>

(* The provider delivers, and redelivers until it is answered with success;  *)
(* it may also deliver what was already acknowledged.                        *)
Deliver(d) ==
  /\ Moves(d, "idle", "open")
  /\ UNCHANGED <<known, row, applied, answers, trouble>>

(* The INSERT waits while another transaction has inserted the same key.     *)
HoldsKey(d) == at[d] \in {"claimed", "applied"}

ClaimedForGood ==   \* faulty: the claim is not rolled back with the event
  IF row = "processed" \/ trouble > 0 THEN "doomed" ELSE "claimed"
ClaimResult == IF row = "processed" THEN "doomed" ELSE "claimed"

Claim(d) ==
  /\ \A c \in Deliveries : ~HoldsKey(c)
  /\ Moves(d, "open", ClaimResult)
  /\ UNCHANGED <<known, row, applied, answers, trouble>>

ApplyEvent(d) ==
  /\ known
  /\ Moves(d, "claimed", "applied")
  /\ UNCHANGED <<known, row, applied, answers, trouble>>

(* The payment is not found: rollback, and for SePay a success all the same. *)
AcksFailure == "ok"   \* faulty
StatusOfFailure == "error"

PaymentNotFound(d) ==
  /\ ~known
  /\ Moves(d, "claimed", "idle")
  /\ Answer("unknown", IF AcksUnknown THEN "ok" ELSE StatusOfFailure)
  /\ UNCHANGED <<known, row, applied, trouble>>

(* applyNormalizedEvent throws: rollback, and an error status *)
ApplyThrows(d) ==
  /\ trouble < MaxTrouble
  /\ Moves(d, "claimed", "idle")
  /\ trouble' = trouble + 1
  /\ Answer("inserted", StatusOfFailure)
  /\ UNCHANGED <<known, row, applied>>

Commit(d) ==
  /\ Moves(d, "applied", "committed")
  /\ row' = "processed"
  /\ applied' = applied + 1
  /\ UNCHANGED <<known, answers, trouble>>

AnswerCommitted(d) ==
  /\ Moves(d, "committed", "idle")
  /\ Answer("inserted", "ok")
  /\ UNCHANGED <<known, row, applied, trouble>>

AnswerDoomed(d) ==
  /\ Moves(d, "doomed", "idle")
  /\ Answer("conflict", StatusOfFailure)
  /\ UNCHANGED <<known, row, applied, trouble>>

(* The process dies, before or after COMMIT, and answers nothing.            *)
Crash(d) ==
  /\ trouble < MaxTrouble
  /\ at[d] # "idle"
  /\ at' = [at EXCEPT ![d] = "idle"]
  /\ trouble' = trouble + 1
  /\ UNCHANGED <<known, row, applied, answers>>

Handle(d) ==
  \/ Claim(d) \/ PaymentNotFound(d) \/ ApplyEvent(d) \/ Commit(d)
  \/ AnswerCommitted(d) \/ AnswerDoomed(d)

InboxNext ==
  StorePayment \/ \E d \in Deliveries : Deliver(d) \/ Handle(d) \/ ApplyThrows(d) \/ Crash(d)

InboxSpec == InboxInit /\ [][InboxNext]_inboxVars

(* A running process handles what it received; as long as nothing was        *)
(* acknowledged the provider delivers again.  Nobody is owed more: which of  *)
(* several waiting INSERTs goes first is up to the database.                 *)
Acknowledged == \E x \in answers : x.status = "ok"

FairSpec ==
  /\ InboxSpec
  /\ WF_inboxVars(StorePayment)
  /\ WF_inboxVars(\E d \in Deliveries : Handle(d))
  /\ WF_inboxVars(~Acknowledged /\ \E d \in Deliveries : Deliver(d))

-----------------------------------------------------------------------------
(* Every variable has its type.                                              *)
InboxTypeOK ==
  /\ at \in [Deliveries -> Steps]
  /\ known \in BOOLEAN
  /\ row \in {"absent", "processed"}
  /\ applied \in Nat
  /\ answers \subseteq Answers
  /\ trouble \in 0 .. MaxTrouble

(* However many deliveries of an event overlap, fail or die, it is applied   *)
(* at most once, and exactly when its row is committed.                      *)
AppliedOnce == applied = IF row = "processed" THEN 1 ELSE 0

(* A delivery is acknowledged only when the event can no longer be lost, or  *)
(* named a payment that was not there.                                       *)
AcknowledgedIsApplied ==
  \A x \in answers : x.status = "ok" => row = "processed" \/ x.claim = "unknown"

(* No event is applied twice, and none is acknowledged that may be lost.     *)
NeitherLostNorRepeated == AppliedOnce /\ AcknowledgedIsApplied

(* However the deliveries fail, the event is applied in the end, unless one   *)
(* that came before the payment was stored has been acknowledged.            *)
EventIsApplied ==
  <>(row = "processed" \/ [claim |-> "unknown", status |-> "ok"] \in answers)
=============================================================================
