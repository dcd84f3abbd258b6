------------------------------- MODULE Outbox -------------------------------
(***************************************************************************)
(* The transactional outbox: rows of outbox_events and the dispatchers     *)
(* that claim them in batches, run their handlers and mark them            *)
(* (packages/events/src/dispatcher.ts over drizzle-store.ts).  Dispatchers *)
(* run in the API process after each webhook and in the dedicated worker,  *)
(* so several are active at once.                                          *)
(*                                                                         *)
(* Time is abstracted: availableAt and the backoff only delay a claim, so  *)
(* a PENDING row may be claimed at any later moment.  A lock goes stale    *)
(* when its dispatcher died, but also under a dispatcher that is still at  *)
(* work, because lockedAt is set once for the whole batch and never        *)
(* renewed: the batch has then been overrun.                               *)
(***************************************************************************)
EXTENDS Integers, FiniteSets

CONSTANTS
  Events,        \* rows of outbox_events
  Immortal,      \* rows whose eventType is in immortalEventTypes
  HandlersOf,    \* how many handlers are registered for the row's type
  Dispatchers,   \* dispatchers that may be running at the same time
  Limit,         \* batch size of claimBatch
  maxAttempts,   \* options.maxAttempts
  MaxTrouble     \* bound on handler failures, database failures and crashes

ASSUME OutboxAssumption ==
  /\ Immortal \subseteq Events
  /\ HandlersOf \in [Events -> Nat]
  /\ Limit \in Nat \ {0} /\ maxAttempts \in Nat \ {0} /\ MaxTrouble \in Nat

VARIABLES
  status,    \* outbox_events.status, "absent" before the row is committed
  attempts,  \* outbox_events.attempts
  batch,     \* the claimed rows a dispatcher has still to finish
  seen,      \* the attempts of each row in the batch when it was claimed
  working,   \* rows of the batch whose handlers have started: at most one
  ran,       \* handlers of that row already done in this run
  reached,   \* handlers 1 .. reached have succeeded for the row, in some run
  overrun,   \* some batch has outlived its lock while its dispatcher worked
  trouble    \* failures and crashes so far

vars == <<status, attempts, batch, seen, working, ran, reached, overrun, trouble>>
dispatcherVars == <<batch, seen, working, ran>>

Init ==
  /\ status = [e \in Events |-> "absent"]
  /\ attempts = [e \in Events |-> 0]
  /\ batch = [d \in Dispatchers |-> {}]
  /\ seen = [d \in Dispatchers |-> [e \in Events |-> 0]]
  /\ working = [d \in Dispatchers |-> {}]
  /\ ran = [d \in Dispatchers |-> 0]
  /\ reached = [e \in Events |-> 0]
  /\ overrun = FALSE
  /\ trouble = 0

-----------------------------------------------------------------------------
(* enqueue, inside the transaction that wrote the fact; a second row with    *)
(* the same publicId is refused.                                             *)
Enqueue(e) ==
  /\ status[e] = "absent"
  /\ status' = [status EXCEPT ![e] = "PENDING"]
  /\ UNCHANGED <<attempts, reached, overrun, trouble>>
  /\ UNCHANGED dispatcherVars

Held(e) == \E d \in Dispatchers : e \in batch[d]

NeverStale(e) == FALSE   \* faulty
StaleLock(e) == status[e] = "PROCESSING"

(* reclaimStaleLocks, at the start of dispatchPending and of runOnce: the    *)
(* rows of S are those whose lock is older than lockTimeoutMs.               *)
Reclaim(S) ==
  /\ S # {}
  /\ \A e \in S : StaleLock(e)
  /\ status' = [e \in Events |-> IF e \in S THEN "PENDING" ELSE status[e]]
  /\ overrun' = (overrun \/ \E e \in S : Held(e))
  /\ UNCHANGED <<attempts, reached, trouble>>
  /\ UNCHANGED dispatcherVars

Due(e) == status[e] = "PENDING"

(* claimBatch: FOR UPDATE SKIP LOCKED over the rows that are due, and one    *)
(* UPDATE, in one transaction.                                               *)
ClaimBatch(d, S) ==
  /\ batch[d] = {}
  /\ S # {} /\ Cardinality(S) <= Limit
  /\ \A e \in S : Due(e)
  /\ status' = [e \in Events |-> IF e \in S THEN "PROCESSING" ELSE status[e]]
  /\ batch' = [batch EXCEPT ![d] = S]
  /\ seen' = [seen EXCEPT ![d] = [e \in Events |-> IF e \in S THEN attempts[e] ELSE 0]]
  /\ UNCHANGED <<attempts, working, ran, reached, overrun, trouble>>

(* dispatchOne: the batch is taken one row after the other, in the order of  *)
(* availableAt, which is any order.                                          *)
StartEvent(d, e) ==
  /\ working[d] = {}
  /\ e \in batch[d]
  /\ working' = [working EXCEPT ![d] = {e}]
  /\ ran' = [ran EXCEPT ![d] = 0]
  /\ UNCHANGED <<status, attempts, batch, seen, reached, overrun, trouble>>

RunHandler(d, e) ==
  /\ e \in working[d]
  /\ ran[d] < HandlersOf[e]
  /\ ran' = [ran EXCEPT ![d] = @ + 1]
  /\ reached' = [reached EXCEPT ![e] = IF @ < ran[d] + 1 THEN ran[d] + 1 ELSE @]
  /\ UNCHANGED <<status, attempts, batch, seen, working, overrun, trouble>>

Leaves(d, e) ==
  /\ e \in working[d]
  /\ batch' = [batch EXCEPT ![d] = @ \ {e}]
  /\ working' = [working EXCEPT ![d] = {}]
  /\ UNCHANGED <<seen, ran, reached, overrun>>

SomeRan(d, e) == ran[d] > 0   \* faulty
AllRan(d, e) == ran[d] = HandlersOf[e]

(* markProcessed writes by id, whatever the row has become meanwhile.        *)
MarkProcessed(d, e) ==
  /\ AllRan(d, e)
  /\ Leaves(d, e)
  /\ status' = [status EXCEPT ![e] = "PROCESSED"]
  /\ UNCHANGED <<attempts, trouble>>

Trouble == trouble < MaxTrouble /\ trouble' = trouble + 1

AttemptsAfter(d, e) == seen[d][e] + 1

GivesUp(d, e) == AttemptsAfter(d, e) >= maxAttempts /\ e \notin Immortal

(* A handler, or markProcessed itself, throws: markRetry or markFailed, by   *)
(* id, with the attempts counted from what the claim had read.               *)
DispatchFails(d, e) ==
  /\ Trouble
  /\ Leaves(d, e)
  /\ status' = [status EXCEPT ![e] = IF GivesUp(d, e) THEN "FAILED" ELSE "PENDING"]
  /\ attempts' = [attempts EXCEPT ![e] = AttemptsAfter(d, e)]

(* The process dies, or markRetry or markFailed throws: the rest of the      *)
(* batch stays PROCESSING until its lock is stale.                           *)
Abandon(d) ==
  /\ Trouble
  /\ batch[d] # {}
  /\ batch' = [batch EXCEPT ![d] = {}]
  /\ working' = [working EXCEPT ![d] = {}]
  /\ UNCHANGED <<status, attempts, seen, ran, reached, overrun>>

Dispatch(d) ==
  \/ \E S \in SUBSET Events : ClaimBatch(d, S)
  \/ \E e \in Events : StartEvent(d, e) \/ RunHandler(d, e) \/ MarkProcessed(d, e)

Next ==
  \/ \E e \in Events : Enqueue(e)
  \/ \E S \in SUBSET Events : Reclaim(S)
  \/ \E d \in Dispatchers :
       \/ Dispatch(d) \/ Abandon(d)
       \/ \E e \in Events : DispatchFails(d, e)

Spec == Init /\ [][Next]_vars

(* Every dispatcher keeps running, polls for due rows and for stale locks;   *)
(* a lock whose dispatcher is gone only grows older.                         *)
FairSpec ==
  /\ Spec
  /\ \A d \in Dispatchers : WF_vars(Dispatch(d))
  /\ \A e \in Events : WF_vars(\E S \in SUBSET Events : e \in S /\ Reclaim(S))

-----------------------------------------------------------------------------
(* Every variable has its type, and a dispatcher works on a row it claimed.  *)
OutboxTypeOK ==
  /\ status \in [Events -> {"absent", "PENDING", "PROCESSING", "PROCESSED", "FAILED"}]
  /\ attempts \in [Events -> Nat]
  /\ batch \in [Dispatchers -> SUBSET Events]
  /\ seen \in [Dispatchers -> [Events -> Nat]]
  /\ working \in [Dispatchers -> SUBSET Events]
  /\ \A d \in Dispatchers : working[d] \subseteq batch[d]
  /\ \A d \in Dispatchers : \A e, f \in working[d] : e = f
  /\ ran \in [Dispatchers -> Nat]
  /\ reached \in [Events -> Nat]
  /\ overrun \in BOOLEAN
  /\ trouble \in Nat

(* A row is marked PROCESSED only after all its handlers have succeeded,     *)
(* whichever dispatchers died, were overtaken or ran it twice.               *)
ProcessedMeansHandled ==
  \A e \in Events : status[e] = "PROCESSED" => reached[e] = HandlersOf[e]

(* Only a row that may be given up is FAILED, after maxAttempts failures.    *)
FailedWasTried ==
  \A e \in Events :
    status[e] = "FAILED" => e \notin Immortal /\ attempts[e] >= maxAttempts

(* As long as no batch outlives its lock, a row is in the hands of one       *)
(* dispatcher, and PROCESSING says so.                                       *)
OneDispatcher ==
  ~overrun => \A d \in Dispatchers : \A e \in batch[d] :
    /\ status[e] = "PROCESSING"
    /\ seen[d][e] = attempts[e]
    /\ \A c \in Dispatchers : e \in batch[c] => c = d

(* As long as no batch outlives its lock, no failure is forgotten.           *)
AttemptsNeverGoBack ==
  [][~overrun => \A e \in Events : attempts'[e] >= attempts[e]]_vars

(* "commerce.order.paid|refunded|voided never stay FAILED": once committed,  *)
(* such a row ends up processed and stays so, even if locks expire early.    *)
DeliveredInTheEnd ==
  \A e \in Immortal : status[e] # "absent" ~> [](status[e] = "PROCESSED")

-----------------------------------------------------------------------------
Phase(e) ==
  CASE status[e] = "absent"    -> "absent"
    [] status[e] = "PROCESSED" -> "done"
    [] status[e] = "FAILED"    -> "given_up"
    [] OTHER                   -> "owed"

Promise == INSTANCE Delivery WITH phase <- [e \in Events |-> Phase(e)]

(* As long as no batch outlives its lock, the outbox keeps its promise.      *)
KeepsPromise == Promise!Init /\ [][~overrun => Promise!Next]_(Promise!vars)
=============================================================================
