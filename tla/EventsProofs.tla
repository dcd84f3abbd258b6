----------------------------- MODULE EventsProofs -----------------------------
(***************************************************************************)
(* From the outbox to access, for any number of rows, handlers,            *)
(* dispatchers, failures and orders.                                       *)
(*                                                                         *)
(* The durable outbox keeps its promise: what a mark may say of a row is   *)
(* proved for every behaviour; that a row is with one dispatcher, and with *)
(* it the refinement of Delivery, for as long as no batch outlives its     *)
(* lock.                                                                   *)
(*                                                                         *)
(* The order handlers give the access that was bought and end the access   *)
(* that was taken back, for any orders that keep OrderContract and any     *)
(* order and repetition of the rows.                                       *)
(***************************************************************************)
EXTENDS Outbox, Fulfilment, FiniteSetTheorems, TLAPS

-----------------------------------------------------------------------------
(*                                The outbox                                 *)

Statuses == {"absent", "PENDING", "PROCESSING", "PROCESSED", "FAILED"}

(* A handler counted in this run has succeeded in some run, and there are no *)
(* more successes than handlers.                                             *)
ReachedFollowsRan ==
  /\ \A e \in Events : reached[e] <= HandlersOf[e]
  /\ \A d \in Dispatchers : \A e \in working[d] : ran[d] <= reached[e]

IInv ==
  /\ OutboxTypeOK
  /\ ReachedFollowsRan
  /\ ProcessedMeansHandled
  /\ FailedWasTried
  /\ OneDispatcher

LEMMA InitHolds == Init => IInv
<1> SUFFICES ASSUME Init PROVE IInv
  OBVIOUS
<1>1. OutboxTypeOK
  BY DEF Init, OutboxTypeOK
<1>2. ReachedFollowsRan
  BY OutboxAssumption DEF Init, ReachedFollowsRan
<1> QED
  BY <1>1, <1>2 DEF Init, IInv, ProcessedMeansHandled, FailedWasTried, OneDispatcher

-----------------------------------------------------------------------------
(* Types.                                                                    *)

LEMMA LeavingTypes ==
  ASSUME OutboxTypeOK, NEW d \in Dispatchers, NEW e \in Events, Leaves(d, e)
  PROVE  /\ e \in batch[d] /\ working[d] = {e} /\ working' = [working EXCEPT ![d] = {}]
         /\ batch' = [batch EXCEPT ![d] = @ \ {e}]
         /\ batch' \in [Dispatchers -> SUBSET Events]
         /\ working' \in [Dispatchers -> SUBSET Events]
         /\ \A c \in Dispatchers : working'[c] \subseteq batch'[c]
         /\ \A c \in Dispatchers : \A f, g \in working'[c] : f = g
BY DEF Leaves, OutboxTypeOK

LEMMA TypeStep == OutboxTypeOK /\ [Next]_vars => OutboxTypeOK'
<1> SUFFICES ASSUME OutboxTypeOK, [Next]_vars PROVE OutboxTypeOK'
  OBVIOUS
<1>1. CASE UNCHANGED vars
  BY <1>1 DEF vars, OutboxTypeOK
<1>2. ASSUME NEW e \in Events, Enqueue(e) PROVE OutboxTypeOK'
  BY <1>2 DEF Enqueue, dispatcherVars, OutboxTypeOK
<1>3. ASSUME NEW S \in SUBSET Events, Reclaim(S) PROVE OutboxTypeOK'
  BY <1>3 DEF Reclaim, Held, dispatcherVars, OutboxTypeOK
<1>4. ASSUME NEW d \in Dispatchers, NEW S \in SUBSET Events, ClaimBatch(d, S)
      PROVE  OutboxTypeOK'
  <2>1. batch' \in [Dispatchers -> SUBSET Events] /\ seen' \in [Dispatchers -> [Events -> Nat]]
        /\ status' \in [Events -> Statuses]
    BY <1>4 DEF ClaimBatch, OutboxTypeOK, Statuses
  <2>2. \A c \in Dispatchers : working'[c] \subseteq batch'[c]
    BY <1>4 DEF ClaimBatch, OutboxTypeOK
  <2> QED
    BY <1>4, <2>1, <2>2 DEF ClaimBatch, OutboxTypeOK, Statuses
<1>5. ASSUME NEW d \in Dispatchers, NEW e \in Events, StartEvent(d, e) PROVE OutboxTypeOK'
  BY <1>5 DEF StartEvent, OutboxTypeOK
<1>6. ASSUME NEW d \in Dispatchers, NEW e \in Events, RunHandler(d, e) PROVE OutboxTypeOK'
  BY <1>6 DEF RunHandler, OutboxTypeOK
<1>7. ASSUME NEW d \in Dispatchers, NEW e \in Events, MarkProcessed(d, e) PROVE OutboxTypeOK'
  BY <1>7, LeavingTypes DEF MarkProcessed, Leaves, OutboxTypeOK
<1>8. ASSUME NEW d \in Dispatchers, NEW e \in Events, DispatchFails(d, e) PROVE OutboxTypeOK'
  <2>1. AttemptsAfter(d, e) \in Nat
    BY DEF AttemptsAfter, OutboxTypeOK
  <2>2. trouble' \in Nat
    BY <1>8 DEF DispatchFails, Trouble, OutboxTypeOK
  <2> QED
    BY <1>8, <2>1, <2>2, LeavingTypes DEF DispatchFails, Leaves, OutboxTypeOK
<1>9. ASSUME NEW d \in Dispatchers, Abandon(d) PROVE OutboxTypeOK'
  <2>1. trouble' \in Nat
    BY <1>9 DEF Abandon, Trouble, OutboxTypeOK
  <2> QED
    BY <1>9, <2>1 DEF Abandon, OutboxTypeOK
<1> QED
  BY <1>1, <1>2, <1>3, <1>4, <1>5, <1>6, <1>7, <1>8, <1>9 DEF Next, Dispatch

-----------------------------------------------------------------------------
(* What a mark says of a row.                                                *)

LEMMA ReachedStep == IInv /\ [Next]_vars => ReachedFollowsRan'
<1> SUFFICES ASSUME OutboxTypeOK, ReachedFollowsRan, [Next]_vars PROVE ReachedFollowsRan'
  BY DEF IInv
<1> USE DEF ReachedFollowsRan
<1>1. CASE UNCHANGED <<working, ran, reached>>
  BY <1>1
<1>2. ASSUME NEW e \in Events, Enqueue(e) PROVE ReachedFollowsRan'
  BY <1>1, <1>2 DEF Enqueue, dispatcherVars
<1>3. ASSUME NEW S \in SUBSET Events, Reclaim(S) PROVE ReachedFollowsRan'
  BY <1>1, <1>3 DEF Reclaim, dispatcherVars
<1>4. ASSUME NEW d \in Dispatchers, NEW S \in SUBSET Events, ClaimBatch(d, S)
      PROVE  ReachedFollowsRan'
  BY <1>1, <1>4 DEF ClaimBatch
<1>5. ASSUME NEW d \in Dispatchers, NEW e \in Events, StartEvent(d, e)
      PROVE  ReachedFollowsRan'
  BY <1>5 DEF StartEvent, OutboxTypeOK
<1>6. ASSUME NEW d \in Dispatchers, NEW e \in Events, RunHandler(d, e)
      PROVE  ReachedFollowsRan'
  <2>1. ran[d] \in Nat /\ reached[e] \in Nat /\ HandlersOf[e] \in Nat
        /\ ran[d] < HandlersOf[e] /\ reached[e] <= HandlersOf[e] /\ ran[d] <= reached[e]
    BY <1>6, OutboxAssumption DEF RunHandler, OutboxTypeOK
  <2>2. reached'[e] <= HandlersOf[e] /\ ran'[d] <= reached'[e] /\ reached[e] <= reached'[e]
        /\ reached'[e] \in Nat
    BY <1>6, <2>1 DEF RunHandler, OutboxTypeOK
  <2>3. \A f \in Events \ {e} : reached'[f] = reached[f]
    BY <1>6 DEF RunHandler, OutboxTypeOK
  <2>4. \A f \in working[d] : f = e
    BY <1>6 DEF RunHandler, OutboxTypeOK
  <2>5. ASSUME NEW c \in Dispatchers, NEW f \in working'[c] PROVE ran'[c] <= reached'[f]
    <3>1. f \in Events /\ f \in working[c] /\ ran[c] \in Nat /\ ran[c] <= reached[f]
      BY <1>6 DEF RunHandler, OutboxTypeOK
    <3>2. CASE c = d
      BY <2>2, <2>4, <3>1, <3>2
    <3>3. CASE c # d
      <4>1. ran'[c] = ran[c]
        BY <1>6, <3>3 DEF RunHandler, OutboxTypeOK
      <4> QED
        BY <2>1, <2>2, <2>3, <3>1, <4>1
    <3> QED
      BY <3>2, <3>3
  <2>6. \A f \in Events : reached'[f] <= HandlersOf[f]
    BY <2>2, <2>3
  <2> QED
    BY <2>5, <2>6
<1>7. ASSUME NEW d \in Dispatchers, NEW e \in Events, Leaves(d, e)
      PROVE  ReachedFollowsRan'
  BY <1>7 DEF Leaves, OutboxTypeOK
<1>8. ASSUME NEW d \in Dispatchers, Abandon(d) PROVE ReachedFollowsRan'
  BY <1>8 DEF Abandon, OutboxTypeOK
<1> QED
  BY <1>1, <1>2, <1>3, <1>4, <1>5, <1>6, <1>7, <1>8
  DEF Next, Dispatch, MarkProcessed, DispatchFails, vars

(* The steps that write no status but of the rows they name: the others keep *)
(* what their status says.                                                   *)
LEMMA MarksStep == IInv /\ [Next]_vars => ProcessedMeansHandled' /\ FailedWasTried'
<1> SUFFICES ASSUME IInv, [Next]_vars PROVE ProcessedMeansHandled' /\ FailedWasTried'
  OBVIOUS
<1> USE DEF IInv, ProcessedMeansHandled, FailedWasTried
<1>1. CASE UNCHANGED <<status, attempts, reached>>
  BY <1>1
<1>2. ASSUME NEW e \in Events, Enqueue(e)
      PROVE  ProcessedMeansHandled' /\ FailedWasTried'
  BY <1>2 DEF Enqueue, OutboxTypeOK
<1>3. ASSUME NEW S \in SUBSET Events, Reclaim(S)
      PROVE  ProcessedMeansHandled' /\ FailedWasTried'
  BY <1>3 DEF Reclaim
<1>4. ASSUME NEW d \in Dispatchers, NEW S \in SUBSET Events, ClaimBatch(d, S)
      PROVE  ProcessedMeansHandled' /\ FailedWasTried'
  BY <1>4 DEF ClaimBatch
<1>5. ASSUME NEW d \in Dispatchers, NEW e \in Events, StartEvent(d, e)
      PROVE  ProcessedMeansHandled' /\ FailedWasTried'
  BY <1>1, <1>5 DEF StartEvent
<1>6. ASSUME NEW d \in Dispatchers, NEW e \in Events, RunHandler(d, e)
      PROVE  ProcessedMeansHandled' /\ FailedWasTried'
  <2>1. ran[d] \in Nat /\ HandlersOf[e] \in Nat /\ ran[d] < HandlersOf[e]
    BY <1>6, OutboxAssumption DEF RunHandler, OutboxTypeOK
  <2>2. status[e] = "PROCESSED" => reached'[e] = reached[e]
    BY <1>6, <2>1 DEF RunHandler, OutboxTypeOK
  <2>3. \A f \in Events \ {e} : reached'[f] = reached[f]
    BY <1>6 DEF RunHandler, OutboxTypeOK
  <2> QED
    BY <1>6, <2>2, <2>3 DEF RunHandler
<1>7. ASSUME NEW d \in Dispatchers, NEW e \in Events, MarkProcessed(d, e)
      PROVE  ProcessedMeansHandled' /\ FailedWasTried'
  <2>1. e \in working[d] /\ ran[d] = HandlersOf[e] /\ UNCHANGED <<attempts, reached>>
        /\ status' = [status EXCEPT ![e] = "PROCESSED"]
    BY <1>7 DEF MarkProcessed, AllRan, Leaves
  <2>2. ran[d] <= reached[e] /\ reached[e] <= HandlersOf[e]
    BY <2>1 DEF ReachedFollowsRan
  <2>3. reached[e] \in Nat /\ HandlersOf[e] \in Nat
    BY OutboxAssumption DEF OutboxTypeOK
  <2>4. reached[e] = HandlersOf[e]
    BY <2>1, <2>2, <2>3
  <2> QED
    BY <2>1, <2>4 DEF OutboxTypeOK
<1>8. ASSUME NEW d \in Dispatchers, NEW e \in Events, DispatchFails(d, e)
      PROVE  ProcessedMeansHandled' /\ FailedWasTried'
  <2>1. /\ UNCHANGED reached
        /\ status' = [status EXCEPT ![e] = IF GivesUp(d, e) THEN "FAILED" ELSE "PENDING"]
        /\ attempts' = [attempts EXCEPT ![e] = AttemptsAfter(d, e)]
    BY <1>8 DEF DispatchFails, Leaves
  <2>2. GivesUp(d, e) => e \notin Immortal /\ AttemptsAfter(d, e) >= maxAttempts
    BY DEF GivesUp
  <2>3. \A f \in Events \ {e} : status'[f] = status[f] /\ attempts'[f] = attempts[f]
    BY <2>1 DEF OutboxTypeOK
  <2>4. attempts'[e] = AttemptsAfter(d, e) /\ status'[e] # "PROCESSED"
        /\ (status'[e] = "FAILED" => GivesUp(d, e))
    BY <2>1 DEF OutboxTypeOK
  <2> QED
    BY <2>1, <2>2, <2>3, <2>4
<1>9. ASSUME NEW d \in Dispatchers, Abandon(d)
      PROVE  ProcessedMeansHandled' /\ FailedWasTried'
  BY <1>1, <1>9 DEF Abandon
<1> QED
  BY <1>1, <1>2, <1>3, <1>4, <1>5, <1>6, <1>7, <1>8, <1>9 DEF Next, Dispatch, vars

-----------------------------------------------------------------------------
(* One dispatcher at a time.                                                 *)

(* A step that only takes rows out of batches, and leaves alone the status   *)
(* and the attempts of the rows that stay.                                   *)
LEMMA Shrinking ==
  ASSUME OneDispatcher, UNCHANGED <<seen, overrun>>,
         \A d \in Dispatchers : \A e \in batch'[d] :
           e \in batch[d] /\ status'[e] = status[e] /\ attempts'[e] = attempts[e]
  PROVE  OneDispatcher'
BY DEF OneDispatcher

LEMMA OneDispatcherStep == IInv /\ [Next]_vars => OneDispatcher'
<1> SUFFICES ASSUME OutboxTypeOK, OneDispatcher, [Next]_vars PROVE OneDispatcher'
  BY DEF IInv
<1>1. CASE UNCHANGED <<status, attempts, batch, seen, overrun>>
  BY <1>1, Shrinking
<1>2. ASSUME NEW e \in Events, Enqueue(e) PROVE OneDispatcher'
  BY <1>2 DEF Enqueue, dispatcherVars, OneDispatcher, OutboxTypeOK
<1>3. ASSUME NEW S \in SUBSET Events, Reclaim(S) PROVE OneDispatcher'
  <2>1. SUFFICES ASSUME ~overrun' PROVE OneDispatcher'
    BY DEF OneDispatcher
  <2>2. ~overrun /\ UNCHANGED <<batch, seen, attempts>>
        /\ \A d \in Dispatchers : \A e \in batch[d] : e \notin S
    BY <1>3, <2>1 DEF Reclaim, Held, dispatcherVars
  <2>3. \A d \in Dispatchers : \A e \in batch[d] : status'[e] = status[e]
    BY <1>3, <2>2 DEF Reclaim, OutboxTypeOK
  <2> QED
    BY <2>2, <2>3 DEF OneDispatcher
<1>4. ASSUME NEW d \in Dispatchers, NEW S \in SUBSET Events, ClaimBatch(d, S)
      PROVE  OneDispatcher'
  <2>1. SUFFICES ASSUME ~overrun PROVE OneDispatcher'
    BY <1>4 DEF ClaimBatch, OneDispatcher
  <2>2. /\ UNCHANGED <<attempts, overrun>>
        /\ \A e \in S : e \in Events /\ status[e] = "PENDING" /\ status'[e] = "PROCESSING"
        /\ \A e \in Events \ S : status'[e] = status[e]
        /\ batch'[d] = S /\ \A e \in S : seen'[d][e] = attempts[e]
        /\ \A c \in Dispatchers \ {d} : batch'[c] = batch[c] /\ seen'[c] = seen[c]
    BY <1>4 DEF ClaimBatch, Due, OutboxTypeOK
  <2>3. \A c \in Dispatchers : \A e \in batch[c] : e \in Events \ S
    BY <2>1, <2>2 DEF OneDispatcher, OutboxTypeOK
  <2> SUFFICES ASSUME NEW c \in Dispatchers, NEW e \in batch'[c]
               PROVE  /\ status'[e] = "PROCESSING" /\ seen'[c][e] = attempts'[e]
                      /\ \A b \in Dispatchers : e \in batch'[b] => b = c
    BY DEF OneDispatcher
  <2>4. CASE c = d
    BY <2>2, <2>3, <2>4
  <2>5. CASE c # d
    BY <2>1, <2>2, <2>3, <2>5 DEF OneDispatcher
  <2> QED
    BY <2>4, <2>5
<1>5. ASSUME NEW d \in Dispatchers, NEW e \in Events, StartEvent(d, e) \/ RunHandler(d, e)
      PROVE  OneDispatcher'
  BY <1>1, <1>5 DEF StartEvent, RunHandler
<1>6. ASSUME NEW d \in Dispatchers, NEW e \in Events,
             MarkProcessed(d, e) \/ DispatchFails(d, e)
      PROVE  OneDispatcher'
  <2>1. SUFFICES ASSUME ~overrun PROVE OneDispatcher'
    BY <1>6 DEF MarkProcessed, DispatchFails, Leaves, OneDispatcher
  <2>2. /\ e \in batch[d] /\ batch' = [batch EXCEPT ![d] = @ \ {e}]
        /\ UNCHANGED <<seen, overrun>>
        /\ \A f \in Events \ {e} : status'[f] = status[f] /\ attempts'[f] = attempts[f]
    BY <1>6 DEF MarkProcessed, DispatchFails, Leaves, OutboxTypeOK
  <2>3. \A c \in Dispatchers : \A f \in batch'[c] : f \in batch[c] /\ f \in Events \ {e}
    BY <2>1, <2>2 DEF OneDispatcher, OutboxTypeOK
  <2> QED
    BY <2>2, <2>3, Shrinking
<1>7. ASSUME NEW d \in Dispatchers, Abandon(d) PROVE OneDispatcher'
  BY <1>7, Shrinking DEF Abandon, OutboxTypeOK
<1> QED
  BY <1>1, <1>2, <1>3, <1>4, <1>5, <1>6, <1>7 DEF Next, Dispatch, vars

LEMMA StepHolds == IInv /\ [Next]_vars => IInv'
BY TypeStep, ReachedStep, MarksStep, OneDispatcherStep DEF IInv

-----------------------------------------------------------------------------
(* The invariant holds in every reachable state.                             *)
THEOREM Invariance == Spec => []IInv
BY InitHolds, StepHolds, PTL DEF Spec

(* Every variable of the outbox and of its dispatchers keeps its type.       *)
THEOREM OutboxTypeCorrect == Spec => []OutboxTypeOK
BY Invariance, PTL DEF IInv

(* A row marked PROCESSED has had all its handlers succeed, even when locks  *)
(* expire under working dispatchers and several run the same row.            *)
THEOREM ProcessedRowsWereHandled == Spec => []ProcessedMeansHandled
BY Invariance, PTL DEF IInv

(* A row marked FAILED is not immortal and was tried maxAttempts times.      *)
THEOREM FailedRowsWereTried == Spec => []FailedWasTried
BY Invariance, PTL DEF IInv

(* Until a batch outlives its lock, a row is with one dispatcher at a time.  *)
THEOREM RowsHaveOneDispatcher == Spec => []OneDispatcher
BY Invariance, PTL DEF IInv

-----------------------------------------------------------------------------
(* While no lock has expired early.                                          *)

(* What a dispatcher holds is PROCESSING, and its own.                       *)
LEMMA WorkedOnIsOwed ==
  ASSUME IInv, ~overrun, NEW d \in Dispatchers, NEW e \in working[d]
  PROVE  e \in Events /\ status[e] = "PROCESSING" /\ seen[d][e] = attempts[e]
BY DEF IInv, OutboxTypeOK, OneDispatcher

LEMMA AttemptsStep ==
  IInv /\ [Next]_vars => (~overrun => \A e \in Events : attempts'[e] >= attempts[e])
<1> SUFFICES ASSUME IInv, [Next]_vars, ~overrun
             PROVE  \A e \in Events : attempts'[e] >= attempts[e]
  OBVIOUS
<1>1. \A e \in Events : attempts[e] \in Nat
  BY DEF IInv, OutboxTypeOK
<1>2. CASE UNCHANGED attempts
  BY <1>1, <1>2
<1>3. ASSUME NEW d \in Dispatchers, NEW e \in Events, DispatchFails(d, e)
      PROVE  \A f \in Events : attempts'[f] >= attempts[f]
  <2>1. seen[d][e] = attempts[e]
    BY <1>3, WorkedOnIsOwed DEF DispatchFails, Leaves
  <2>2. attempts' = [attempts EXCEPT ![e] = attempts[e] + 1]
    BY <1>3, <2>1 DEF DispatchFails, AttemptsAfter
  <2> QED
    BY <1>1, <2>2 DEF IInv, OutboxTypeOK
<1> QED
  BY <1>2, <1>3 DEF Next, Dispatch, Enqueue, Reclaim, ClaimBatch, StartEvent, RunHandler,
                    MarkProcessed, Abandon, vars

(* A row whose status moves within PENDING and PROCESSING stays owed.        *)
LEMMA PhaseValues ==
  ASSUME NEW e
  PROVE  /\ status[e] = "absent" => Phase(e) = "absent"
         /\ status[e] \in {"PENDING", "PROCESSING"} => Phase(e) = "owed"
         /\ status[e] = "PROCESSED" => Phase(e) = "done"
         /\ status[e] = "FAILED" => Phase(e) = "given_up"
         /\ status'[e] = "absent" => Phase(e)' = "absent"
         /\ status'[e] \in {"PENDING", "PROCESSING"} => Phase(e)' = "owed"
         /\ status'[e] = "PROCESSED" => Phase(e)' = "done"
         /\ status'[e] = "FAILED" => Phase(e)' = "given_up"
         /\ status'[e] = status[e] => Phase(e)' = Phase(e)
BY DEF Phase

LEMMA PromiseInit == Init => Promise!Init
<1> SUFFICES ASSUME Init PROVE Promise!Init
  OBVIOUS
<1>1. \A e \in Events : Phase(e) = "absent"
  BY PhaseValues DEF Init
<1> QED
  BY <1>1 DEF Init, Promise!Init

(* A step that leaves every phase and every success where it is.             *)
LEMMA PromiseStutter ==
  ASSUME UNCHANGED reached, \A e \in Events : Phase(e)' = Phase(e)
  PROVE  UNCHANGED Promise!vars
BY DEF Promise!vars

(* A step that moves the phase of one row, by one of the promise's actions.  *)
LEMMA PromiseMove ==
  ASSUME NEW e \in Events, UNCHANGED reached,
         \A f \in Events \ {e} : Phase(f)' = Phase(f),
         \/ Phase(e) = "absent" /\ Phase(e)' = "owed"
         \/ Phase(e) = "owed" /\ Phase(e)' = "done" /\ reached[e] = HandlersOf[e]
         \/ Phase(e) = "owed" /\ Phase(e)' = "given_up" /\ e \notin Immortal
  PROVE  Promise!Next
<1>1. CASE Phase(e) = "absent" /\ Phase(e)' = "owed"
  BY <1>1 DEF Promise!Next, Promise!Record
<1>2. CASE Phase(e) = "owed" /\ Phase(e)' = "done" /\ reached[e] = HandlersOf[e]
  BY <1>2 DEF Promise!Next, Promise!Finish
<1>3. CASE Phase(e) = "owed" /\ Phase(e)' = "given_up" /\ e \notin Immortal
  BY <1>3 DEF Promise!Next, Promise!GiveUp
<1> QED
  BY <1>1, <1>2, <1>3

LEMMA PromiseStep ==
  IInv /\ [Next]_vars => [~overrun => Promise!Next]_(Promise!vars)
<1> SUFFICES ASSUME IInv, [Next]_vars, ~overrun
             PROVE  Promise!Next \/ UNCHANGED Promise!vars
  OBVIOUS
<1> DEFINE Goal == Promise!Next \/ UNCHANGED Promise!vars
<1>1. status \in [Events -> Statuses]
  BY DEF IInv, OutboxTypeOK, Statuses
<1>2. CASE UNCHANGED <<status, reached>>
  BY <1>2, PhaseValues, PromiseStutter
<1>3. ASSUME NEW e \in Events, Enqueue(e) PROVE Goal
  <2>1. \A f \in Events \ {e} : Phase(f)' = Phase(f)
    BY <1>1, <1>3, PhaseValues DEF Enqueue
  <2>2. Phase(e) = "absent" /\ Phase(e)' = "owed" /\ UNCHANGED reached
    BY <1>1, <1>3, PhaseValues DEF Enqueue
  <2> QED
    BY <2>1, <2>2, PromiseMove
<1>4. ASSUME NEW S \in SUBSET Events, Reclaim(S) PROVE Goal
  <2>1. \A e \in Events : Phase(e)' = Phase(e)
    BY <1>4, PhaseValues DEF Reclaim, StaleLock
  <2> QED
    BY <1>4, <2>1, PromiseStutter DEF Reclaim
<1>5. ASSUME NEW d \in Dispatchers, NEW S \in SUBSET Events, ClaimBatch(d, S) PROVE Goal
  <2>1. \A e \in Events : Phase(e)' = Phase(e)
    BY <1>5, PhaseValues DEF ClaimBatch, Due
  <2> QED
    BY <1>5, <2>1, PromiseStutter DEF ClaimBatch
<1>6. ASSUME NEW d \in Dispatchers, NEW e \in Events, RunHandler(d, e) PROVE Goal
  <2>1. status[e] = "PROCESSING" /\ Phase(e) = "owed"
    BY <1>6, WorkedOnIsOwed, PhaseValues DEF RunHandler
  <2>2. \A f \in Events : Phase(f)' = Phase(f)
    BY <1>6, PhaseValues DEF RunHandler
  <2>3. ran[d] \in Nat /\ reached[e] \in Nat /\ HandlersOf[e] \in Nat
        /\ ran[d] <= reached[e] /\ ran[d] < HandlersOf[e]
    BY <1>6, OutboxAssumption DEF RunHandler, IInv, OutboxTypeOK, ReachedFollowsRan
  <2>4. CASE reached[e] < ran[d] + 1
    <3>1. ran[d] = reached[e] /\ reached[e] < HandlersOf[e]
      BY <2>3, <2>4
    <3>2. reached' = [reached EXCEPT ![e] = reached[e] + 1]
      BY <1>6, <2>4, <3>1 DEF RunHandler
    <3>3. Promise!Act(e)
      BY <2>1, <2>2, <3>1, <3>2 DEF Promise!Act
    <3> QED
      BY <3>3 DEF Promise!Next
  <2>5. CASE ~(reached[e] < ran[d] + 1)
    <3>1. reached' = [reached EXCEPT ![e] = reached[e]] /\ reached \in [Events -> Nat]
      BY <1>6, <2>5 DEF RunHandler, IInv, OutboxTypeOK
    <3>2. reached' = reached
      BY <3>1
    <3> QED
      BY <2>2, <3>2, PromiseStutter
  <2> QED
    BY <2>4, <2>5
<1>7. ASSUME NEW d \in Dispatchers, NEW e \in Events, MarkProcessed(d, e) PROVE Goal
  <2>1. status[e] = "PROCESSING" /\ Phase(e) = "owed"
    BY <1>7, WorkedOnIsOwed, PhaseValues DEF MarkProcessed, Leaves
  <2>2. Phase(e)' = "done" /\ \A f \in Events \ {e} : Phase(f)' = Phase(f)
    BY <1>1, <1>7, PhaseValues DEF MarkProcessed
  <2>3. status'[e] = "PROCESSED" /\ UNCHANGED reached
    BY <1>1, <1>7 DEF MarkProcessed, Leaves
  <2>4. reached[e] = HandlersOf[e]
    BY <2>3, MarksStep DEF ProcessedMeansHandled
  <2> QED
    BY <2>1, <2>2, <2>3, <2>4, PromiseMove
<1>8. ASSUME NEW d \in Dispatchers, NEW e \in Events, DispatchFails(d, e) PROVE Goal
  <2>1. status[e] = "PROCESSING" /\ Phase(e) = "owed" /\ UNCHANGED reached
    BY <1>8, WorkedOnIsOwed, PhaseValues DEF DispatchFails, Leaves
  <2>2. \A f \in Events \ {e} : Phase(f)' = Phase(f)
    BY <1>1, <1>8, PhaseValues DEF DispatchFails
  <2>3. CASE GivesUp(d, e)
    <3>1. Phase(e)' = "given_up" /\ e \notin Immortal
      BY <1>1, <1>8, <2>3, PhaseValues DEF DispatchFails, GivesUp
    <3> QED
      BY <2>1, <2>2, <3>1, PromiseMove
  <2>4. CASE ~GivesUp(d, e)
    <3>1. Phase(e)' = "owed"
      BY <1>1, <1>8, <2>4, PhaseValues DEF DispatchFails
    <3>2. \A f \in Events : Phase(f)' = Phase(f)
      BY <2>1, <2>2, <3>1
    <3> QED
      BY <2>1, <3>2, PromiseStutter
  <2> QED
    BY <2>3, <2>4
<1> QED
  BY <1>2, <1>3, <1>4, <1>5, <1>6, <1>7, <1>8
  DEF Next, Dispatch, StartEvent, Abandon, vars

(* Until a batch outlives its lock, markRetry and markFailed count every     *)
(* failure: the attempts of a row never go back.                             *)
THEOREM AttemptsAreKept == Spec => AttemptsNeverGoBack
<1>1. IInv /\ [Next]_vars => [~overrun => \A e \in Events : attempts'[e] >= attempts[e]]_vars
  BY AttemptsStep
<1> QED
  BY Invariance, <1>1, PTL DEF Spec, AttemptsNeverGoBack

(* Until a batch outlives its lock, the outbox implements at-least-once      *)
(* delivery of each row to each of its handlers in order.                    *)
THEOREM PromiseIsKept == Spec => KeepsPromise
BY Invariance, PromiseInit, PromiseStep, PTL DEF Spec, KeepsPromise

-----------------------------------------------------------------------------
(*                                Fulfilment                                 *)

Reversals == {"full", "voided"}
FulfilmentTypeOK ==
  /\ phase \in [Orders -> {"unpaid", "paid", "refunded", "voided", "closed"}]
  /\ announced \in [Orders -> SUBSET (Kinds \cup {"partial"})]
  /\ handled \in [Orders -> [Kinds -> SUBSET {"entitlement", "licensing"}]]
  /\ done \in [Orders -> SUBSET Kinds]
  /\ ent \in [status : {"none", "active", "suspended"}, order : Orders \cup {NoOrder}, terms : Nat]
  /\ licence \in {"none", "active", "suspended"}
  /\ matched \subseteq Orders \X Reversals
  /\ overtaken \subseteq Orders

(* What an order stands at and what was announced of it.                     *)
AnnouncedPhases ==
  \A o \in Orders :
    /\ phase[o] \in {"unpaid", "closed"} => announced[o] = {}
    /\ phase[o] \in {"paid", "refunded"} => "paid" \in announced[o]
    /\ "full" \in announced[o] <=> phase[o] = "refunded"
    /\ "voided" \in announced[o] <=> phase[o] = "voided"

(* The handling of one row: a row that is done was announced and ran all its *)
(* handlers; a reversal about to suspend has not been handled yet.           *)
Row(o, k) ==
  /\ k \in done[o] => k \in announced[o] /\ handled[o][k] = Handlers(k)
  /\ handled[o][k] # {} => k \in announced[o]
  /\ <<o, k>> \in matched => k # "paid" /\ Owed(o, k) /\ handled[o][k] = {}

HandlingInv == \A o \in Orders, k \in Kinds : Row(o, k)

(* Orders whose grant has run and was not taken back by a retry, and with    *)
(* them the order the entitlement is for.                                    *)
Granted == {o \in Orders : handled[o]["paid"] # {}}
Served == Granted \cup ({ent.order} \ {NoOrder})

(* Entitlement and licence, and what they say of the orders.                 *)
AccessInv ==
  /\ ent.status = "none" <=> ent.order = NoOrder
  /\ ent.order \in Orders => "paid" \in announced[ent.order]
  /\ licence # "none" => ent.status # "none"
  /\ (\E o \in Orders : TakenBack(o)) \/ (ent.status # "suspended" /\ licence # "suspended")
  /\ Granted # {} => ent.status # "none"
  /\ matched # {} => ent.status # "none"
  /\ ent.order \in Orders /\ "licensing" \in handled[ent.order]["paid"] => licence # "none"

(* While nothing is taken back, every order served has its term: a replay    *)
(* that is not recognised only adds one.                                     *)
TermsInv ==
  /\ IsFiniteSet(Served)
  /\ (\A o \in Orders : ~TakenBack(o)) => ent.terms >= Cardinality(Served)

(* What a reversal in time leaves behind.                                    *)
ReversedInv ==
  \A o \in Orders \ overtaken : \A k \in Reversals :
    handled[o][k] # {} => /\ ~Owed(o, "paid")
                          /\ ent.order = o => ent.status = "suspended"

FulfilmentInv ==
  /\ FulfilmentTypeOK
  /\ AnnouncedPhases
  /\ HandlingInv
  /\ AccessInv
  /\ TermsInv
  /\ ReversedInv

LEMMA FulfilmentInitHolds == FulfilmentInit => FulfilmentInv
<1> SUFFICES ASSUME FulfilmentInit PROVE FulfilmentInv
  OBVIOUS
<1> USE FulfilmentAssumption DEF FulfilmentInit, Commerce!Init
<1>1. FulfilmentTypeOK
  BY DEF FulfilmentTypeOK
<1>2. AnnouncedPhases /\ HandlingInv /\ ReversedInv
  BY DEF AnnouncedPhases, HandlingInv, Row, ReversedInv, Kinds, Reversals
<1>3. Granted = {} /\ Served = {}
  BY DEF Granted, Served, Kinds
<1>4. AccessInv
  BY <1>3 DEF AccessInv
<1>5. TermsInv
  BY <1>3, FS_EmptySet DEF TermsInv
<1> QED
  BY <1>1, <1>2, <1>4, <1>5 DEF FulfilmentInv

-----------------------------------------------------------------------------
(* What a step of the shop leaves as it is: what was announced stays so, an  *)
(* order taken back stays so, and only an unpaid order is announced as paid. *)
LEMMA ShopEffect ==
  ASSUME FulfilmentTypeOK, AnnouncedPhases, Shop
  PROVE  /\ phase' \in [Orders -> {"unpaid", "paid", "refunded", "voided", "closed"}]
         /\ announced' \in [Orders -> SUBSET (Kinds \cup {"partial"})]
         /\ AnnouncedPhases'
         /\ \A o \in Orders : announced[o] \subseteq announced'[o]
         /\ \A o \in Orders : TakenBack(o) => TakenBack(o)'
         /\ \A o \in Orders : "paid" \in announced'[o] \ announced[o] => announced[o] = {}
<1> USE DEF FulfilmentTypeOK, Kinds
<1>1. PICK o \in Orders :
        \/ Commerce!Pay(o) \/ Commerce!RefundPart(o) \/ Commerce!RefundAll(o)
        \/ Commerce!Void(o) \/ Commerce!Close(o)
  BY DEF Shop, Commerce!Next
<1> USE DEF Commerce!Moves, AnnouncedPhases, TakenBack
<1>2. CASE Commerce!Pay(o)
  BY <1>2 DEF Commerce!Pay
<1>3. CASE Commerce!RefundPart(o)
  BY <1>3 DEF Commerce!RefundPart
<1>4. CASE Commerce!RefundAll(o)
  BY <1>4 DEF Commerce!RefundAll
<1>5. CASE Commerce!Void(o)
  BY <1>5 DEF Commerce!Void
<1>6. CASE Commerce!Close(o)
  BY <1>6 DEF Commerce!Close
<1> QED
  BY <1>1, <1>2, <1>3, <1>4, <1>5, <1>6

(* The steps that handle rows leave the orders alone.                        *)
Handles ==
  \E o \in Orders :
    \/ Grant(o) \/ Provision(o)
    \/ \E k \in Kinds :
         \/ FindAccess(o, k) \/ FindNothing(o, k) \/ Suspend(o, k)
         \/ Retry(o, k) \/ Finish(o, k)

LEMMA HandlesEffect ==
  ASSUME Handles
  PROVE  UNCHANGED <<phase, announced>>
BY DEF Handles, Grant, Provision, FindAccess, FindNothing, Suspend, Retry, Finish, Succeeds

LEMMA AnnouncedStep ==
  ASSUME FulfilmentTypeOK, AnnouncedPhases, [FulfilmentNext]_fulfilmentVars
  PROVE  AnnouncedPhases'
<1>1. CASE Shop
  BY <1>1, ShopEffect
<1>2. CASE Handles
  BY <1>2, HandlesEffect DEF AnnouncedPhases
<1>3. CASE UNCHANGED fulfilmentVars
  BY <1>3 DEF fulfilmentVars, AnnouncedPhases
<1> QED
  BY <1>1, <1>2, <1>3 DEF FulfilmentNext, Handles

LEMMA FulfilmentTypeStep ==
  ASSUME FulfilmentTypeOK, AnnouncedPhases, HandlingInv, [FulfilmentNext]_fulfilmentVars
  PROVE  FulfilmentTypeOK'
<1> USE DEF FulfilmentTypeOK
<1>1. CASE Shop
  BY <1>1, ShopEffect DEF Shop
<1>2. ASSUME NEW o \in Orders, NEW k \in Kinds, NEW h \in {"entitlement", "licensing"},
             Succeeds(o, k, h)
      PROVE  handled' \in [Orders -> [Kinds -> SUBSET {"entitlement", "licensing"}]]
  BY <1>2 DEF Succeeds
<1>3. ASSUME NEW o \in Orders, OvertakenBy(o) PROVE overtaken' \subseteq Orders
  BY <1>3 DEF OvertakenBy
<1>4. ASSUME NEW o \in Orders, Grant(o) PROVE FulfilmentTypeOK'
  <2>1. ent' \in [status : {"none", "active", "suspended"}, order : Orders \cup {NoOrder},
                  terms : Nat]
    BY <1>4 DEF Grant, TermsAfterGrant
  <2> QED
    BY <1>2, <1>4, <2>1 DEF Grant, Succeeds, Kinds
<1>5. ASSUME NEW o \in Orders, Provision(o) PROVE FulfilmentTypeOK'
  BY <1>2, <1>5 DEF Provision, Succeeds, Kinds
<1>6. ASSUME NEW o \in Orders, NEW k \in Kinds, FindAccess(o, k) PROVE FulfilmentTypeOK'
  BY <1>6 DEF FindAccess, Kinds, Reversals
<1>7. ASSUME NEW o \in Orders, NEW k \in Kinds, FindNothing(o, k) PROVE FulfilmentTypeOK'
  BY <1>2, <1>3, <1>7 DEF FindNothing, Succeeds, accessVars
<1>8. ASSUME NEW o \in Orders, NEW k \in Kinds, Suspend(o, k) PROVE FulfilmentTypeOK'
  BY <1>2, <1>3, <1>8 DEF Suspend, Succeeds, LicenceSuspended
<1>9. ASSUME NEW o \in Orders, NEW k \in Kinds, Retry(o, k) PROVE FulfilmentTypeOK'
  BY <1>9 DEF Retry
<1>10. ASSUME NEW o \in Orders, NEW k \in Kinds, Finish(o, k) PROVE FulfilmentTypeOK'
  BY <1>10 DEF Finish
<1>11. CASE UNCHANGED fulfilmentVars
  BY <1>11 DEF fulfilmentVars
<1> QED
  BY <1>1, <1>4, <1>5, <1>6, <1>7, <1>8, <1>9, <1>10, <1>11 DEF FulfilmentNext

(* What each step does to the handlers that have succeeded.                  *)
HandledBecomes(o, k, S) ==
  \A p \in Orders, j \in Kinds : handled'[p][j] = IF p = o /\ j = k THEN S ELSE handled[p][j]

LEMMA SucceedsEffect ==
  ASSUME FulfilmentTypeOK, NEW o \in Orders, NEW k \in Kinds, NEW h, Succeeds(o, k, h)
  PROVE  HandledBecomes(o, k, handled[o][k] \cup {h}) /\ UNCHANGED <<phase, announced, done>>
BY DEF Succeeds, FulfilmentTypeOK, HandledBecomes

LEMMA GrantEffect ==
  ASSUME FulfilmentTypeOK, NEW o \in Orders, Grant(o)
  PROVE  /\ HandledBecomes(o, "paid", {"entitlement"})
         /\ UNCHANGED <<phase, announced, done, licence, matched, overtaken>>
<1>1. "paid" \in Kinds /\ Succeeds(o, "paid", "entitlement") /\ handled[o]["paid"] = {}
  BY DEF Kinds, Grant
<1>2. HandledBecomes(o, "paid", {} \cup {"entitlement"}) /\ UNCHANGED <<phase, announced, done>>
  BY <1>1, SucceedsEffect
<1> QED
  BY <1>2 DEF Grant

LEMMA ProvisionEffect ==
  ASSUME FulfilmentTypeOK, NEW o \in Orders, Provision(o)
  PROVE  /\ HandledBecomes(o, "paid", {"entitlement", "licensing"})
         /\ UNCHANGED <<phase, announced, done, ent, matched, overtaken>>
<1>1. /\ "paid" \in Kinds /\ Succeeds(o, "paid", "licensing")
      /\ handled[o]["paid"] = {"entitlement"}
  BY DEF Kinds, Provision
<1>2. /\ HandledBecomes(o, "paid", {"entitlement"} \cup {"licensing"})
      /\ UNCHANGED <<phase, announced, done>>
  BY <1>1, SucceedsEffect
<1>3. {"entitlement"} \cup {"licensing"} = {"entitlement", "licensing"}
  OBVIOUS
<1> QED
  BY <1>2, <1>3 DEF Provision

LEMMA FindNothingEffect ==
  ASSUME FulfilmentTypeOK, NEW o \in Orders, NEW k \in Kinds, FindNothing(o, k)
  PROVE  /\ HandledBecomes(o, k, {"entitlement"})
         /\ UNCHANGED <<phase, announced, done, ent, licence, matched>>
<1>1. HandledBecomes(o, k, {} \cup {"entitlement"}) /\ UNCHANGED <<phase, announced, done>>
  BY SucceedsEffect DEF FindNothing
<1> QED
  BY <1>1 DEF FindNothing, accessVars

LEMMA SuspendEffect ==
  ASSUME FulfilmentTypeOK, HandlingInv, NEW o \in Orders, NEW k \in Kinds, Suspend(o, k)
  PROVE  /\ HandledBecomes(o, k, {"entitlement"})
         /\ UNCHANGED <<phase, announced, done>>
<1>1. handled[o][k] = {}
  BY DEF HandlingInv, Row, Suspend
<1>2. HandledBecomes(o, k, {} \cup {"entitlement"}) /\ UNCHANGED <<phase, announced, done>>
  BY <1>1, SucceedsEffect DEF Suspend
<1> QED
  BY <1>2

LEMMA RetryEffect ==
  ASSUME FulfilmentTypeOK, NEW o \in Orders, NEW k \in Kinds, Retry(o, k)
  PROVE  HandledBecomes(o, k, {})
BY DEF Retry, FulfilmentTypeOK, HandledBecomes

LEMMA HandlingStep ==
  ASSUME FulfilmentTypeOK, AnnouncedPhases, HandlingInv, [FulfilmentNext]_fulfilmentVars
  PROVE  HandlingInv'
<1> SUFFICES ASSUME NEW p \in Orders, NEW j \in Kinds PROVE Row(p, j)'
  BY DEF HandlingInv
<1>1. Row(p, j)
  BY DEF HandlingInv
<1> USE DEF Row, Owed
<1>2. CASE Shop
  BY <1>1, <1>2, ShopEffect DEF Shop
<1>3. ASSUME NEW o \in Orders, Grant(o) PROVE Row(p, j)'
  BY <1>1, <1>3, GrantEffect DEF Grant, HandledBecomes
<1>4. ASSUME NEW o \in Orders, Provision(o) PROVE Row(p, j)'
  BY <1>1, <1>4, ProvisionEffect DEF Provision, HandledBecomes
<1>5. ASSUME NEW o \in Orders, NEW k \in Kinds, FindAccess(o, k) PROVE Row(p, j)'
  BY <1>1, <1>5 DEF FindAccess
<1>6. ASSUME NEW o \in Orders, NEW k \in Kinds, FindNothing(o, k) PROVE Row(p, j)'
  BY <1>1, <1>6, FindNothingEffect DEF FindNothing, HandledBecomes
<1>7. ASSUME NEW o \in Orders, NEW k \in Kinds, Suspend(o, k) PROVE Row(p, j)'
  <2>1. Row(o, k)
    BY DEF HandlingInv
  <2> QED
    BY <1>1, <1>7, <2>1, SuspendEffect DEF Suspend, HandledBecomes
<1>8. ASSUME NEW o \in Orders, NEW k \in Kinds, Retry(o, k) PROVE Row(p, j)'
  <2>1. HandledBecomes(o, k, {})
    BY <1>8, RetryEffect
  <2> QED
    BY <1>1, <1>8, <2>1 DEF Retry, HandledBecomes
<1>9. ASSUME NEW o \in Orders, NEW k \in Kinds, Finish(o, k) PROVE Row(p, j)'
  <2>1. Handlers(k) # {}
    BY DEF Handlers
  <2>2. done'[p] = IF p = o THEN done[p] \cup {k} ELSE done[p]
    BY <1>9 DEF Finish, FulfilmentTypeOK
  <2> QED
    BY <1>1, <1>9, <2>1, <2>2 DEF Finish
<1>10. CASE UNCHANGED fulfilmentVars
  BY <1>1, <1>10 DEF fulfilmentVars
<1> QED
  BY <1>2, <1>3, <1>4, <1>5, <1>6, <1>7, <1>8, <1>9, <1>10 DEF FulfilmentNext

-----------------------------------------------------------------------------
(* A reversal that found the entitlement is owed by an order taken back.     *)
LEMMA MatchedIsTakenBack ==
  ASSUME FulfilmentTypeOK, AnnouncedPhases, HandlingInv, NEW o \in Orders, NEW k \in Kinds,
         <<o, k>> \in matched
  PROVE  TakenBack(o)
<1>1. k \in {"full", "voided"} /\ k \in announced[o]
  BY DEF HandlingInv, Row, Owed, Kinds
<1> QED
  BY <1>1 DEF AnnouncedPhases, TakenBack

LEMMA AccessStep ==
  ASSUME FulfilmentInv, [FulfilmentNext]_fulfilmentVars
  PROVE  AccessInv'
<1> USE DEF FulfilmentInv
<1>1. CASE Shop
  BY <1>1, ShopEffect DEF Shop, AccessInv, Granted
<1>2. ASSUME Handles PROVE \A o \in Orders : TakenBack(o)' <=> TakenBack(o)
  BY <1>2, HandlesEffect DEF TakenBack
<1>3. "paid" \in Kinds
  BY DEF Kinds
<1>4. ASSUME NEW o \in Orders, Grant(o) PROVE AccessInv'
  <2>1. /\ HandledBecomes(o, "paid", {"entitlement"})
        /\ UNCHANGED <<phase, announced, done, licence, matched, overtaken>>
    BY <1>4, GrantEffect
  <2>2. "paid" \in announced[o]
    BY <1>4 DEF Grant, Owed
  <2>3. CASE IsReplay(o)
    <3>1. ent' = ent /\ ent.order = o
      BY <1>4, <2>3 DEF Grant, IsReplay
    <3> QED
      BY <1>3, <2>1, <3>1, FulfilmentAssumption
      DEF AccessInv, Granted, HandledBecomes, TakenBack
  <2>4. CASE ~IsReplay(o)
    <3>1. ent' = [status |-> "active", order |-> o, terms |-> TermsAfterGrant]
      BY <1>4, <2>4 DEF Grant
    <3> QED
      BY <1>3, <2>1, <2>2, <3>1, FulfilmentAssumption
      DEF AccessInv, Granted, HandledBecomes, TakenBack
  <2> QED
    BY <2>3, <2>4
<1>5. ASSUME NEW o \in Orders, Provision(o) PROVE AccessInv'
  <2>1. /\ HandledBecomes(o, "paid", {"entitlement", "licensing"})
        /\ UNCHANGED <<phase, announced, done, ent, matched, overtaken>>
    BY <1>5, ProvisionEffect
  <2>2. /\ ent.status # "none"
        /\ licence' = IF ent.order = o /\ licence = "none" THEN "active" ELSE licence
    BY <1>3, <1>5 DEF Provision, AccessInv, Granted
  <2> QED
    BY <1>3, <2>1, <2>2 DEF AccessInv, Granted, HandledBecomes, TakenBack
<1>6. ASSUME NEW o \in Orders, NEW k \in Kinds, FindAccess(o, k) PROVE AccessInv'
  <2>1. ent.status # "none"
    BY <1>6, FulfilmentAssumption DEF FindAccess, Matches, AccessInv
  <2> QED
    BY <1>6, <2>1 DEF FindAccess, AccessInv, Granted, TakenBack
<1>7. ASSUME NEW o \in Orders, NEW k \in Kinds, FindNothing(o, k) PROVE AccessInv'
  <2>1. /\ HandledBecomes(o, k, {"entitlement"}) /\ k # "paid"
        /\ UNCHANGED <<phase, announced, done, ent, licence, matched>>
    BY <1>7, FindNothingEffect DEF FindNothing
  <2> QED
    BY <1>3, <2>1 DEF AccessInv, Granted, HandledBecomes, TakenBack
<1>8. ASSUME NEW o \in Orders, NEW k \in Kinds, Suspend(o, k) PROVE AccessInv'
  <2>1. /\ HandledBecomes(o, k, {"entitlement"}) /\ k # "paid"
        /\ UNCHANGED <<phase, announced, done>>
    BY <1>8, SuspendEffect DEF Suspend, HandlingInv, Row
  <2>2. TakenBack(o)' /\ ent.status # "none" /\ matched' \subseteq matched
    BY <1>8, <2>1, MatchedIsTakenBack DEF Suspend, TakenBack, AccessInv
  <2>3. ent' = [ent EXCEPT !.status = "suspended"] /\ ent'.order = ent.order
        /\ ent'.status = "suspended"
    BY <1>8 DEF Suspend, FulfilmentTypeOK
  <2>4. licence' # "none" <=> licence # "none"
    BY <1>8 DEF Suspend, LicenceSuspended
  <2> QED
    BY <1>3, <2>1, <2>2, <2>3, <2>4 DEF AccessInv, Granted, HandledBecomes
<1>9. ASSUME NEW o \in Orders, NEW k \in Kinds, Retry(o, k) PROVE AccessInv'
  <2>1. HandledBecomes(o, k, {})
    BY <1>9, RetryEffect
  <2> QED
    BY <1>3, <1>9, <2>1 DEF Retry, AccessInv, Granted, HandledBecomes, TakenBack
<1>10. ASSUME NEW o \in Orders, NEW k \in Kinds, Finish(o, k) PROVE AccessInv'
  BY <1>10 DEF Finish, AccessInv, Granted, TakenBack
<1>11. CASE UNCHANGED fulfilmentVars
  BY <1>11 DEF fulfilmentVars, AccessInv, Granted, TakenBack
<1> QED
  BY <1>1, <1>4, <1>5, <1>6, <1>7, <1>8, <1>9, <1>10, <1>11 DEF FulfilmentNext

(* A step adds at most the order it grants to those served, with a term.     *)
LEMMA TermsStep ==
  ASSUME FulfilmentInv, [FulfilmentNext]_fulfilmentVars
  PROVE  TermsInv'
<1> USE DEF FulfilmentInv
<1>1. "paid" \in Kinds /\ ent.terms \in Nat
  BY DEF Kinds, FulfilmentTypeOK
<1>2. IsFiniteSet(Served) /\ Cardinality(Served) \in Nat
  BY FS_CardinalityType DEF TermsInv
<1>3. ASSUME Served' \subseteq Served, ent'.terms = ent.terms,
             \A o \in Orders : TakenBack(o) => TakenBack(o)'
      PROVE  TermsInv'
  <2>1. /\ IsFiniteSet(Served') /\ Cardinality(Served') \in Nat
        /\ Cardinality(Served') <= Cardinality(Served)
    BY <1>2, <1>3, FS_Subset, FS_CardinalityType
  <2>2. CASE \A o \in Orders : ~TakenBack(o)'
    <3>1. ent.terms >= Cardinality(Served)
      BY <1>3, <2>2 DEF TermsInv
    <3> QED
      BY <1>1, <1>2, <1>3, <2>1, <3>1 DEF TermsInv
  <2> QED
    BY <2>1, <2>2 DEF TermsInv
<1>4. CASE Shop
  BY <1>3, <1>4, ShopEffect DEF Shop, Served, Granted
<1>5. ASSUME UNCHANGED <<phase, announced>>
      PROVE  \A o \in Orders : TakenBack(o) => TakenBack(o)'
  BY <1>5 DEF TakenBack
<1>6. ASSUME NEW o \in Orders, Grant(o) PROVE TermsInv'
  <2>1. /\ HandledBecomes(o, "paid", {"entitlement"})
        /\ UNCHANGED <<phase, announced, done, licence, matched, overtaken>>
    BY <1>6, GrantEffect
  <2>2. Granted' = Granted \cup {o}
    BY <1>1, <2>1 DEF Granted, HandledBecomes
  <2>3. CASE IsReplay(o)
    <3>1. ent' = ent /\ ent.order = o
      BY <1>6, <2>3 DEF Grant, IsReplay
    <3>2. Served' \subseteq Served
      BY <2>2, <3>1, FulfilmentAssumption DEF Served
    <3> QED
      BY <1>3, <1>5, <2>1, <3>1, <3>2
  <2>4. CASE ~IsReplay(o)
    <3>1. ent' = [status |-> "active", order |-> o, terms |-> TermsAfterGrant]
          /\ ent'.order = o /\ ent'.terms = TermsAfterGrant
      BY <1>6, <2>4 DEF Grant
    <3>2. Served' \subseteq Served \cup {o}
      BY <2>2, <3>1 DEF Served
    <3>3. /\ IsFiniteSet(Served \cup {o}) /\ Cardinality(Served \cup {o}) \in Nat
          /\ Cardinality(Served \cup {o}) <= Cardinality(Served) + 1
      BY <1>2, FS_AddElement
    <3>4. /\ IsFiniteSet(Served') /\ Cardinality(Served') \in Nat
          /\ Cardinality(Served') <= Cardinality(Served \cup {o})
      BY <3>2, <3>3, FS_Subset, FS_CardinalityType
    <3>5. ASSUME \A p \in Orders : ~TakenBack(p)' PROVE ent'.terms >= Cardinality(Served')
      <4>1. \A p \in Orders : ~TakenBack(p)
        BY <2>1, <3>5 DEF TakenBack
      <4>2. ent.terms >= Cardinality(Served) /\ ent.status # "suspended"
        BY <4>1 DEF TermsInv, AccessInv
      <4>3. CASE ent.status = "active"
        BY <1>1, <1>2, <3>1, <3>3, <3>4, <4>2, <4>3 DEF TermsAfterGrant
      <4>4. CASE ent.status = "none"
        <5>1. Served = {}
          BY <4>4 DEF Served, AccessInv
        <5>2. Cardinality(Served) = 0
          BY <5>1, FS_EmptySet
        <5> QED
          BY <1>1, <3>1, <3>3, <3>4, <4>4, <5>2 DEF TermsAfterGrant
      <4> QED
        BY <4>2, <4>3, <4>4 DEF FulfilmentTypeOK
    <3> QED
      BY <3>4, <3>5 DEF TermsInv
  <2> QED
    BY <2>3, <2>4
<1>7. ASSUME NEW o \in Orders, Provision(o) PROVE TermsInv'
  <2>1. /\ HandledBecomes(o, "paid", {"entitlement", "licensing"})
        /\ UNCHANGED <<phase, announced, done, ent, matched, overtaken>>
        /\ handled[o]["paid"] # {}
    BY <1>7, ProvisionEffect DEF Provision
  <2>2. Served' \subseteq Served
    BY <1>1, <2>1 DEF Served, Granted, HandledBecomes
  <2> QED
    BY <1>3, <1>5, <2>1, <2>2
<1>8. ASSUME NEW o \in Orders, NEW k \in Kinds, FindAccess(o, k) PROVE TermsInv'
  BY <1>3, <1>5, <1>8 DEF FindAccess, Served, Granted
<1>9. ASSUME NEW o \in Orders, NEW k \in Kinds, FindNothing(o, k) PROVE TermsInv'
  <2>1. /\ HandledBecomes(o, k, {"entitlement"}) /\ k # "paid"
        /\ UNCHANGED <<phase, announced, done, ent, licence, matched>>
    BY <1>9, FindNothingEffect DEF FindNothing
  <2>2. Served' \subseteq Served
    BY <1>1, <2>1 DEF Served, Granted, HandledBecomes
  <2> QED
    BY <1>3, <1>5, <2>1, <2>2
<1>10. ASSUME NEW o \in Orders, NEW k \in Kinds, Suspend(o, k) PROVE TermsInv'
  <2>1. /\ HandledBecomes(o, k, {"entitlement"}) /\ k # "paid"
        /\ UNCHANGED <<phase, announced, done>>
    BY <1>10, SuspendEffect DEF Suspend, HandlingInv, Row
  <2>2. ent'.order = ent.order /\ ent'.terms = ent.terms
    BY <1>10 DEF Suspend, FulfilmentTypeOK
  <2>3. Served' \subseteq Served
    BY <1>1, <2>1, <2>2 DEF Served, Granted, HandledBecomes
  <2> QED
    BY <1>3, <1>5, <2>1, <2>2, <2>3
<1>11. ASSUME NEW o \in Orders, NEW k \in Kinds, Retry(o, k) PROVE TermsInv'
  <2>1. HandledBecomes(o, k, {}) /\ UNCHANGED <<phase, announced, ent>>
    BY <1>11, RetryEffect DEF Retry
  <2>2. Served' \subseteq Served
    BY <1>1, <2>1 DEF Served, Granted, HandledBecomes
  <2> QED
    BY <1>3, <1>5, <2>1, <2>2
<1>12. ASSUME NEW o \in Orders, NEW k \in Kinds, Finish(o, k) PROVE TermsInv'
  BY <1>3, <1>5, <1>12 DEF Finish, Served, Granted
<1>13. CASE UNCHANGED fulfilmentVars
  BY <1>3, <1>5, <1>13 DEF fulfilmentVars, Served, Granted
<1> QED
  BY <1>4, <1>6, <1>7, <1>8, <1>9, <1>10, <1>11, <1>12, <1>13 DEF FulfilmentNext

(* An order whose reversal was handled when its paid row was done is never   *)
(* granted again: what carries it is suspended.                              *)
LEMMA ReversedStep ==
  ASSUME FulfilmentInv, [FulfilmentNext]_fulfilmentVars
  PROVE  ReversedInv'
<1> USE DEF FulfilmentInv
<1> SUFFICES ASSUME NEW p \in Orders \ overtaken', NEW j \in Reversals, handled'[p][j] # {}
             PROVE  ~Owed(p, "paid")' /\ (ent'.order = p => ent'.status = "suspended")
  BY DEF ReversedInv
<1>1. p \in Orders /\ j \in Kinds /\ j # "paid" /\ "paid" \in Kinds
  BY DEF Reversals, Kinds
<1>2. ASSUME p \notin overtaken, handled[p][j] # {}
      PROVE  ~Owed(p, "paid") /\ (ent.order = p => ent.status = "suspended")
  BY <1>2 DEF ReversedInv
<1>3. CASE Shop
  <2>1. handled[p][j] # {} /\ p \notin overtaken /\ UNCHANGED <<done, ent>>
    BY <1>3 DEF Shop
  <2>2. "paid" \notin announced'[p] \ announced[p]
    <3>1. announced[p] # {}
      BY <1>1, <2>1 DEF HandlingInv, Row
    <3> QED
      BY <1>1, <1>3, <3>1, ShopEffect
  <2> QED
    BY <1>2, <2>1, <2>2 DEF Owed
<1>4. ASSUME NEW o \in Orders, Grant(o)
      PROVE  ~Owed(p, "paid")' /\ (ent'.order = p => ent'.status = "suspended")
  <2>1. /\ HandledBecomes(o, "paid", {"entitlement"})
        /\ UNCHANGED <<phase, announced, done, licence, matched, overtaken>>
    BY <1>4, GrantEffect
  <2>2. ~Owed(p, "paid") /\ (ent.order = p => ent.status = "suspended")
    BY <1>1, <1>2, <2>1 DEF HandledBecomes
  <2>3. p # o
    BY <1>4, <2>2 DEF Grant
  <2>4. ent' = ent \/ ent'.order = o
    BY <1>4 DEF Grant
  <2> QED
    BY <2>1, <2>2, <2>3, <2>4 DEF Owed
<1>5. ASSUME NEW o \in Orders, Provision(o)
      PROVE  ~Owed(p, "paid")' /\ (ent'.order = p => ent'.status = "suspended")
  BY <1>1, <1>2, <1>5, ProvisionEffect DEF Owed, HandledBecomes
<1>6. ASSUME NEW o \in Orders, NEW k \in Kinds, FindAccess(o, k)
      PROVE  ~Owed(p, "paid")' /\ (ent'.order = p => ent'.status = "suspended")
  BY <1>2, <1>6 DEF FindAccess, Owed
<1>7. ASSUME NEW o \in Orders, NEW k \in Kinds, OvertakenBy(o), UNCHANGED <<announced, done>>,
             HandledBecomes(o, k, {"entitlement"}), k # "paid",
             \/ ent' = ent /\ ent.order # o
             \/ ent'.status = "suspended" /\ ent'.order = ent.order
      PROVE  ~Owed(p, "paid")' /\ (ent'.order = p => ent'.status = "suspended")
  <2>1. p \notin overtaken /\ (p = o => ~Owed(o, "paid"))
    BY <1>7 DEF OvertakenBy
  <2>2. p # o => handled[p][j] # {}
    BY <1>1, <1>7 DEF HandledBecomes
  <2>3. ~Owed(p, "paid")
    BY <1>2, <2>1, <2>2
  <2>4. ent'.order = p => ent'.status = "suspended"
    BY <1>2, <1>7, <2>1, <2>2
  <2> QED
    BY <1>7, <2>3, <2>4 DEF Owed
<1>8. ASSUME NEW o \in Orders, NEW k \in Kinds, FindNothing(o, k)
      PROVE  ~Owed(p, "paid")' /\ (ent'.order = p => ent'.status = "suspended")
  BY <1>7, <1>8, FindNothingEffect DEF FindNothing, Matches
<1>9. ASSUME NEW o \in Orders, NEW k \in Kinds, Suspend(o, k)
      PROVE  ~Owed(p, "paid")' /\ (ent'.order = p => ent'.status = "suspended")
  <2>1. ent'.status = "suspended" /\ ent'.order = ent.order /\ k # "paid" /\ OvertakenBy(o)
    BY <1>9 DEF Suspend, FulfilmentTypeOK, HandlingInv, Row
  <2> QED
    BY <1>7, <1>9, <2>1, SuspendEffect
<1>10. ASSUME NEW o \in Orders, NEW k \in Kinds, Retry(o, k)
       PROVE  ~Owed(p, "paid")' /\ (ent'.order = p => ent'.status = "suspended")
  <2>1. HandledBecomes(o, k, {})
    BY <1>10, RetryEffect
  <2>2. handled[p][j] # {}
    BY <1>1, <2>1 DEF HandledBecomes
  <2> QED
    BY <1>2, <1>10, <2>2 DEF Retry, Owed
<1>11. ASSUME NEW o \in Orders, NEW k \in Kinds, Finish(o, k)
       PROVE  ~Owed(p, "paid")' /\ (ent'.order = p => ent'.status = "suspended")
  <2>1. done[p] \subseteq done'[p]
    BY <1>1, <1>11 DEF Finish, FulfilmentTypeOK
  <2> QED
    BY <1>2, <1>11, <2>1 DEF Finish, Owed
<1>12. CASE UNCHANGED fulfilmentVars
  BY <1>2, <1>12 DEF fulfilmentVars, Owed
<1> QED
  BY <1>3, <1>4, <1>5, <1>6, <1>8, <1>9, <1>10, <1>11, <1>12 DEF FulfilmentNext

LEMMA FulfilmentInvHolds == FulfilmentSpec => []FulfilmentInv
<1>1. FulfilmentInv /\ [FulfilmentNext]_fulfilmentVars => FulfilmentInv'
  <2> SUFFICES ASSUME FulfilmentInv, [FulfilmentNext]_fulfilmentVars PROVE FulfilmentInv'
    OBVIOUS
  <2>1. FulfilmentTypeOK' /\ AnnouncedPhases' /\ HandlingInv'
    BY FulfilmentTypeStep, AnnouncedStep, HandlingStep DEF FulfilmentInv
  <2> QED
    BY <2>1, AccessStep, TermsStep, ReversedStep DEF FulfilmentInv
<1> QED
  BY <1>1, FulfilmentInitHolds, PTL DEF FulfilmentSpec

-----------------------------------------------------------------------------
(* The handlers of entitlement and licensing keep their types, for any       *)
(* number of orders and retries.                                             *)
THEOREM FulfilmentTypeCorrect == FulfilmentSpec => []FulfilmentTypeOK
BY FulfilmentInvHolds, PTL DEF FulfilmentInv

(* No access that nobody bought, whatever is retried and in whatever order   *)
(* the rows arrive: AccessWasBought.                                         *)
THEOREM AccessIsBought == FulfilmentSpec => []AccessWasBought
<1>1. FulfilmentInv => AccessWasBought
  <2> SUFFICES ASSUME FulfilmentInv PROVE AccessWasBought
    OBVIOUS
  <2>1. ent.status # "none" => ent.order \in Orders
    BY DEF FulfilmentInv, FulfilmentTypeOK, AccessInv
  <2> QED
    BY <2>1 DEF FulfilmentInv, AccessInv, AccessWasBought
<1> QED
  BY <1>1, FulfilmentInvHolds, PTL

(* When everything is handled and nothing was taken back, the customer has   *)
(* an active entitlement with a term for each order, and a licence:          *)
(* PurchaseGivesAccess.                                                      *)
THEOREM PurchasesGiveAccess == FulfilmentSpec => []PurchaseGivesAccess
<1>1. FulfilmentInv => PurchaseGivesAccess
  <2> SUFFICES ASSUME FulfilmentInv, Settled, NEW o \in Orders, phase[o] = "paid",
                      \A p \in Orders : ~TakenBack(p)
               PROVE  /\ ent.status = "active" /\ licence = "active"
                      /\ ent.terms >= Cardinality({p \in Orders : phase[p] = "paid"})
    BY DEF PurchaseGivesAccess
  <2> DEFINE Paid == {p \in Orders : phase[p] = "paid"}
  <2> USE DEF FulfilmentInv
  <2>1. "paid" \in Kinds /\ Handlers("paid") = {"entitlement", "licensing"}
    BY DEF Kinds, Handlers
  <2>2. ASSUME NEW p \in Orders, "paid" \in announced[p]
        PROVE  handled[p]["paid"] = Handlers("paid")
    BY <2>1, <2>2 DEF Settled, HandlingInv, Row
  <2>3. Paid \subseteq Granted
    BY <2>1, <2>2 DEF AnnouncedPhases, Granted
  <2>4. ent.status = "active" /\ ent.order \in Orders
    BY <2>3 DEF AccessInv, FulfilmentTypeOK
  <2>5. licence = "active"
    BY <2>1, <2>2, <2>4 DEF AccessInv, FulfilmentTypeOK
  <2>6. Cardinality(Paid) <= Cardinality(Served) /\ Cardinality(Paid) \in Nat
        /\ Cardinality(Served) \in Nat
    BY <2>3, FS_Subset, FS_CardinalityType DEF TermsInv, Served
  <2>7. ent.terms >= Cardinality(Served) /\ ent.terms \in Nat
    BY DEF TermsInv, FulfilmentTypeOK
  <2>8. ent.terms >= Cardinality(Paid)
    BY <2>6, <2>7
  <2> QED
    BY <2>4, <2>5, <2>8
<1> QED
  BY <1>1, FulfilmentInvHolds, PTL

(* When everything is handled and no order stands paid, access has ended,    *)
(* unless a reversal was handled before the grant it reverses:               *)
(* RefundEndsAccess.                                                         *)
THEOREM RefundsEndAccess == FulfilmentSpec => []RefundEndsAccess
<1>1. FulfilmentInv => RefundEndsAccess
  <2> SUFFICES ASSUME FulfilmentInv, LeftOver, overtaken = {} PROVE FALSE
    BY DEF RefundEndsAccess
  <2> USE DEF FulfilmentInv
  <2>1. ent.status = "active" /\ ent.order \in Orders /\ "paid" \in announced[ent.order]
    BY DEF LeftOver, AccessInv, FulfilmentTypeOK
  <2>2. TakenBack(ent.order)
    BY <2>1 DEF LeftOver, AnnouncedPhases, FulfilmentTypeOK, TakenBack
  <2>3. PICK k \in Reversals : k \in announced[ent.order]
    BY <2>1, <2>2 DEF AnnouncedPhases, TakenBack, Reversals
  <2>4. k \in Kinds /\ k \in done[ent.order]
    BY <2>1, <2>3 DEF LeftOver, Settled, Kinds, Reversals
  <2>5. handled[ent.order][k] # {}
    <3>1. handled[ent.order][k] = Handlers(k)
      BY <2>1, <2>4 DEF HandlingInv, Row
    <3> QED
      BY <3>1 DEF Handlers
  <2> QED
    BY <2>1, <2>3, <2>5 DEF ReversedInv
<1> QED
  BY <1>1, FulfilmentInvHolds, PTL
=============================================================================
