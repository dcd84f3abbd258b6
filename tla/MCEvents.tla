------------------------------- MODULE MCEvents -------------------------------
(***************************************************************************)
(* Values for checking Outbox and Fulfilment.  Fulfilment takes from       *)
(* Outbox only what OneDispatcher and KeepsPromise promise, and shares no  *)
(* variable with it: which of the two moves is chosen at the start, in     *)
(* part.                                                                   *)
(***************************************************************************)
EXTENDS Outbox, Fulfilment, TLC

VARIABLE part

MCHandlersOf == [e \in Events |-> IF e \in Immortal THEN 2 ELSE 1]

-----------------------------------------------------------------------------
MCInit ==
  /\ part \in {"outbox", "fulfilment"}
  /\ Init
  /\ FulfilmentInit

MCNext ==
  \/ part = "outbox" /\ Next /\ UNCHANGED <<part, fulfilmentVars>>
  \/ part = "fulfilment" /\ FulfilmentNext /\ UNCHANGED <<part, vars>>

(* The fairness of FairSpec, where the outbox moves.                         *)
Moves(A) == part = "outbox" /\ A /\ UNCHANGED <<part, fulfilmentVars>>

MCSpec ==
  /\ MCInit /\ [][MCNext]_<<vars, part, fulfilmentVars>>
  /\ \A d \in Dispatchers : WF_vars(Moves(Dispatch(d)))
  /\ \A e \in Events : WF_vars(Moves(\E S \in SUBSET Events : e \in S /\ Reclaim(S)))
=============================================================================
