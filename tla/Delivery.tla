------------------------------ MODULE Delivery ------------------------------
(***************************************************************************)
(* What the durable outbox promises, and nothing of how: a committed event *)
(* has each of its handlers succeed at least once, in their registration   *)
(* order the first time, and is then done for good; an event that is not   *)
(* immortal may be given up instead.  A handler may run again at any time  *)
(* before that.                                                            *)
(***************************************************************************)
EXTENDS Integers

CONSTANTS
  Events,      \* rows of outbox_events
  Immortal,    \* those of a type that never stays FAILED
  HandlersOf   \* how many handlers each event has

VARIABLES
  phase,       \* "absent", "owed", "done" or "given_up"
  reached      \* handlers 1 .. reached have succeeded

vars == <<phase, reached>>

Init ==
  /\ phase = [e \in Events |-> "absent"]
  /\ reached = [e \in Events |-> 0]

Record(e) ==
  /\ phase[e] = "absent"
  /\ phase' = [phase EXCEPT ![e] = "owed"]
  /\ UNCHANGED reached

Act(e) ==
  /\ phase[e] = "owed"
  /\ reached[e] < HandlersOf[e]
  /\ reached' = [reached EXCEPT ![e] = @ + 1]
  /\ UNCHANGED phase

Finish(e) ==
  /\ phase[e] = "owed"
  /\ reached[e] = HandlersOf[e]
  /\ phase' = [phase EXCEPT ![e] = "done"]
  /\ UNCHANGED reached

GiveUp(e) ==
  /\ phase[e] = "owed"
  /\ e \notin Immortal
  /\ phase' = [phase EXCEPT ![e] = "given_up"]
  /\ UNCHANGED reached

Next == \E e \in Events : Record(e) \/ Act(e) \/ Finish(e) \/ GiveUp(e)

Spec == Init /\ [][Next]_vars
=============================================================================
