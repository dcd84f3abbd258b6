------------------------------ MODULE MCProducts ------------------------------
(***************************************************************************)
(* What a product sells and what a release of it is made of, for TLC.      *)
(* ProductOffers and ReleaseArtifacts share no state, and which of them    *)
(* moves is chosen at the start, in part.  The offers move in one of two   *)
(* ways: in "writing", two administrators write the same plan while a      *)
(* customer reads it; in "deleting", one deletes rows while a customer     *)
(* orders them.                                                            *)
(***************************************************************************)
EXTENDS ProductOffers, ReleaseArtifacts, TLC

VARIABLE part

(* A form that makes the plan longer and dearer, or shorter and cheaper.     *)
Dearer == {[term |-> 1, amount |-> 1], [term |-> 2, amount |-> 2]}

(* A release for Windows, with one installer too many and a delta package it *)
(* can do without.                                                           *)
Files == "setup" :> "installer" @@ "setup2" :> "installer" @@ "full" :> "full-nupkg"
         @@ "index" :> "releases-index" @@ "delta" :> "delta-nupkg"
FileNames == DOMAIN Files
Windows == {"installer", "full-nupkg", "releases-index"}

-----------------------------------------------------------------------------
(* Bounds.  Writing: one price that is not switched off, no deletions and no *)
(* orders, since the offer that a customer has read is what matters.         *)
OneOffer ==
  /\ price[1].interval = "" /\ price[1].status # "inactive" /\ price[2].status = "none"
  /\ orders = {}
  /\ \A p \in Requests : op[p].kind \notin {"deletePlan", "deletePrice", "deleteProduct"}

(* Deleting: prices of two intervals and one request at a time, which does   *)
(* not publish and enters the same term and amount every time.               *)
OneRequest ==
  /\ \A k \in Prices : price[k].amount \in {0, 1}
  /\ \E p \in Requests :
       /\ op[p].kind \notin {"publish", "launch", "plans", "activate"}
       /\ \A i \in DOMAIN op[p].form : op[p].form[i].term \in {0, 1}
       /\ \A q \in Requests \ {p} : op[q] = NoRequest

MCInit ==
  /\ part \in {"writing", "deleting", "artifacts"}
  /\ OffersInit
  /\ ArtifactsInit /\ (part # "artifacts" => artifacts = {})

MCNext ==
  \/ part = "writing" /\ OffersNext /\ OneOffer' /\ UNCHANGED <<part, artifactVars>>
  \/ part = "deleting" /\ OffersNext /\ OneRequest' /\ UNCHANGED <<part, artifactVars>>
  \/ part = "artifacts" /\ ArtifactsNext /\ UNCHANGED <<part, offerVars>>

MCSpec == MCInit /\ [][MCNext]_<<part, offerVars, artifactVars>>

Symmetry == Permutations(Requests)
=============================================================================
