----------------------------- MODULE MCCommerce -----------------------------
(* Values for checking Commerce on small instances.                          *)
EXTENDS Commerce, TLC

MCSamePlan == [o \in Orders |-> "annual"]

AllKinds == Kinds
MockKinds == Kinds \ {"voided"}       \* MockDevelopmentPaymentProvider

Symmetry == Permutations(EventIds) \cup Permutations(Refunds)
=============================================================================
