-------------------------- MODULE MCPartnerWallet --------------------------
(* Values for checking PartnerWallet on small instances.                     *)
EXTENDS PartnerWallet, TLC

Symmetry == Permutations(Keys) \cup Permutations(Requests)
=============================================================================
