--------------------------- MODULE MCCommerceRace ---------------------------
(* Values for checking CommerceRace on small instances.                      *)
EXTENDS CommerceRace, TLC

Symmetry == Permutations(Tx)
=============================================================================
