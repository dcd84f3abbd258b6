-------------------------- MODULE MCDesktopSession --------------------------
(* Values for checking DesktopSession on small instances.                    *)
EXTENDS DesktopSession, TLC

Symmetry == Permutations(Requests) \cup Permutations(Proofs)
=============================================================================
