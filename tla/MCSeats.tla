------------------------------ MODULE MCSeats ------------------------------
(* Values for checking Seats on small instances.                             *)
EXTENDS Seats, TLC

Symmetry == Permutations(Devices) \cup Permutations(Licences) \cup Permutations(Requests)
=============================================================================
