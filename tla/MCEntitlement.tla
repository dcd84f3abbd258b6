--------------------------- MODULE MCEntitlement ---------------------------
(* Values for checking Entitlement on small instances.                       *)
EXTENDS Entitlement, TLC

Symmetry == Permutations(Requests)

(* The licence of a disturbed row decides no guard of another variable and   *)
(* no property: states that differ in it alone are one.                      *)
View ==
  <<now, status, until, deferred, op, trials, revived, disturbed,
    [r \in Rows |-> IF r \in disturbed THEN "none" ELSE licence[r]]>>
=============================================================================
