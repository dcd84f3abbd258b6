--------------------------- MODULE MCWebhookInbox ---------------------------
(* Values for checking WebhookInbox on small instances.                      *)
EXTENDS WebhookInbox, TLC

Symmetry == Permutations(Deliveries)
=============================================================================
