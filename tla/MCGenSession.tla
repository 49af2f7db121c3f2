---------------------------- MODULE MCGenSession ----------------------------
(* One client; with Clients <- TwoClients, Assign's precondition HandleFree  *)
(* no longer holds.                                                          *)
EXTENDS GenSession

CONSTANTS c1, c2, l1, l2

OneClient == {c1}
TwoClients == {c1, c2}
TwoLayers == {l1, l2}
=============================================================================
