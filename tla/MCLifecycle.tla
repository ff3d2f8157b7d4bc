----------------------------- MODULE MCLifecycle -----------------------------
(* Clients do the same things: which is which makes no difference.          *)
EXTENDS Lifecycle
ClientSymmetry == Permutations(Clients)
=============================================================================
