--------------------------- MODULE MCSubscriptions ---------------------------
(* Small instances of Subscriptions. *)
EXTENDS Subscriptions, TLC

Symmetry == Permutations(Request)
=============================================================================
