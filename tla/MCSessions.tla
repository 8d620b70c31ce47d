----------------------------- MODULE MCSessions -----------------------------
(* Small instance of Sessions for TLC: the model values and their symmetry. *)
EXTENDS Sessions, TLC

CONSTANTS t1, t2, t3, f1, f2, r1, r2, k1

Symmetry ==
  Permutations({t1, t2, t3}) \cup Permutations({f1, f2}) \cup Permutations({r1, r2})
=============================================================================
