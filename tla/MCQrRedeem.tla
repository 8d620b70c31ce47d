----------------------------- MODULE MCQrRedeem -----------------------------
(* Small instance of QrRedeem for TLC. *)
EXTENDS QrRedeem, TLC

CONSTANTS u1, u2, d1, d2, c1, c2, c3, r1, r2

Symmetry == Permutations({u1, u2}) \cup Permutations({d1, d2}) \cup Permutations({c1, c2, c3})
              \cup Permutations({r1, r2})
=============================================================================
