-------------------------- MODULE MCMedalVersions --------------------------
(* Small instance of MedalVersions and of MedalDossier for TLC. *)
EXTENDS MedalDossier, TLC
CONSTANTS s1, s2, v1, v2, v3, r1, r2, c1, c2
Symmetry == Permutations({s1, s2}) \cup Permutations({v1, v2, v3}) \cup Permutations({r1, r2})
=============================================================================
