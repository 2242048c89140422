--------------------------- MODULE MCProfileCache ---------------------------
(* Instances of ProfileCache for TLC; callers, load states and users are   *)
(* interchangeable, which the safety run makes use of.                     *)
EXTENDS ProfileCache, TLC

Symmetry == UNION {Permutations(Callers), Permutations(Loads), Permutations(Users)}
=============================================================================
