---------------------------- MODULE MCSettlement ----------------------------
(* Two executions at a time, two contacts. *)
EXTENDS Settlement, TLC

CONSTANTS c1, c2, k1, k2

(* Bound: a behaviour is followed until a second of the hazards happens. *)
OneHazard == Cardinality(hazards) <= 1

MCSymmetry == Permutations({c1, c2}) \cup Permutations({k1, k2})
=============================================================================
