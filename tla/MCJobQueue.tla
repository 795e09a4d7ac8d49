----------------------------- MODULE MCJobQueue -----------------------------
(* An instance of JobQueue for TLC.                                         *)
EXTENDS JobQueue

CONSTANTS j1, j2

(* one job that may be tried twice, one that may be tried once *)
MCMaxAttempts == [j \in Jobs |-> IF j = j1 THEN 2 ELSE 1]
=============================================================================
