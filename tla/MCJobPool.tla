----------------------------- MODULE MCJobPool -----------------------------
(* Instances of JobPool for TLC. *)
EXTENDS JobQueue

CONSTANTS j1, j2, j3, w1, w2

=============================================================================
