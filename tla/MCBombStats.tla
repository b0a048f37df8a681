----------------------------- MODULE MCBombStats -----------------------------
(* The instance of BombTag with the counters of BombStats for TLC.           *)
EXTENDS BombStats

(* What the team buttons of a client send. *)
ButtonTeams == {-1, 0}

=============================================================================
