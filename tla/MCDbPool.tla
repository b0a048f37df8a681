------------------------------ MODULE MCDbPool ------------------------------
(* Instances of DbPool for TLC, and the statement of a comment that the code *)
(* does not keep.                                                            *)
EXTENDS DbPool

(* connection.h:56, of PrepareStatement: "returns true on success", and      *)
(* connection_pool.cpp:410: "[%i] %s failed on all databases".  A game's     *)
(* statistics whose query does not fail are in some table.                   *)
StatsAreStored == \A q \in Ids : kind[q] = "stats" /\ answer[q] = "success" => Stored(q)

=============================================================================
