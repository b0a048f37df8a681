----------------------------- MODULE DbService -----------------------------
(***************************************************************************)
(* What the game server may rely on when it hands queries to the database  *)
(* pool: every query is answered, once and in the order of the calls, and  *)
(* OnShutdown returns only when all of them have been.  How the two        *)
(* threads of the pool keep this promise is in DbPool.                     *)
(***************************************************************************)
EXTENDS Integers

CONSTANT MaxQueries  \* bound on the number of queries

VARIABLES
  accepted,  \* number of queries handed to the pool
  answered,  \* the queries, numbered in the order of the calls, whose result is complete
  phase      \* "open" | "closing" | "closed"

vars == <<accepted, answered, phase>>

Init == accepted = 0 /\ answered = {} /\ phase = "open"

Accept ==
  /\ phase = "open" /\ accepted < MaxQueries
  /\ accepted' = accepted + 1
  /\ UNCHANGED <<answered, phase>>

Answer ==
  /\ \E q \in 1 .. accepted :
       /\ answered = 1 .. q - 1
       /\ answered' = answered \cup {q}
  /\ UNCHANGED <<accepted, phase>>

Close == phase = "open" /\ phase' = "closing" /\ UNCHANGED <<accepted, answered>>

Return ==
  /\ phase = "closing" /\ answered = 1 .. accepted
  /\ phase' = "closed"
  /\ UNCHANGED <<accepted, answered>>

Next == Accept \/ Answer \/ Close \/ Return
Spec == Init /\ [][Next]_vars

=============================================================================
