------------------------------ MODULE JobQueue ------------------------------
(***************************************************************************)
(* The linked list of JobPool as the queue it stands for, and the service  *)
(* that the pool is with it.                                               *)
(***************************************************************************)
EXTENDS JobPool

(* q is the list that begins with job, if there is one, each job followed by  *)
(* its m_pNext.  No job comes twice, so there is room for it in Lists.        *)
Lists == UNION {[1 .. n -> Jobs] : n \in 0 .. Cardinality(Jobs)}
IsList(job, successor, q) ==
  /\ job = IF q = <<>> THEN none ELSE q[1]
  /\ \A i \in DOMAIN q : successor[q[i]] = IF i = Len(q) THEN none ELSE q[i + 1]
ListFrom(job, successor) == CHOOSE q \in Lists : IsList(job, successor, q)
Queue == ListFrom(first, next)

(* The jobs that the workers have in their hands.                            *)
Held == {at[w] : w \in Workers} \ {none}

(* The pool is the service of JobService: the linked list is its queue.      *)
Service == INSTANCE JobService WITH
  waiting <- Queue,
  taken <- Held,
  over <- {j \in added : j \notin Held /\ \A i \in DOMAIN Queue : Queue[i] # j},
  pool <- CASE main = "down" -> "closed"
            [] main \in {"up", "signal"} -> "open"
            [] OTHER -> "closing"
JobsAreServed == Service!Spec

=============================================================================
