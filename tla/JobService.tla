----------------------------- MODULE JobService -----------------------------
(***************************************************************************)
(* What a job pool promises: accepted jobs are taken in the order in which *)
(* they were added, each once, a job that can be aborted may be dropped    *)
(* while the pool closes, and whatever was accepted ends before the pool   *)
(* is closed.                                                              *)
(***************************************************************************)
EXTENDS Naturals, Sequences, FiniteSets

CONSTANTS Jobs, Abortable

VARIABLES
  waiting,  \* the accepted jobs that nobody has taken yet, in order
  taken,    \* the jobs a thread has taken
  over,     \* the jobs that nobody will run any more
  pool      \* "closed" | "open" | "closing"

service == <<waiting, taken, over, pool>>

Accepted == {waiting[i] : i \in DOMAIN waiting} \cup taken \cup over

Init == waiting = <<>> /\ taken = {} /\ over = {} /\ pool = "closed"

Open == pool = "closed" /\ pool' = "open" /\ UNCHANGED <<waiting, taken, over>>
Close == pool = "open" /\ pool' = "closing" /\ UNCHANGED <<waiting, taken, over>>
Closed ==
  /\ pool = "closing" /\ waiting = <<>> /\ taken = {}
  /\ pool' = "closed" /\ UNCHANGED <<waiting, taken, over>>

Accept(j) ==
  /\ pool = "open" /\ j \notin Accepted
  /\ waiting' = Append(waiting, j) /\ UNCHANGED <<taken, over, pool>>
Refuse(j) ==
  /\ pool = "closed" /\ j \notin Accepted
  /\ over' = over \cup {j} /\ UNCHANGED <<waiting, taken, pool>>

Take ==
  /\ waiting # <<>>
  /\ taken' = taken \cup {Head(waiting)} /\ waiting' = Tail(waiting)
  /\ UNCHANGED <<over, pool>>
Drop(i) ==
  /\ pool = "closing" /\ waiting[i] \in Abortable
  /\ waiting' = SubSeq(waiting, 1, i - 1) \o SubSeq(waiting, i + 1, Len(waiting))
  /\ over' = over \cup {waiting[i]} /\ UNCHANGED <<taken, pool>>
End(j) ==
  /\ j \in taken /\ taken' = taken \ {j} /\ over' = over \cup {j}
  /\ UNCHANGED <<waiting, pool>>

Next ==
  \/ Open \/ Close \/ Closed \/ Take
  \/ \E j \in Jobs : Accept(j) \/ Refuse(j) \/ End(j)
  \/ \E i \in DOMAIN waiting : Drop(i)

Spec ==
  /\ Init /\ [][Next]_service
  /\ WF_service(Take) /\ WF_service(Closed) /\ \A j \in Jobs : WF_service(End(j))

=============================================================================
