------------------------------ MODULE JobPool ------------------------------
(***************************************************************************)
(* The job pool (jobs.cpp): worker threads that run jobs from a linked     *)
(* list, and the main thread, which adds jobs, aborts them, and shuts the  *)
(* pool down.  Only the main thread calls Init, Add and Shutdown.          *)
(***************************************************************************)
EXTENDS Integers, Sequences, FiniteSets

CONSTANTS
  Jobs,       \* the jobs, each added at most once
  Abortable,  \* those with m_Abortable set
  Workers,    \* the threads of the pool
  none,       \* nullptr
  MaxInits    \* bound: how often the pool is initialised

ASSUME JobsAssumption == IsFiniteSet(Jobs) /\ Abortable \subseteq Jobs /\ none \notin Jobs
ASSUME WorkersAssumption == IsFiniteSet(Workers) /\ Workers # {}
ASSUME InitsAssumption == MaxInits \in Nat

VARIABLES
  main,      \* where the main thread is
  woken,     \* Shutdown: how many signals it has sent
  pJob,      \* Shutdown: the job its walk over the queue has reached
  pPrev,     \* Shutdown: the last job the walk has kept
  inits,     \* how often the pool was initialised
  shutdown,  \* m_Shutdown
  first,     \* m_pFirstJob
  last,      \* m_pLastJob
  next,      \* m_pNext of every job
  sem,       \* m_Semaphore
  running,   \* m_RunningJobs
  jobState,  \* m_State: "queued" | "running" | "done" | "aborted"
  added,     \* the jobs given to Add
  accepted,  \* those of them that it accepted, as history
  pc,        \* where every worker is
  at         \* the job every worker holds

list == <<first, last, next>>
walk == <<pJob, pPrev, woken>>
workers == <<pc, at>>
jobs == <<added, accepted>>
vars == <<main, walk, inits, shutdown, list, sem, running, jobState, jobs, workers>>

Init ==
  /\ main = "down" /\ woken = 0 /\ pJob = none /\ pPrev = none /\ inits = 0
  /\ shutdown = TRUE
  /\ first = none /\ last = none /\ next = [j \in Jobs |-> none]
  /\ sem = 0 /\ running = {}
  /\ jobState = [j \in Jobs |-> "queued"] /\ added = {} /\ accepted = {}
  /\ pc = [w \in Workers |-> "over"] /\ at = [w \in Workers |-> none]

----------------------------------------------------------------------------
(* The main thread. *)

(* CJobPool::Init. *)
InitPool ==
  /\ main = "down" /\ inits < MaxInits
  /\ main' = "up" /\ inits' = inits + 1 /\ shutdown' = FALSE
  /\ sem' = 0 /\ first' = none /\ last' = none
  /\ pc' = [w \in Workers |-> "wait"]
  /\ UNCHANGED <<walk, next, running, jobState, jobs, at>>

(* Add, when the pool is up: the job goes to the end of the list ... *)
Add(j) ==
  /\ main = "up" /\ ~shutdown /\ j \notin added
  /\ next' = IF last = none THEN next ELSE [next EXCEPT ![last] = j]
  /\ last' = j
  /\ first' = IF first = none THEN j ELSE first
  /\ added' = added \cup {j} /\ accepted' = accepted \cup {j}
  /\ main' = "signal"
  /\ UNCHANGED <<walk, inits, shutdown, sem, running, jobState, workers>>

(* ... and a worker is told: CSemaphore::Signal. *)
Raised == sem + 1
Signal ==
  /\ main = "signal" /\ main' = "up" /\ sem' = Raised
  /\ UNCHANGED <<walk, inits, shutdown, list, running, jobState, jobs, workers>>

(* Add, when the pool is down. *)
Refuse(j) ==
  /\ main = "down" /\ shutdown /\ j \notin added
  /\ added' = added \cup {j}
  /\ jobState' = [jobState EXCEPT ![j] = IF j \in Abortable THEN "aborted" ELSE @]
  /\ UNCHANGED <<main, walk, inits, shutdown, list, sem, running, accepted, workers>>

(* IJob::Abort by whoever owns the job. *)
Abort(j) ==
  /\ main = "up" /\ j \in Abortable
  /\ jobState' = [jobState EXCEPT ![j] = "aborted"]
  /\ UNCHANGED <<main, walk, inits, shutdown, list, sem, running, jobs, workers>>

(* Shutdown: the flag, then the walk over the queue under m_Lock ... *)
Shutdown ==
  /\ main = "up" /\ ~shutdown
  /\ shutdown' = TRUE
  /\ main' = "unqueue" /\ pJob' = first /\ pPrev' = none
  /\ UNCHANGED <<woken, inits, list, sem, running, jobState, jobs, workers>>

AbortQueuedFirst ==  \* mutant: unlinks at the head only
  /\ jobState' = [jobState EXCEPT ![pJob] = "aborted"]
  /\ next' = [next EXCEPT ![pJob] = none]
  /\ first' = next[pJob]
AbortQueued ==
  /\ jobState' = [jobState EXCEPT ![pJob] = "aborted"]
  /\ IF pPrev = none
       THEN first' = next[pJob] /\ next' = [next EXCEPT ![pJob] = none]
       ELSE UNCHANGED first /\ next' = [next EXCEPT ![pJob] = none, ![pPrev] = next[pJob]]
AfterUnlink == IF pJob \in Abortable THEN none ELSE next[pJob]  \* mutant: reads m_pNext too late
WalkOn == next[pJob]
Unqueue ==
  /\ main = "unqueue" /\ pJob # none
  /\ pJob' = WalkOn
  /\ IF pJob \in Abortable
       THEN AbortQueued /\ UNCHANGED pPrev
       ELSE pPrev' = pJob /\ UNCHANGED <<jobState, first, next>>
  /\ UNCHANGED <<main, woken, inits, shutdown, last, sem, running, jobs, workers>>
Unqueued ==
  /\ main = "unqueue" /\ pJob = none
  /\ last' = pPrev /\ main' = "abort"
  /\ UNCHANGED <<walk, inits, shutdown, first, next, sem, running, jobState, jobs, workers>>

(* ... then the running jobs under m_LockRunning ... *)
AbortRunning ==
  /\ main = "abort" /\ main' = "wake" /\ woken' = 0
  /\ jobState' = [j \in Jobs |-> IF j \in running \cap Abortable THEN "aborted" ELSE jobState[j]]
  /\ UNCHANGED <<pJob, pPrev, inits, shutdown, list, sem, running, jobs, workers>>

(* ... a signal for every worker, and the wait for them all. *)
OneTooFew == woken + 1 < Cardinality(Workers)  \* mutant: off by one, the other way
OneTooMany == woken <= Cardinality(Workers)  \* mutant: off by one
MoreToWake == woken < Cardinality(Workers)
Wake ==
  /\ main = "wake" /\ MoreToWake
  /\ woken' = woken + 1 /\ sem' = Raised
  /\ UNCHANGED <<main, pJob, pPrev, inits, shutdown, list, running, jobState, jobs, workers>>
Joined == \A w \in Workers : pc[w] = "over"
Join ==
  /\ main = "wake" /\ ~MoreToWake /\ Joined
  /\ main' = "down"
  /\ UNCHANGED <<walk, inits, shutdown, list, sem, running, jobState, jobs, workers>>

----------------------------------------------------------------------------
(* RunLoop. *)
Go(w, from, to) == pc[w] = from /\ pc' = [pc EXCEPT ![w] = to]
mainVars == <<main, walk, inits, shutdown, jobs>>

Wait(w) ==
  /\ Go(w, "wait", "fetch") /\ sem > 0 /\ sem' = sem - 1
  /\ UNCHANGED <<mainVars, list, running, jobState, at>>

(* Under m_Lock, which Shutdown holds during its walk. *)
Fetch(w) ==
  /\ main # "unqueue" /\ first # none /\ Go(w, "fetch", "start")
  /\ at' = [at EXCEPT ![w] = first]
  /\ first' = next[first] /\ next' = [next EXCEPT ![first] = none]
  /\ last' = IF first' = none THEN none ELSE last
  /\ UNCHANGED <<mainVars, sem, running, jobState>>
FetchNothing(w) ==
  /\ main # "unqueue" /\ first = none /\ Go(w, "fetch", "idle")
  /\ UNCHANGED <<mainVars, list, sem, running, jobState, at>>

EndLoop(w) ==
  /\ Go(w, "idle", IF shutdown THEN "over" ELSE "wait")
  /\ UNCHANGED <<mainVars, list, sem, running, jobState, at>>

(* The compare_exchange from STATE_QUEUED. *)
MayStart(j) == jobState[j] = "queued"
Start(w) ==
  /\ Go(w, "start", "enlist") /\ MayStart(at[w])
  /\ jobState' = [jobState EXCEPT ![at[w]] = "running"]
  /\ UNCHANGED <<mainVars, list, sem, running, at>>
Skip(w) ==
  /\ Go(w, "start", "wait") /\ ~MayStart(at[w])
  /\ at' = [at EXCEPT ![w] = none]
  /\ UNCHANGED <<mainVars, list, sem, running, jobState>>

Enlist(w) ==
  /\ Go(w, "enlist", "run") /\ running' = running \cup {at[w]}
  /\ UNCHANGED <<mainVars, list, sem, jobState, at>>

(* The job ends by itself, whether it was aborted or not. *)
Run(w) ==
  /\ Go(w, "run", "finish") /\ running' = running \ {at[w]}
  /\ UNCHANGED <<mainVars, list, sem, jobState, at>>

(* The compare_exchange from STATE_RUNNING. *)
FinishAnyway(w) == [jobState EXCEPT ![at[w]] = "done"]  \* mutant: stores without comparing
Finished(w) == [jobState EXCEPT ![at[w]] = IF @ = "running" THEN "done" ELSE @]
Finish(w) ==
  /\ Go(w, "finish", "wait") /\ jobState' = Finished(w)
  /\ at' = [at EXCEPT ![w] = none]
  /\ UNCHANGED <<mainVars, list, sem, running>>

Worker(w) ==
  \/ Wait(w) \/ Fetch(w) \/ FetchNothing(w) \/ EndLoop(w)
  \/ Start(w) \/ Skip(w) \/ Enlist(w) \/ Run(w) \/ Finish(w)

(* What the main thread does once it has begun it ends. *)
MainStep == Signal \/ Unqueue \/ Unqueued \/ AbortRunning \/ Wake \/ Join

Next ==
  \/ InitPool \/ Shutdown \/ MainStep
  \/ \E j \in Jobs : Add(j) \/ Refuse(j) \/ Abort(j)
  \/ \E w \in Workers : Worker(w)

Spec == Init /\ [][Next]_vars

(* The scheduler runs every thread, and every job ends. *)
FairSpec == Spec /\ WF_vars(MainStep) /\ \A w \in Workers : WF_vars(Worker(w))

----------------------------------------------------------------------------
(* Every variable has its type. *)
TypeOK ==
  /\ main \in {"down", "up", "signal", "unqueue", "abort", "wake"}
  /\ woken \in 0 .. Cardinality(Workers) /\ inits \in 0 .. MaxInits
  /\ {pJob, pPrev, first, last} \subseteq Jobs \cup {none}
  /\ shutdown \in BOOLEAN /\ sem \in Nat
  /\ next \in [Jobs -> Jobs \cup {none}]
  /\ running \subseteq Jobs /\ added \subseteq Jobs /\ accepted \subseteq added
  /\ jobState \in [Jobs -> {"queued", "running", "done", "aborted"}]
  /\ pc \in [Workers -> {"wait", "fetch", "idle", "start", "enlist", "run", "finish", "over"}]
  /\ at \in [Workers -> Jobs \cup {none}]

(* IJob::Done. *)
Done(j) == jobState[j] \notin {"queued", "running"}

(* "Scheduled jobs which are not abortable are guaranteed to fully complete  *)
(* before the job pool is shut down" (jobs.h): when Shutdown returns, each   *)
(* job that Add accepted is done or, if it may be, aborted; and no thread,   *)
(* which could still be at work on one, is left.                             *)
AllEndBeforeShutdown ==
  main = "down" =>
    /\ \A j \in accepted : Done(j) /\ (j \notin Abortable => jobState[j] = "done")
    /\ running = {} /\ \A w \in Workers : pc[w] = "over"

(* "Aborts all abortable jobs" (jobs.h): behind its two passes Shutdown has  *)
(* aborted every accepted job that can be and has not ended, but for those   *)
(* that a worker has in its hands and not in m_RunningJobs: fetched and not  *)
(* entered yet, or already taken out.                                        *)
BetweenLists(j) == \E w \in Workers : at[w] = j /\ pc[w] \in {"start", "enlist", "finish"}
AbortsReachAll ==
  [][AbortRunning => \A j \in accepted \cap Abortable : Done(j)' \/ BetweenLists(j)]_vars

(* The abort of a job that has not ended holds, whatever its worker does at  *)
(* the same time: it is never reported as done, and one that had not started *)
(* never runs.                                                               *)
AbortHolds ==
  [][\A j \in Jobs : jobState[j] = "aborted" => jobState'[j] = "aborted"]_vars

=============================================================================
