---------------------------- MODULE JobPool_proof ----------------------------
(* Theorems of JobPool, for any jobs and any number of threads.               *)
EXTENDS JobPool, FiniteSetTheorems, TLAPS

(* A worker holds a job from its fetch to its end ...                         *)
Busy == {"start", "enlist", "run", "finish"}
HandsFull == \A w \in Workers : at[w] # none <=> pc[w] \in Busy

(* ... what m_RunningJobs lists is run by somebody ...                        *)
SomebodyRuns == \A j \in running : \E w \in Workers : pc[w] = "run" /\ at[w] = j

(* ... and no thread is left while the pool is down.                          *)
NobodyLeft == main = "down" => \A w \in Workers : pc[w] = "over"

PoolInv == TypeOK /\ HandsFull /\ SomebodyRuns /\ NobodyLeft

LEMMA PoolInit == Init => PoolInv
<1> SUFFICES ASSUME Init PROVE PoolInv
  OBVIOUS
<1>1. Cardinality(Workers) \in Nat
  BY WorkersAssumption, FS_CardinalityType
<1>2. TypeOK
  BY <1>1, InitsAssumption DEF Init, TypeOK
<1>3. HandsFull
  BY DEF Init, HandsFull, Busy
<1>4. SomebodyRuns /\ NobodyLeft
  BY DEF Init, SomebodyRuns, NobodyLeft
<1> QED BY <1>2, <1>3, <1>4 DEF PoolInv

(* What the main thread does to the jobs, the list and the counters.          *)
LEMMA MainNext ==
  ASSUME PoolInv,
         \/ InitPool \/ Shutdown \/ MainStep
         \/ \E j \in Jobs : Add(j) \/ Refuse(j) \/ Abort(j)
  PROVE  PoolInv'
<1> TypeOK /\ HandsFull /\ SomebodyRuns /\ NobodyLeft
  BY DEF PoolInv
<1> USE DEF TypeOK, PoolInv, HandsFull, SomebodyRuns, NobodyLeft, list, walk, workers, jobs
<1>1. CASE InitPool
  <2>1. running = {} /\ \A w \in Workers : at[w] = none
    BY <1>1 DEF InitPool, Busy
  <2>2. inits' \in 0 .. MaxInits
    BY <1>1, InitsAssumption DEF InitPool
  <2>3. pc' \in [Workers -> {"wait", "fetch", "idle", "start", "enlist", "run", "finish", "over"}]
    BY <1>1 DEF InitPool
  <2>4. HandsFull' /\ SomebodyRuns' /\ NobodyLeft'
    BY <1>1, <2>1 DEF InitPool, Busy
  <2> QED BY <1>1, <2>2, <2>3, <2>4 DEF InitPool
<1>2. CASE Shutdown
  BY <1>2 DEF Shutdown
<1>3. CASE Signal
  BY <1>3 DEF Signal, Raised
<1>4. CASE Unqueue
  <2>1. pJob \in Jobs
    BY <1>4 DEF Unqueue
  <2>2. CASE pJob \in Abortable /\ pPrev = none
    BY <1>4, <2>1, <2>2 DEF Unqueue, WalkOn, AbortQueued
  <2>3. CASE pJob \in Abortable /\ pPrev # none
    BY <1>4, <2>1, <2>3 DEF Unqueue, WalkOn, AbortQueued
  <2>4. CASE pJob \notin Abortable
    BY <1>4, <2>1, <2>4 DEF Unqueue, WalkOn
  <2> QED BY <2>2, <2>3, <2>4
<1>5. CASE Unqueued
  BY <1>5 DEF Unqueued
<1>6. CASE AbortRunning
  <2>1. Cardinality(Workers) \in Nat
    BY WorkersAssumption, FS_CardinalityType
  <2> QED BY <1>6, <2>1 DEF AbortRunning
<1>7. CASE Wake
  <2>1. Cardinality(Workers) \in Nat
    BY WorkersAssumption, FS_CardinalityType
  <2>2. woken' \in 0 .. Cardinality(Workers)
    BY <1>7, <2>1 DEF Wake, MoreToWake
  <2> QED BY <1>7, <2>2 DEF Wake, Raised
<1>8. CASE Join
  BY <1>8 DEF Join, Joined
<1>9. ASSUME NEW j \in Jobs, Add(j) PROVE PoolInv'
  BY <1>9 DEF Add
<1>10. ASSUME NEW j \in Jobs, Refuse(j) PROVE PoolInv'
  BY <1>10 DEF Refuse
<1>11. ASSUME NEW j \in Jobs, Abort(j) PROVE PoolInv'
  BY <1>11 DEF Abort
<1> QED
  BY <1>1, <1>2, <1>3, <1>4, <1>5, <1>6, <1>7, <1>8, <1>9, <1>10, <1>11 DEF MainStep

(* What the threads do.                                                       *)
LEMMA WorkerNext == ASSUME PoolInv, NEW w \in Workers, Worker(w) PROVE PoolInv'
<1> TypeOK /\ HandsFull /\ SomebodyRuns /\ NobodyLeft
  BY DEF PoolInv
<1> USE DEF TypeOK, PoolInv, HandsFull, SomebodyRuns, NobodyLeft, list, walk, jobs, mainVars, Go, Busy
<1>1. CASE Wait(w)
  BY <1>1 DEF Wait
<1>2. CASE Fetch(w)
  BY <1>2, JobsAssumption DEF Fetch
<1>3. CASE FetchNothing(w)
  BY <1>3 DEF FetchNothing
<1>4. CASE EndLoop(w)
  BY <1>4 DEF EndLoop
<1>5. CASE Start(w)
  BY <1>5 DEF Start
<1>6. CASE Skip(w)
  BY <1>6 DEF Skip
<1>7. CASE Enlist(w)
  BY <1>7 DEF Enlist
<1>8. CASE Run(w)
  BY <1>8 DEF Run
<1>9. CASE Finish(w)
  BY <1>9 DEF Finish, Finished
<1> QED BY <1>1, <1>2, <1>3, <1>4, <1>5, <1>6, <1>7, <1>8, <1>9 DEF Worker

LEMMA PoolNext == PoolInv /\ [Next]_vars => PoolInv'
<1> SUFFICES ASSUME PoolInv, [Next]_vars PROVE PoolInv'
  OBVIOUS
<1>1. CASE UNCHANGED vars
  BY <1>1 DEF vars, list, walk, workers, jobs, PoolInv, TypeOK, HandsFull, SomebodyRuns, NobodyLeft
<1> QED BY <1>1, MainNext, WorkerNext DEF Next

LEMMA PoolInvariant == Spec => []PoolInv
BY PoolInit, PoolNext, PTL DEF Spec

(* The state of the pool has its types.                                       *)
THEOREM TypeCorrect == Spec => []TypeOK
<1>1. PoolInv => TypeOK
  BY DEF PoolInv
<1> QED BY <1>1, PoolInvariant, PTL

(* Once Shutdown has returned no thread is left, none holds a job and no job  *)
(* is listed as running: whatever the walk and the aborts found on their way. *)
THEOREM ShutdownLeavesNobody ==
  Spec => [](main = "down" => running = {} /\ \A w \in Workers : pc[w] = "over" /\ at[w] = none)
<1>1. PoolInv => (main = "down" => running = {} /\ \A w \in Workers : pc[w] = "over" /\ at[w] = none)
  BY DEF PoolInv, HandsFull, SomebodyRuns, NobodyLeft, Busy
<1> QED BY <1>1, PoolInvariant, PTL

(* An abort is never undone: neither by the worker that is about to start the *)
(* job, nor by the one that has just run it, nor by another abort.            *)
THEOREM AbortsHold == Spec => AbortHolds
<1> DEFINE Kept == \A j \in Jobs : jobState[j] = "aborted" => jobState'[j] = "aborted"
<1>1. ASSUME PoolInv, Next PROVE Kept
  <2>1. jobState \in [Jobs -> {"queued", "running", "done", "aborted"}]
    BY <1>1 DEF PoolInv, TypeOK
  <2>2. ASSUME NEW w \in Workers, Worker(w) PROVE Kept
    <3>1. CASE Start(w)
      BY <2>1, <3>1 DEF Start, MayStart
    <3>2. CASE Finish(w)
      BY <2>1, <3>2 DEF Finish, Finished
    <3>3. CASE ~Start(w) /\ ~Finish(w)
      BY <2>2, <3>3 DEF Worker, Wait, Fetch, FetchNothing, EndLoop, Skip, Enlist, Run
    <3> QED BY <3>1, <3>2, <3>3
  <2>3. ASSUME InitPool \/ Shutdown PROVE Kept
    BY <2>3 DEF InitPool, Shutdown
  <2>4. ASSUME MainStep PROVE Kept
    BY <2>1, <2>4 DEF MainStep, Signal, Unqueue, AbortQueued, Unqueued, AbortRunning, Wake, Join
  <2>5. ASSUME NEW j \in Jobs, Add(j) \/ Refuse(j) \/ Abort(j) PROVE Kept
    BY <2>1, <2>5 DEF Add, Refuse, Abort
  <2> QED BY <1>1, <2>2, <2>3, <2>4, <2>5 DEF Next
<1>2. PoolInv /\ [Next]_vars => [Kept]_vars
  BY <1>1
<1> QED BY <1>2, PoolInvariant, PTL DEF Spec, AbortHolds
=============================================================================
