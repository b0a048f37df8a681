------------------------------- MODULE DbPool -------------------------------
(***************************************************************************)
(* The database pool (engine/server/databases/connection_pool.cpp): the    *)
(* main thread puts queries into a ring, the backup thread looks at each   *)
(* one first and copies writes to the backup database, then the worker     *)
(* thread takes it out of the ring and executes it, and for a write that   *)
(* it executed (or did not) deletes the copy (or moves it to the backup's  *)
(* own tables).                                                            *)
(*                                                                         *)
(* A step is what a thread does between two accesses to what the threads   *)
(* share: the slots, the two semaphores and m_Shutdown.  Nothing in the    *)
(* code keeps the main thread from running around the ring; MaxBacklog is  *)
(* how far it does.                                                        *)
(***************************************************************************)
EXTENDS Integers

CONSTANTS
  QueueSize,       \* size of m_aQueries
  MaxBacklog,      \* bound on the queries put but not taken by the worker
  MaxQueries,      \* bound on the queries of a run
  Kinds,           \* what the main thread asks for
  ServerMay,       \* what becomes of a statement on the write server
  BackupMay        \* what becomes of a statement on the backup database

AllKinds == {"read", "write", "stats", "add_read", "add_write", "add_backup", "print"}

ASSUME SizeAssumption == QueueSize \in Nat \ {0} /\ MaxBacklog \in Nat /\ MaxQueries \in Nat
ASSUME KindsAssumption == Kinds \subseteq AllKinds
(* "lost": done, but the connection broke before the answer.  "half": of    *)
(* the two statements of a move, the second one fails.                      *)
ASSUME OutcomesAssumption ==
  /\ ServerMay \subseteq {"done", "refused", "lost"} /\ ServerMay # {}
  /\ "refused" \in ServerMay
  /\ BackupMay \subseteq {"done", "refused", "half"} /\ "done" \in BackupMay

VARIABLES
  queue,       \* m_aQueries: the query in each slot, or NoQuery
  submitted,   \* queries put so far; m_InsertIdx is submitted % QueueSize
  kind,        \* m_Mode of each query
  main,        \* the main thread: "open" | "signal" | "waiting" | "joining" | "closed"
  closing,     \* m_pShared->m_Shutdown
  numBackup, numWorker,        \* the semaphores
  backup, seen, backupQuery,   \* backup thread: where it is, JobNum, pThreadData
  backupReady,                 \* its m_pWriteBackup is set
  worker, taken, query,        \* worker thread: where it is, JobNum, pThreadData
  success, failMode,           \* its locals Success and FailMode
  servers,     \* the connections the worker has: subset of {"read", "write", "backup"}
  primary, spare, moved,       \* rows on the write server, in the backup's tables
                               \* ..._backup and in its tables proper
  answer       \* how each query ended: Success, and with it m_Completed and m_Success of
               \* its result if the caller wants one

ring    == <<queue, submitted, kind>>
sems    == <<numBackup, numWorker>>
backups == <<backup, seen, backupQuery, backupReady>>
workers == <<worker, taken, query, success, failMode, servers>>
rows    == <<primary, spare, moved>>
vars    == <<ring, main, closing, sems, backups, workers, rows, answer>>

Ids == 1 .. MaxQueries
Slots == 0 .. QueueSize - 1
Place(n) == n % QueueSize  \* of the query after the first n
NoQuery == 0
Writes == {"write", "stats"}
OfKind(K) == {q \in Ids : kind[q] \in K}

Init ==
  /\ queue = [s \in Slots |-> NoQuery]
  /\ submitted = 0 /\ kind = [q \in Ids |-> "unused"]
  /\ main = "open" /\ closing = FALSE
  /\ numBackup = 0 /\ numWorker = 0
  /\ backup = "wait" /\ seen = 0 /\ backupQuery = NoQuery /\ backupReady = FALSE
  /\ worker = "head" /\ taken = 0 /\ query = NoQuery
  /\ success = FALSE /\ failMode = FALSE /\ servers = {}
  /\ primary = [q \in Ids |-> 0] /\ spare = [q \in Ids |-> 0] /\ moved = [q \in Ids |-> 0]
  /\ answer = [q \in Ids |-> "none"]

----------------------------------------------------------------------------
(* The main thread. *)

(* Run registers the backup database once, before there are players whose    *)
(* scores could be saved; anything else may be asked for at any time.         *)
InSeason(k) == k = "add_backup" => OfKind(Writes \cup {"add_backup"}) = {}

Put(k) ==
  /\ main = "open" /\ InSeason(k)
  /\ submitted < MaxQueries /\ submitted - taken < MaxBacklog
  /\ queue' = [queue EXCEPT ![Place(submitted)] = submitted + 1]
  /\ kind' = [kind EXCEPT ![submitted + 1] = k]
  /\ submitted' = submitted + 1
  /\ main' = "signal"
  /\ UNCHANGED <<closing, sems, backups, workers, rows, answer>>

SignalBoth ==  \* mutant: the worker is woken as well
  /\ main = "signal"
  /\ main' = "open" /\ numBackup' = numBackup + 1 /\ numWorker' = numWorker + 1
  /\ UNCHANGED <<ring, closing, backups, workers, rows, answer>>
Signal ==
  /\ main = "signal"
  /\ main' = "open" /\ numBackup' = numBackup + 1
  /\ UNCHANGED <<ring, closing, numWorker, backups, workers, rows, answer>>

OnShutdown ==
  /\ main = "open"
  /\ main' = "waiting" /\ closing' = TRUE /\ numBackup' = numBackup + 1
  /\ UNCHANGED <<ring, numWorker, backups, workers, rows, answer>>

(* The loop of OnShutdown ends, and the destructor waits for the threads. *)
WaitedNot ==  \* mutant: OnShutdown returns at once
  /\ main = "waiting"
  /\ main' = "joining"
  /\ UNCHANGED <<ring, closing, sems, backups, workers, rows, answer>>
Waited ==
  /\ main = "waiting" /\ ~closing
  /\ main' = "joining"
  /\ UNCHANGED <<ring, closing, sems, backups, workers, rows, answer>>

Joined ==
  /\ main = "joining" /\ worker = "gone" /\ backup = "gone"
  /\ main' = "closed"
  /\ UNCHANGED <<ring, closing, sems, backups, workers, rows, answer>>

----------------------------------------------------------------------------
(* The backup thread. *)

BackupTake ==
  /\ backup = "wait" /\ numBackup > 0 /\ queue[Place(seen)] # NoQuery
  /\ numBackup' = numBackup - 1
  /\ backupQuery' = queue[Place(seen)]
  /\ seen' = seen + 1
  /\ backup' = "copy"
  /\ UNCHANGED <<ring, main, closing, numWorker, backupReady, workers, rows, answer>>

LeaveQuietly ==  \* mutant: the end is not passed on to the worker
  /\ backup = "wait" /\ numBackup > 0 /\ queue[Place(seen)] = NoQuery
  /\ numBackup' = numBackup - 1
  /\ backup' = "gone"
  /\ UNCHANGED <<ring, main, closing, numWorker, seen, backupQuery, backupReady,
                 workers, rows, answer>>
BackupLeave ==
  /\ backup = "wait" /\ numBackup > 0 /\ queue[Place(seen)] = NoQuery
  /\ numBackup' = numBackup - 1 /\ numWorker' = numWorker + 1
  /\ backup' = "gone"
  /\ UNCHANGED <<ring, main, closing, seen, backupQuery, backupReady, workers, rows, answer>>

(* Only the score queries look at the Write argument and keep a row;         *)
(* SaveStats returns as soon as its statement is prepared, on any database.  *)
Keeps(q) == kind[q] = "write"

PassOnWrites ==  \* mutant: skips over read queries for good
  numWorker' = IF kind[backupQuery] = "read" THEN numWorker ELSE numWorker + 1
PassOn == numWorker' = numWorker + 1

(* Write::BACKUP_FIRST. *)
BackupCopy ==
  /\ backup = "copy"
  /\ backupReady' = (backupReady \/ kind[backupQuery] = "add_backup")
  /\ \E outcome \in BackupMay :
       spare' = [spare EXCEPT ![backupQuery] =
         IF backupReady /\ Keeps(backupQuery) /\ outcome = "done" THEN 1 ELSE @]
  /\ PassOn
  /\ backup' = "wait"
  /\ UNCHANGED <<ring, main, closing, numBackup, seen, backupQuery, workers, primary,
                 moved, answer>>

----------------------------------------------------------------------------
(* The worker thread. *)

(* Fail mode ends when the semaphore says that no query waits. *)
WorkerHead ==
  /\ worker = "head"
  /\ failMode' = (failMode /\ numWorker # 0)
  /\ worker' = "wait"
  /\ UNCHANGED <<ring, main, closing, sems, backups, taken, query, success, servers, rows, answer>>

WorkerTake ==
  /\ worker = "wait" /\ numWorker > 0 /\ queue[Place(taken)] # NoQuery
  /\ numWorker' = numWorker - 1
  /\ query' = queue[Place(taken)]
  /\ queue' = [queue EXCEPT ![Place(taken)] = NoQuery]
  /\ taken' = taken + 1
  /\ worker' = "execute"
  /\ UNCHANGED <<submitted, kind, main, closing, numBackup, backups, success, failMode,
                 servers, rows, answer>>

WorkerLeave ==
  /\ worker = "wait" /\ numWorker > 0 /\ queue[Place(taken)] = NoQuery
  /\ numWorker' = numWorker - 1
  /\ closing' = FALSE
  /\ worker' = "gone"
  /\ UNCHANGED <<ring, main, numBackup, backups, taken, query, success, failMode,
                 servers, rows, answer>>

Completed(ok) ==
  /\ answer' = [answer EXCEPT ![query] = IF ok THEN "success" ELSE "failure"]
  /\ success' = ok
  /\ worker' = "head"

(* One of the read servers answers, unless there is none or it is skipped. *)
ExecuteRead ==
  /\ worker = "execute" /\ kind[query] = "read"
  /\ \E ok \in BOOLEAN :
       /\ ok => "read" \in servers /\ ~closing /\ ~failMode
       /\ failMode' = (failMode \/ ~ok)
       /\ Completed(ok)
  /\ UNCHANGED <<ring, main, closing, sems, backups, taken, query, servers, rows>>

Added(k) ==
  CASE k = "add_read" -> {"read"}
    [] k = "add_write" -> {"write"}
    [] k = "add_backup" -> {"backup"}
    [] OTHER -> {}

ExecuteAdd ==
  /\ worker = "execute" /\ kind[query] \notin Writes \cup {"read"}
  /\ servers' = servers \cup Added(kind[query])
  /\ Completed(TRUE)
  /\ UNCHANGED <<ring, main, closing, sems, backups, taken, query, failMode, rows>>

SkipToBackup == "backup" \in servers /\ (closing \/ failMode)

(* Write::NORMAL. *)
ExecuteWrite ==
  /\ worker = "execute" /\ kind[query] \in Writes
  /\ \E outcome \in ServerMay :
       /\ SkipToBackup \/ "write" \notin servers => outcome = "refused"
       /\ success' = (outcome = "done")
       /\ failMode' = (failMode \/ outcome # "done")
       /\ primary' = [primary EXCEPT ![query] =
            IF Keeps(query) /\ outcome # "refused" THEN @ + 1 ELSE @]
  /\ worker' = "settle"
  /\ UNCHANGED <<ring, main, closing, sems, backups, taken, query, servers, spare, moved, answer>>

LeaveCopy(outcome) == UNCHANGED <<spare, moved>>  \* mutant: NORMAL_SUCCEEDED has no case
(* Write::NORMAL_SUCCEEDED. *)
DeleteCopy(outcome) ==
  /\ spare' = [spare EXCEPT ![query] = IF outcome = "refused" THEN @ ELSE 0]
  /\ UNCHANGED moved

(* Write::NORMAL_FAILED. *)
MoveCopy(outcome) ==
  /\ moved' = [moved EXCEPT ![query] = IF outcome = "refused" THEN @ ELSE @ + spare[query]]
  /\ spare' = [spare EXCEPT ![query] = IF outcome = "done" THEN 0 ELSE @]

SettleAlike(outcome) ==  \* mutant: NORMAL_FAILED is taken for NORMAL_SUCCEEDED
  IF Keeps(query) THEN DeleteCopy(outcome) ELSE UNCHANGED <<spare, moved>>
Settle(outcome) ==
  IF ~Keeps(query) THEN UNCHANGED <<spare, moved>>
  ELSE IF success THEN DeleteCopy(outcome) ELSE MoveCopy(outcome)

SettleWrite ==
  /\ worker = "settle"
  /\ IF "backup" \in servers
       THEN \E outcome \in BackupMay :
              Settle(outcome) /\ Completed(success \/ outcome = "done")
       ELSE UNCHANGED <<spare, moved>> /\ Completed(success)
  /\ UNCHANGED <<ring, main, closing, sems, backups, taken, query, failMode, servers, primary>>

----------------------------------------------------------------------------
MainThread == (\E k \in Kinds : Put(k)) \/ Signal \/ OnShutdown \/ Waited \/ Joined
BackupThread == BackupTake \/ BackupLeave \/ BackupCopy
WorkerThread ==
  \/ WorkerHead \/ WorkerTake \/ WorkerLeave
  \/ ExecuteRead \/ ExecuteAdd \/ ExecuteWrite \/ SettleWrite

Next == MainThread \/ BackupThread \/ WorkerThread
Spec == Init /\ [][Next]_vars

(* Each thread goes on; statements come to an end by the timeouts of the     *)
(* connection.  Nothing is assumed of what the main thread asks for or of    *)
(* when it shuts down.                                                       *)
Fairness ==
  /\ WF_vars(Signal \/ Waited \/ Joined)
  /\ WF_vars(BackupThread)
  /\ WF_vars(WorkerThread)
FairSpec == Spec /\ Fairness

----------------------------------------------------------------------------
(* The types of all variables: the semaphores never count more than the      *)
(* queries and the shutdown put together, and no row is ever stored twice in *)
(* one table.                                                                *)
MainTypes ==
  /\ queue \in [Slots -> Ids \cup {NoQuery}]
  /\ submitted \in 0 .. MaxQueries
  /\ kind \in [Ids -> AllKinds \cup {"unused"}]
  /\ main \in {"open", "signal", "waiting", "joining", "closed"}
  /\ closing \in BOOLEAN
  /\ numBackup \in 0 .. MaxQueries + 1 /\ numWorker \in 0 .. MaxQueries + 1
BackupTypes ==
  /\ backup \in {"wait", "copy", "gone"}
  /\ seen \in 0 .. MaxQueries
  /\ backupQuery \in Ids \cup {NoQuery}
  /\ backupReady \in BOOLEAN
WorkerTypes ==
  /\ worker \in {"head", "wait", "execute", "settle", "gone"}
  /\ taken \in 0 .. MaxQueries
  /\ query \in Ids \cup {NoQuery}
  /\ success \in BOOLEAN /\ failMode \in BOOLEAN
  /\ servers \subseteq {"read", "write", "backup"}
RowTypes ==
  /\ primary \in [Ids -> 0 .. 1]
  /\ spare \in [Ids -> 0 .. 1]
  /\ moved \in [Ids -> 0 .. 1]
  /\ answer \in [Ids -> {"none", "success", "failure"}]
TypeOK == MainTypes /\ BackupTypes /\ WorkerTypes /\ RowTypes

(* The pool keeps the promise of DbService: each query is answered once, in  *)
(* the order of the calls, though it is found by its place in a ring that    *)
(* three threads index with counters of their own, and OnShutdown returns    *)
(* only after the last one.                                                  *)
Answered == {q \in Ids : answer[q] # "none"}
Phase ==
  IF main \in {"open", "signal"} THEN "open"
  ELSE IF main = "waiting" THEN "closing" ELSE "closed"
Service == INSTANCE DbService WITH
  accepted <- submitted, answered <- Answered, phase <- Phase
KeepsPromise == Service!Spec

(* A score that is in some table is in some table ever after, whatever       *)
(* fails: the copy goes only when the write server has the score, and the    *)
(* process may be killed between any two steps.                              *)
Stored(q) == primary[q] + spare[q] + moved[q] > 0
NothingLost == [][\A q \in Ids : Stored(q) => Stored(q)']_vars

(* The backup thread is always ahead: a score the worker has taken is in     *)
(* some table, so that no crash of the write server or of the process loses  *)
(* it, if the backup database was registered and takes what it is given.     *)
Protected(q) == kind[q] = "write" /\ \E b \in 1 .. q : kind[b] = "add_backup"
CopiedFirst == \A q \in 1 .. taken : Protected(q) => Stored(q)

(* Once its query is answered, a score is in one table only: no copy is left *)
(* of what the write server has, and nothing else is moved.                  *)
SettledOnce ==
  \A q \in Ids : Protected(q) /\ answer[q] # "none" =>
    spare[q] = 0 /\ primary[q] + moved[q] = 1

(* A write reported as a success is in some table.                           *)
SuccessIsStored ==
  \A q \in Ids : kind[q] \in Writes /\ answer[q] = "success" => Stored(q)

(* Every query is answered.                                                  *)
AllAnswered == \A q \in Ids : submitted >= q ~> answer[q] # "none"

(* A server that shuts down comes to an end, with both threads gone.         *)
ShutdownReturns == main = "waiting" ~> main = "closed"

=============================================================================
