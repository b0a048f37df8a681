---------------------------- MODULE DbPool_proof ----------------------------
(* Proofs about DbPool for a ring of any size that is never filled: the main *)
(* thread stays at least one slot short of a full round.                     *)
EXTENDS DbPool, TLAPS

Room == MaxBacklog < QueueSize

(* The queries between the two counters are where the counters say, and      *)
(* nothing else is in the ring.                                              *)
Ring ==
  /\ \A s \in Slots : queue[s] # NoQuery =>
       queue[s] \in taken + 1 .. submitted /\ s = Place(queue[s] - 1)
  /\ \A q \in taken + 1 .. submitted : queue[Place(q - 1)] = q
  /\ submitted - taken <= MaxBacklog
  /\ \A q \in Ids : kind[q] # "unused" <=> q <= submitted

Closed == main \in {"waiting", "joining", "closed"}
InHand == IF backup = "copy" THEN 1 ELSE 0
Copied == seen - InHand
Busy == worker \in {"execute", "settle"}

(* What the semaphores count. *)
Tokens ==
  /\ taken <= Copied /\ seen <= submitted
  /\ numBackup = (submitted - (IF main = "signal" THEN 1 ELSE 0)) - seen
                   + (IF Closed /\ backup # "gone" THEN 1 ELSE 0)
  /\ numWorker = (Copied - taken) + (IF backup = "gone" /\ worker # "gone" THEN 1 ELSE 0)

(* The threads leave one after the other, with nothing left to do. *)
Ends ==
  /\ backup = "gone" => Closed /\ seen = submitted
  /\ worker = "gone" => backup = "gone" /\ taken = submitted
  /\ closing <=> (main = "waiting" /\ worker # "gone")
  /\ main \in {"joining", "closed"} => worker = "gone"

(* What the threads have in hand, and what has been answered. *)
InOrder ==
  /\ backup = "copy" => backupQuery = seen /\ seen > 0
  /\ Busy => query = taken /\ taken > 0
  /\ worker = "settle" => kind[query] \in Writes
  /\ \A q \in Ids : answer[q] # "none" <=> q <= taken /\ ~(Busy /\ q = taken)

(* Rows: nothing is stored before its time. *)
Rows ==
  /\ \A q \in Ids : q > Copied => spare[q] = 0
  /\ \A q \in Ids : q > taken \/ (Busy /\ q = taken) => moved[q] = 0
  /\ \A q \in Ids : q > taken \/ (worker = "execute" /\ q = taken) => primary[q] = 0
  /\ worker = "settle" /\ success /\ Keeps(query) => primary[query] = 1

Inv == TypeOK /\ Ring /\ Tokens /\ Ends /\ InOrder /\ Rows

----------------------------------------------------------------------------
(* Queries less than a round apart have places of their own. *)
LEMMA PlaceIsSlot == \A n \in Nat : Place(n) \in Slots
  BY SizeAssumption DEF Place, Slots

LEMMA PlacesApart ==
  ASSUME NEW m \in Nat, NEW n \in Nat, m <= n, n - m < QueueSize, Place(m) = Place(n)
  PROVE  m = n
  <1> DEFINE Q == QueueSize
             d == n \div Q - m \div Q
  <1>1. Q \in Nat \ {0}
    BY SizeAssumption
  <1>2. m % Q = m - Q * (m \div Q) /\ n % Q = n - Q * (n \div Q)
    <2> HIDE DEF Q
    <2> QED
      BY <1>1
  <1>3. m \div Q \in Int /\ n \div Q \in Int
    BY <1>1
  <1>4. n - m = Q * d
    BY <1>1, <1>2, <1>3 DEF Place
  <1>5. d = 0
    <2>1. d \in Int
      BY <1>3
    <2>2. CASE d >= 1
      BY <1>1, <1>4, <2>1, <2>2
    <2>3. CASE d <= -1
      BY <1>1, <1>4, <2>1, <2>3
    <2> QED
      BY <2>1, <2>2, <2>3
  <1> QED
    BY <1>1, <1>4, <1>5

----------------------------------------------------------------------------
(* What the threads find in the ring. *)
LEMMA PutFindsItEmpty ==
  ASSUME Room, Inv, submitted - taken < MaxBacklog
  PROVE  queue[Place(submitted)] = NoQuery
  <1> SUFFICES ASSUME queue[Place(submitted)] # NoQuery PROVE FALSE
    OBVIOUS
  <1> DEFINE q == queue[Place(submitted)]
  <1>1. submitted \in Nat /\ taken \in Nat /\ Place(submitted) \in Slots
    BY PlaceIsSlot, SizeAssumption DEF Inv, TypeOK, MainTypes, WorkerTypes
  <1>2. q \in taken + 1 .. submitted /\ Place(submitted) = Place(q - 1)
    BY <1>1 DEF Inv, Ring
  <1>3. q - 1 \in Nat /\ q - 1 <= submitted /\ submitted - (q - 1) < QueueSize
    BY <1>1, <1>2, SizeAssumption DEF Room
  <1>4. q - 1 = submitted
    BY <1>1, <1>2, <1>3, PlacesApart
  <1> QED
    BY <1>1, <1>2, <1>4

LEMMA TakeFindsTheNext ==
  ASSUME Room, Inv, NEW n \in {seen, taken}
  PROVE  IF n < submitted THEN queue[Place(n)] = n + 1 ELSE queue[Place(n)] = NoQuery
  <1>1. /\ submitted \in Nat /\ taken \in Nat /\ n \in Nat /\ Place(n) \in Slots
        /\ taken <= n /\ n <= submitted
    <2>1. submitted \in Nat /\ taken \in Nat /\ seen \in Nat
      BY SizeAssumption DEF Inv, TypeOK, MainTypes, BackupTypes, WorkerTypes
    <2>2. taken <= seen /\ seen <= submitted
      BY <2>1 DEF Inv, Tokens, Copied, InHand
    <2> QED
      BY <2>1, <2>2, PlaceIsSlot
  <1>2. CASE n < submitted
    <2>1. n + 1 \in taken + 1 .. submitted /\ (n + 1) - 1 = n
      BY <1>1, <1>2
    <2>2. queue[Place((n + 1) - 1)] = n + 1
      BY <2>1 DEF Inv, Ring
    <2> QED
      BY <1>2, <2>1, <2>2
  <1>3. CASE n = submitted
    <2> SUFFICES ASSUME queue[Place(n)] # NoQuery PROVE FALSE
      BY <1>3, <1>1
    <2> DEFINE q == queue[Place(n)]
    <2>1. q \in taken + 1 .. submitted /\ Place(n) = Place(q - 1)
      BY <1>1 DEF Inv, Ring
    <2>2. q - 1 \in Nat /\ q - 1 <= n /\ n - (q - 1) < QueueSize
      BY <1>1, <1>3, <2>1, SizeAssumption DEF Room, Inv, Ring
    <2>3. q - 1 = n
      BY <1>1, <2>1, <2>2, PlacesApart
    <2> QED
      BY <1>1, <1>3, <2>1, <2>3
  <1> QED
    BY <1>1, <1>2, <1>3

----------------------------------------------------------------------------
LEMMA InvInit == Init => Inv
  <1> SUFFICES ASSUME Init PROVE Inv
    OBVIOUS
  <1> USE DEF Init
  <1>1. TypeOK
    <2> /\ closing \in BOOLEAN /\ backupReady \in BOOLEAN
        /\ success \in BOOLEAN /\ failMode \in BOOLEAN
      BY Zenon
    <2>1. MainTypes
      BY SizeAssumption DEF MainTypes, Ids, NoQuery
    <2>2. BackupTypes
      BY SizeAssumption DEF BackupTypes, Ids, NoQuery
    <2>3. WorkerTypes
      BY SizeAssumption DEF WorkerTypes, Ids, NoQuery
    <2>4. RowTypes
      BY SizeAssumption DEF RowTypes, Ids
    <2> QED
      BY <2>1, <2>2, <2>3, <2>4 DEF TypeOK
  <1>2. Ring
    BY SizeAssumption DEF Ring, Ids, NoQuery
  <1>3. Tokens /\ Ends
    BY DEF Tokens, Ends, Copied, InHand, Closed
  <1>4. InOrder /\ Rows
    BY DEF InOrder, Rows, Copied, InHand, Busy, Ids
  <1> QED
    BY <1>1, <1>2, <1>3, <1>4 DEF Inv

(* The numbers, as the arithmetic of the steps needs them. *)
LEMMA Counters ==
  ASSUME Inv
  PROVE  /\ submitted \in Nat /\ seen \in Nat /\ taken \in Nat
         /\ numBackup \in Nat /\ numWorker \in Nat
         /\ Copied \in Nat /\ taken <= Copied /\ Copied <= seen /\ seen <= submitted
         /\ submitted <= MaxQueries
  BY SizeAssumption DEF Inv, TypeOK, MainTypes, BackupTypes, WorkerTypes, Tokens, Copied, InHand

LEMMA PutKeepsInv ==
  ASSUME Room, Inv, NEW k \in Kinds, Put(k)
  PROVE  Inv'
  <1> USE DEF ring, sems, backups, workers, rows, Put
  <1>1. Place(submitted) \in Slots /\ queue[Place(submitted)] = NoQuery
    BY Counters, PlaceIsSlot, PutFindsItEmpty
  <1>2. submitted + 1 \in Ids /\ submitted \in Nat /\ taken \in Nat
    BY Counters, SizeAssumption DEF Ids
  <1>3. TypeOK'
    BY <1>1, <1>2, KindsAssumption, SizeAssumption
    DEF Inv, TypeOK, MainTypes, BackupTypes, WorkerTypes, RowTypes, Ids
  <1>4. Ring'
    <2>1. ASSUME NEW s \in Slots, queue'[s] # NoQuery
          PROVE  queue'[s] \in taken + 1 .. submitted + 1 /\ s = Place(queue'[s] - 1)
      <3>1. CASE s = Place(submitted)
        BY <1>1, <1>2, <3>1, Counters DEF Inv, TypeOK, MainTypes
      <3>2. CASE s # Place(submitted)
        BY <1>1, <1>2, <2>1, <3>2 DEF Inv, TypeOK, MainTypes, Ring
      <3> QED
        BY <3>1, <3>2
    <2>2. ASSUME NEW q \in taken + 1 .. submitted + 1
          PROVE  queue'[Place(q - 1)] = q
      <3>1. CASE q = submitted + 1
        BY <1>1, <1>2, <3>1 DEF Inv, TypeOK, MainTypes
      <3>2. CASE q # submitted + 1
        <4>1. q \in taken + 1 .. submitted /\ q - 1 \in Nat
          BY <1>2, <3>2
        <4>2. queue[Place(q - 1)] = q /\ q # NoQuery /\ Place(q - 1) \in Slots
          BY <1>2, <4>1, PlaceIsSlot DEF Inv, Ring, NoQuery
        <4> QED
          BY <1>1, <4>2 DEF Inv, TypeOK, MainTypes
      <3> QED
        BY <3>1, <3>2
    <2>3. \A q \in Ids : kind'[q] # "unused" <=> q <= submitted + 1
      BY <1>2, KindsAssumption DEF Inv, TypeOK, MainTypes, Ring, Ids, AllKinds
    <2>4. submitted + 1 - taken <= MaxBacklog
      BY <1>2, SizeAssumption
    <2>5. submitted' = submitted + 1 /\ taken' = taken
      OBVIOUS
    <2> HIDE DEF Put
    <2> QED
      BY <1>2, <2>1, <2>2, <2>3, <2>4, <2>5 DEF Ring
  <1>5. Tokens' /\ Ends'
    BY <1>2, Counters DEF Inv, Tokens, Ends, Closed, Copied, InHand
  <1>6. InOrder'
    BY <1>2, Counters DEF Inv, TypeOK, MainTypes, Ring, InOrder, Busy, Ids, Writes
  <1>7. Rows'
    BY <1>2, Counters
    DEF Inv, TypeOK, MainTypes, Ring, InOrder, Rows, Busy, Copied, InHand, Ids, Keeps
  <1> QED
    BY <1>3, <1>4, <1>5, <1>6, <1>7 DEF Inv

(* Signal, OnShutdown, Waited and Joined. *)
LEMMA MainKeepsInv ==
  ASSUME Inv, Signal \/ OnShutdown \/ Waited \/ Joined
  PROVE  Inv'
  <1> USE DEF ring, sems, backups, workers, rows, Signal, OnShutdown, Waited, Joined
  <1>1. MainTypes'
    <2>1. numBackup' \in 0 .. MaxQueries + 1
      BY Counters, SizeAssumption DEF Inv, Tokens, Closed, TypeOK, MainTypes
    <2> QED
      BY <2>1 DEF Inv, TypeOK, MainTypes
  <1>2. BackupTypes' /\ WorkerTypes' /\ RowTypes'
    BY DEF Inv, TypeOK, BackupTypes, WorkerTypes, RowTypes
  <1>3. Ring' /\ InOrder' /\ Rows'
    BY DEF Inv, Ring, InOrder, Rows, Busy, Copied, InHand, Keeps
  <1>4. Tokens'
    <2>1. CASE Signal
      BY <2>1, Counters DEF Inv, Tokens, Closed, Copied, InHand
    <2>2. CASE OnShutdown
      BY <2>2, Counters DEF Inv, Tokens, Ends, Closed, Copied, InHand
    <2>3. CASE Waited \/ Joined
      BY <2>3, Counters DEF Inv, Tokens, Closed, Copied, InHand
    <2> QED
      BY <2>1, <2>2, <2>3
  <1>5. Ends'
    BY DEF Inv, TypeOK, MainTypes, Ends, Closed
  <1> QED
    BY <1>1, <1>2, <1>3, <1>4, <1>5 DEF Inv, TypeOK

LEMMA BackupTakeKeepsInv ==
  ASSUME Room, Inv, BackupTake
  PROVE  Inv'
  <1> USE DEF ring, sems, workers, rows, BackupTake
  <1>1. seen < submitted /\ backupQuery' = seen + 1
    BY Counters, TakeFindsTheNext
  <1>2. MainTypes' /\ BackupTypes'
    BY <1>1, Counters, SizeAssumption DEF Inv, TypeOK, MainTypes, BackupTypes, Ids
  <1>3. WorkerTypes' /\ RowTypes' /\ Ring' /\ Ends'
    <2>1. ~(backup' = "gone") /\ ~(backup = "gone")
      OBVIOUS
    <2> QED
      BY <2>1 DEF Inv, TypeOK, WorkerTypes, RowTypes, Ring, Ends, Closed
  <1>4. Copied' = Copied
    BY Counters DEF Copied, InHand
  <1>5. Tokens'
    BY <1>1, <1>4, Counters DEF Inv, Tokens, Closed
  <1>6. InOrder'
    BY <1>1, Counters DEF Inv, InOrder, Busy
  <1>7. Rows'
    BY <1>4 DEF Inv, Rows, Busy, Keeps
  <1> QED
    BY <1>2, <1>3, <1>5, <1>6, <1>7 DEF Inv, TypeOK

LEMMA BackupLeaveKeepsInv ==
  ASSUME Room, Inv, BackupLeave
  PROVE  Inv'
  <1> USE DEF ring, sems, workers, rows, BackupLeave
  <1>1. seen = submitted
    BY Counters, TakeFindsTheNext DEF NoQuery
  <1>2. Closed
    BY <1>1, Counters DEF Inv, Tokens
  <1>3. worker # "gone"
    BY DEF Inv, Ends
  <1>4. Copied' = Copied /\ Copied = seen
    BY Counters DEF Copied, InHand
  <1>5. MainTypes' /\ BackupTypes'
    <2>1. numBackup' \in 0 .. MaxQueries + 1
      BY Counters, SizeAssumption DEF Inv, TypeOK, MainTypes
    <2>2. numWorker' \in 0 .. MaxQueries + 1
      BY <1>4, Counters, SizeAssumption DEF Inv, Tokens
    <2> QED
      BY <2>1, <2>2 DEF Inv, TypeOK, MainTypes, BackupTypes
  <1>6. WorkerTypes' /\ RowTypes' /\ Ring' /\ InOrder'
    BY DEF Inv, TypeOK, WorkerTypes, RowTypes, Ring, InOrder, Busy
  <1>7. Tokens'
    BY <1>1, <1>2, <1>3, <1>4, Counters DEF Inv, Tokens, Closed
  <1>8. Ends'
    BY <1>1, <1>2, <1>3 DEF Inv, Ends, Closed
  <1>9. Rows'
    BY <1>4 DEF Inv, Rows, Busy, Keeps
  <1> QED
    BY <1>5, <1>6, <1>7, <1>8, <1>9 DEF Inv, TypeOK

LEMMA BackupCopyKeepsInv ==
  ASSUME Inv, BackupCopy
  PROVE  Inv'
  <1> USE DEF ring, workers, BackupCopy, PassOn
  <1>1. Copied' = Copied + 1 /\ Copied + 1 = seen /\ backupQuery = seen /\ seen \in Ids
    BY Counters, SizeAssumption DEF Copied, InHand, Inv, InOrder, Ids
  <1>2. MainTypes' /\ WorkerTypes'
    <2>1. numWorker' \in 0 .. MaxQueries + 1
      BY <1>1, Counters, SizeAssumption DEF Inv, Tokens
    <2> QED
      BY <2>1 DEF Inv, TypeOK, MainTypes, WorkerTypes
  <1>3. BackupTypes'
    <2>1. backupReady' \in BOOLEAN
      BY Zenon
    <2> QED
      BY <2>1 DEF Inv, TypeOK, BackupTypes
  <1>4. RowTypes' /\ \A q \in Ids : q # seen => spare'[q] = spare[q]
    BY <1>1 DEF Inv, TypeOK, RowTypes
  <1>5. Ring' /\ InOrder'
    BY DEF Inv, Ring, InOrder, Busy
  <1>6. Tokens' /\ Ends'
    BY <1>1, Counters DEF Inv, Tokens, Ends, Closed
  <1>7. Rows'
    BY <1>1, <1>4, Counters DEF Inv, Rows, Busy, Keeps, Ids
  <1> QED
    BY <1>2, <1>3, <1>4, <1>5, <1>6, <1>7 DEF Inv, TypeOK

LEMMA WorkerTakeKeepsInv ==
  ASSUME Room, Inv, WorkerTake
  PROVE  Inv'
  <1> USE DEF ring, backups, rows, WorkerTake
  <1>1. taken < submitted /\ query' = taken + 1 /\ Place(taken) \in Slots
    BY Counters, TakeFindsTheNext, PlaceIsSlot
  <1>2. taken + 1 <= Copied
    BY <1>1, Counters DEF Inv, Tokens, Ends, Copied, InHand
  <1>3. MainTypes' /\ WorkerTypes'
    <2>1. queue' \in [Slots -> Ids \cup {NoQuery}]
      BY DEF Inv, TypeOK, MainTypes
    <2>2. taken + 1 \in 0 .. MaxQueries /\ taken + 1 \in Ids
      BY <1>1, Counters, SizeAssumption DEF Ids
    <2>3. numWorker' \in 0 .. MaxQueries + 1
      BY Counters, SizeAssumption DEF Inv, TypeOK, MainTypes
    <2> QED
      BY <1>1, <2>1, <2>2, <2>3 DEF Inv, TypeOK, MainTypes, WorkerTypes
  <1>4. BackupTypes' /\ RowTypes' /\ Copied' = Copied
    BY DEF Inv, TypeOK, BackupTypes, RowTypes, Copied, InHand
  <1>5. Ring'
    <2>1. ASSUME NEW s \in Slots, queue'[s] # NoQuery
          PROVE  queue'[s] \in taken + 2 .. submitted /\ s = Place(queue'[s] - 1)
      <3>1. s # Place(taken) /\ queue'[s] = queue[s]
        BY <1>1, <2>1 DEF Inv, TypeOK, MainTypes
      <3>2. queue[s] \in taken + 1 .. submitted /\ s = Place(queue[s] - 1)
        BY <2>1, <3>1 DEF Inv, Ring
      <3>3. queue[s] # taken + 1
        BY <3>1, <3>2, Counters
      <3> QED
        BY <3>1, <3>2, <3>3, Counters
    <2>2. ASSUME NEW q \in taken + 2 .. submitted
          PROVE  queue'[Place(q - 1)] = q
      <3>1. q \in taken + 1 .. submitted /\ q - 1 \in Nat /\ q # taken + 1
        BY Counters
      <3>2. queue[Place(q - 1)] = q /\ Place(q - 1) \in Slots
        BY <3>1, PlaceIsSlot DEF Inv, Ring
      <3>3. Place(q - 1) # Place(taken)
        BY <3>1, <3>2, <1>1, Counters, TakeFindsTheNext
      <3> QED
        BY <3>2, <3>3 DEF Inv, TypeOK, MainTypes
    <2>3. submitted - (taken + 1) <= MaxBacklog
      BY Counters, SizeAssumption DEF Inv, Ring
    <2>4. /\ taken' = taken + 1 /\ submitted' = submitted /\ kind' = kind
          /\ taken + 2 = (taken + 1) + 1
      BY Counters
    <2>5. \A q \in Ids : kind[q] # "unused" <=> q <= submitted
      BY DEF Inv, Ring
    <2> HIDE DEF WorkerTake
    <2> QED
      BY <2>1, <2>2, <2>3, <2>4, <2>5, Counters DEF Ring
  <1>6. Tokens'
    BY <1>2, <1>4, Counters DEF Inv, Tokens, Closed
  <1>7. Ends'
    BY <1>1, Counters DEF Inv, Ends, Closed
  <1>8. InOrder'
    BY <1>1, Counters DEF Inv, InOrder, Busy, Ids
  <1>9. Rows'
    BY <1>1, <1>4, Counters DEF Inv, Rows, Busy, Keeps, Ids
  <1> QED
    BY <1>3, <1>4, <1>5, <1>6, <1>7, <1>8, <1>9 DEF Inv, TypeOK

LEMMA WorkerLeaveKeepsInv ==
  ASSUME Room, Inv, WorkerLeave
  PROVE  Inv'
  <1> USE DEF ring, backups, rows, WorkerLeave
  <1>1. taken = submitted
    BY Counters, TakeFindsTheNext DEF NoQuery
  <1>2. backup = "gone" /\ numWorker' = 0
    BY <1>1, Counters DEF Inv, Tokens
  <1>3. TypeOK'
    <2>1. closing' \in BOOLEAN
      BY Zenon
    <2> QED
      BY <1>2, <2>1, SizeAssumption
      DEF Inv, TypeOK, MainTypes, BackupTypes, WorkerTypes, RowTypes
  <1>4. Ring' /\ InOrder' /\ Rows'
    BY DEF Inv, Ring, InOrder, Rows, Busy, Copied, InHand, Keeps
  <1>5. Tokens'
    BY <1>1, <1>2, Counters DEF Inv, Tokens, Copied, InHand, Closed
  <1>6. Ends'
    BY <1>1, <1>2 DEF Inv, Ends, Closed
  <1> QED
    BY <1>3, <1>4, <1>5, <1>6 DEF Inv

(* What the worker does with the query it has. *)
LEMMA InHandOfWorker ==
  ASSUME Inv, Busy
  PROVE  /\ query = taken /\ query \in Ids /\ query <= Copied
         /\ answer[query] = "none" /\ moved[query] = 0
         /\ worker = "execute" => primary[query] = 0
  <1>1. query = taken /\ taken \in Ids
    BY Counters, SizeAssumption DEF Inv, InOrder, Ids
  <1> QED
    BY <1>1, Counters DEF Inv, InOrder, Rows

LEMMA HeadKeepsInv ==
  ASSUME Inv, WorkerHead
  PROVE  Inv'
  <1> USE DEF ring, sems, backups, rows, WorkerHead
  <1>1. TypeOK'
    <2>1. failMode' \in BOOLEAN
      BY Zenon
    <2> QED
      BY <2>1 DEF Inv, TypeOK, MainTypes, BackupTypes, WorkerTypes, RowTypes
  <1>2. Ring' /\ Tokens' /\ Ends'
    BY DEF Inv, Ring, Tokens, Ends, Copied, InHand, Closed
  <1>3. InOrder' /\ Rows'
    BY DEF Inv, InOrder, Rows, Busy, Copied, InHand, Keeps
  <1> QED
    BY <1>1, <1>2, <1>3 DEF Inv

(* A query that is not a write is answered in the step that executes it. *)
LEMMA AnswerKeepsInv ==
  ASSUME Inv, ExecuteRead \/ ExecuteAdd
  PROVE  Inv'
  <1>1. PICK ok \in BOOLEAN : Completed(ok)
    BY DEF ExecuteRead, ExecuteAdd
  <1>2. /\ worker = "execute" /\ servers' \subseteq {"read", "write", "backup"}
        /\ UNCHANGED <<ring, main, closing, sems, backups, taken, query, rows>>
    BY DEF Inv, TypeOK, WorkerTypes, ExecuteRead, ExecuteAdd, Added
  <1>3. failMode' \in BOOLEAN /\ success' \in BOOLEAN
    <2>1. failMode' \in BOOLEAN
      BY Zenon DEF ExecuteRead, ExecuteAdd, Inv, TypeOK, WorkerTypes
    <2>2. success' \in BOOLEAN
      BY <1>1, Zenon DEF Completed
    <2> QED
      BY <2>1, <2>2
  <1>4. Busy /\ worker' = "head"
    BY <1>1, <1>2 DEF Busy, Completed
  <1>5. answer' \in [Ids -> {"none", "success", "failure"}]
        /\ \A q \in Ids : answer'[q] # "none" <=> (answer[q] # "none" \/ q = query)
    BY <1>1, <1>4, InHandOfWorker DEF Completed, Inv, TypeOK, RowTypes
  <1> USE DEF ring, sems, backups, rows
  <1>6. TypeOK'
    BY <1>2, <1>3, <1>4, <1>5 DEF Inv, TypeOK, MainTypes, BackupTypes, WorkerTypes, RowTypes
  <1>7. Ring' /\ Tokens' /\ Ends'
    BY <1>2, <1>4 DEF Inv, Ring, Tokens, Ends, Copied, InHand, Closed
  <1>8. InOrder'
    BY <1>2, <1>4, <1>5, InHandOfWorker, Counters DEF Inv, InOrder, Busy, Ids
  <1>9. Rows'
    BY <1>2, <1>4, InHandOfWorker DEF Inv, Rows, Busy, Copied, InHand
  <1> QED
    BY <1>6, <1>7, <1>8, <1>9 DEF Inv

LEMMA WriteKeepsInv ==
  ASSUME Inv, ExecuteWrite
  PROVE  Inv'
  <1>1. PICK outcome \in ServerMay :
          /\ success' = (outcome = "done")
          /\ failMode' = (failMode \/ outcome # "done")
          /\ primary' = [primary EXCEPT ![query] =
               IF Keeps(query) /\ outcome # "refused" THEN @ + 1 ELSE @]
    BY DEF ExecuteWrite
  <1>2. /\ worker = "execute" /\ worker' = "settle" /\ kind[query] \in Writes
        /\ UNCHANGED <<ring, main, closing, sems, backups, taken, query, servers,
                      spare, moved, answer>>
    BY DEF ExecuteWrite
  <1>3. failMode' \in BOOLEAN /\ success' \in BOOLEAN
    BY <1>1, Zenon
  <1>4. Busy /\ Busy'
    BY <1>2 DEF Busy
  <1>5. primary' \in [Ids -> 0 .. 1] /\ \A q \in Ids : q # query => primary'[q] = primary[q]
    BY <1>1, <1>2, <1>4, InHandOfWorker DEF Inv, TypeOK, RowTypes
  <1>6. success' /\ Keeps(query) => primary'[query] = 1
    <2>1. success' => outcome = "done"
      BY <1>1, Zenon
    <2>2. outcome = "done" /\ Keeps(query) => primary'[query] = 1
      BY <1>1, <1>2, <1>4, InHandOfWorker DEF Inv, TypeOK, RowTypes
    <2> QED
      BY <2>1, <2>2
  <1> USE DEF ring, sems, backups
  <1>7. TypeOK'
    BY <1>2, <1>3, <1>5 DEF Inv, TypeOK, MainTypes, BackupTypes, WorkerTypes, RowTypes
  <1>8. Ring' /\ Tokens' /\ Ends'
    BY <1>2 DEF Inv, Ring, Tokens, Ends, Copied, InHand, Closed
  <1>9. InOrder'
    BY <1>2, <1>4 DEF Inv, InOrder, Busy
  <1>10. Rows'
    <2>1. Keeps(query)' <=> Keeps(query)
      BY <1>2 DEF Keeps
    <2>2. \A q \in Ids : q > taken => primary'[q] = 0
      BY <1>2, <1>4, <1>5, InHandOfWorker, Counters DEF Inv, Rows, Ids
    <2> QED
      BY <1>2, <1>4, <1>6, <2>1, <2>2, InHandOfWorker DEF Inv, Rows, Busy, Copied, InHand
  <1> QED
    BY <1>7, <1>8, <1>9, <1>10 DEF Inv

(* What is left of the copy when a write is settled. *)
LEMMA Settled ==
  ASSUME Inv, SettleWrite
  PROVE  /\ spare' \in [Ids -> 0 .. 1] /\ moved' \in [Ids -> 0 .. 1]
         /\ \A q \in Ids : q # query => spare'[q] = spare[q] /\ moved'[q] = moved[q]
         /\ \/ spare'[query] = spare[query]
            \/ Keeps(query) /\ success
            \/ moved'[query] = spare[query]
  <1>1. query \in Ids /\ moved[query] = 0
    BY InHandOfWorker DEF SettleWrite, Busy
  <1>2. CASE UNCHANGED <<spare, moved>>
    BY <1>2 DEF Inv, TypeOK, RowTypes
  <1>3. ASSUME NEW outcome \in BackupMay, Keeps(query), success, DeleteCopy(outcome)
        PROVE  /\ spare' \in [Ids -> 0 .. 1] /\ moved' \in [Ids -> 0 .. 1]
               /\ \A q \in Ids : q # query => spare'[q] = spare[q] /\ moved'[q] = moved[q]
    BY <1>1, <1>3 DEF DeleteCopy, Inv, TypeOK, RowTypes
  <1>4. ASSUME NEW outcome \in BackupMay, MoveCopy(outcome)
        PROVE  /\ spare' \in [Ids -> 0 .. 1] /\ moved' \in [Ids -> 0 .. 1]
               /\ \A q \in Ids : q # query => spare'[q] = spare[q] /\ moved'[q] = moved[q]
               /\ spare'[query] = spare[query] \/ moved'[query] = spare[query]
    BY <1>1, <1>4 DEF MoveCopy, Inv, TypeOK, RowTypes
  <1> QED
    BY <1>2, <1>3, <1>4 DEF SettleWrite, Settle

LEMMA SettleKeepsInv ==
  ASSUME Inv, SettleWrite
  PROVE  Inv'
  <1>1. PICK ok \in BOOLEAN : Completed(ok)
    <2>1. \A outcome : (success \/ outcome = "done") \in BOOLEAN
      OBVIOUS
    <2>2. success \in BOOLEAN
      BY DEF Inv, TypeOK, WorkerTypes
    <2> QED
      BY <2>1, <2>2 DEF SettleWrite
  <1>2. /\ worker = "settle"
        /\ UNCHANGED <<ring, main, closing, sems, backups, taken, query, failMode, servers,
                      primary>>
    BY DEF SettleWrite
  <1>3. Busy /\ worker' = "head"
    BY <1>1, <1>2 DEF Busy, Completed
  <1>4. success' \in BOOLEAN
    BY <1>1, Zenon DEF Completed
  <1>5. answer' \in [Ids -> {"none", "success", "failure"}]
        /\ \A q \in Ids : answer'[q] # "none" <=> (answer[q] # "none" \/ q = query)
    BY <1>1, <1>3, InHandOfWorker DEF Completed, Inv, TypeOK, RowTypes
  <1> USE DEF ring, sems, backups
  <1>6. TypeOK'
    BY <1>2, <1>3, <1>4, <1>5, Settled
    DEF Inv, TypeOK, MainTypes, BackupTypes, WorkerTypes, RowTypes
  <1>7. Ring' /\ Tokens' /\ Ends'
    BY <1>2, <1>3 DEF Inv, Ring, Tokens, Ends, Copied, InHand, Closed
  <1>8. InOrder'
    BY <1>2, <1>3, <1>5, InHandOfWorker, Counters DEF Inv, InOrder, Busy, Ids
  <1>9. Rows'
    BY <1>2, <1>3, InHandOfWorker, Settled, Counters DEF Inv, Rows, Busy, Copied, InHand, Ids
  <1> QED
    BY <1>6, <1>7, <1>8, <1>9 DEF Inv

LEMMA InvNext == ASSUME Room, Inv, [Next]_vars PROVE Inv'
  <1>1. CASE UNCHANGED vars
    BY <1>1
    DEF vars, ring, sems, backups, workers, rows, Inv, TypeOK, MainTypes, BackupTypes,
        WorkerTypes, RowTypes, Ring, Tokens, Ends, InOrder, Rows, Copied, InHand, Closed,
        Busy, Keeps
  <1>2. CASE MainThread
    BY <1>2, PutKeepsInv, MainKeepsInv DEF MainThread
  <1>3. CASE BackupThread
    BY <1>3, BackupTakeKeepsInv, BackupLeaveKeepsInv, BackupCopyKeepsInv DEF BackupThread
  <1>4. CASE WorkerThread
    BY <1>4, HeadKeepsInv, WorkerTakeKeepsInv, WorkerLeaveKeepsInv, AnswerKeepsInv,
       WriteKeepsInv, SettleKeepsInv
    DEF WorkerThread
  <1> QED
    BY <1>1, <1>2, <1>3, <1>4 DEF Next

(* While the ring is never filled, what the counters, the semaphores and the *)
(* slots say always fits together.                                           *)
THEOREM RingIsCounted == ASSUME Room PROVE Spec => []Inv
  <1>1. Inv /\ [Next]_vars => Inv'
    BY InvNext
  <1> QED
    BY <1>1, InvInit, PTL DEF Spec

(* Type correctness, with it that the semaphores are bounded and that no row *)
(* is stored twice in one table.                                             *)
THEOREM PoolIsTyped == ASSUME Room PROVE Spec => []TypeOK
  <1>1. Inv => TypeOK
    BY DEF Inv
  <1> QED
    BY <1>1, RingIsCounted, PTL

----------------------------------------------------------------------------
(* What keeps a thread from its next step: only its semaphore, or another one *)
(* for which the main thread waits.                                           *)
MainGoesOn ==
  \/ main = "signal" \/ (main = "waiting" /\ ~closing)
  \/ main = "joining" /\ worker = "gone" /\ backup = "gone"
BackupGoesOn == backup = "copy" \/ (backup = "wait" /\ numBackup > 0)
WorkerGoesOn == worker \in {"head", "execute", "settle"} \/ (worker = "wait" /\ numWorker > 0)

(* Nobody waits for a signal that is not sent: as long as a query is not      *)
(* taken, or the main thread waits for the end, one of the three goes on.     *)
NobodyStuck ==
  taken < submitted \/ main \in {"waiting", "joining"} =>
    MainGoesOn \/ BackupGoesOn \/ WorkerGoesOn

LEMMA SomebodyGoesOn == Inv => NobodyStuck
  <1> SUFFICES ASSUME Inv, taken < submitted \/ main \in {"waiting", "joining"},
                      ~MainGoesOn, ~BackupGoesOn, ~WorkerGoesOn
               PROVE  FALSE
    BY DEF NobodyStuck
  <1>1. /\ submitted \in Nat /\ taken \in Nat /\ seen \in Nat /\ numBackup \in Nat
        /\ numWorker \in Nat /\ main # "signal"
    BY SizeAssumption DEF Inv, TypeOK, MainTypes, BackupTypes, WorkerTypes, MainGoesOn
  <1>2. backup = "gone" \/ (backup = "wait" /\ numBackup = 0)
    BY <1>1 DEF Inv, TypeOK, BackupTypes, BackupGoesOn
  <1>3. worker = "gone" \/ (worker = "wait" /\ numWorker = 0)
    BY <1>1 DEF Inv, TypeOK, WorkerTypes, WorkerGoesOn
  <1>4. CASE worker = "gone"
    BY <1>1, <1>4 DEF Inv, Ends, MainGoesOn
  <1>5. CASE worker = "wait" /\ backup = "gone"
    BY <1>1, <1>3, <1>5 DEF Inv, Tokens, Ends, Copied, InHand
  <1>6. CASE worker = "wait" /\ backup = "wait"
    BY <1>1, <1>2, <1>3, <1>6 DEF Inv, Tokens, Ends, Copied, InHand, Closed
  <1> QED
    BY <1>2, <1>3, <1>4, <1>5, <1>6

(* What the liveness of the pool rests on: no signal is ever lost on the way  *)
(* from the main thread through the backup thread to the worker, and the end  *)
(* goes the same way.                                                         *)
THEOREM NoSignalIsLost == ASSUME Room PROVE Spec => []NobodyStuck
  <1> QED
    BY SomebodyGoesOn, RingIsCounted, PTL

----------------------------------------------------------------------------
(* The refinement: what has been answered are the first queries put. *)
LEMMA AnsweredSoFar ==
  ASSUME Inv
  PROVE  /\ Busy => Answered = 1 .. query - 1 /\ query \in 1 .. submitted
         /\ ~Busy => Answered = 1 .. taken
  BY Counters, SizeAssumption DEF Answered, Inv, InOrder, Ids

LEMMA CompletedIsAnswer ==
  ASSUME Inv, Busy, NEW ok \in BOOLEAN, Completed(ok), UNCHANGED <<submitted, main>>
  PROVE  Service!Answer
  <1>1. Answered = 1 .. query - 1 /\ query \in 1 .. submitted /\ query \in Ids
    BY AnsweredSoFar, InHandOfWorker
  <1>2. Answered' = Answered \cup {query}
    BY <1>1 DEF Answered, Completed, Inv, TypeOK, RowTypes
  <1>3. Phase' = Phase
    BY DEF Phase
  <1> QED
    BY <1>1, <1>2, <1>3 DEF Service!Answer

LEMMA StepOfService == ASSUME Room, Inv, [Next]_vars PROVE [Service!Next]_(Service!vars)
  <1> USE DEF ring, sems, backups, workers, rows
  <1>1. CASE \E k \in Kinds : Put(k)
    <2>1. submitted' = submitted + 1 /\ submitted < MaxQueries /\ Answered' = Answered
      BY <1>1 DEF Put, Answered
    <2>2. Phase = "open" /\ Phase' = "open"
      BY <1>1 DEF Put, Phase
    <2> QED
      BY <2>1, <2>2 DEF Service!Next, Service!Accept
  <1>2. CASE Waited
    <2>1. worker = "gone" /\ taken = submitted
      BY <1>2 DEF Waited, Inv, Ends
    <2>2. Answered = 1 .. submitted
      BY <2>1, AnsweredSoFar DEF Busy
    <2>3. submitted' = submitted /\ Answered' = Answered /\ Phase = "closing" /\ Phase' = "closed"
      BY <1>2 DEF Waited, Answered, Phase
    <2> QED
      BY <2>2, <2>3 DEF Service!Next, Service!Return
  <1>3. CASE OnShutdown
    <2>1. submitted' = submitted /\ Answered' = Answered /\ Phase = "open" /\ Phase' = "closing"
      BY <1>3 DEF OnShutdown, Answered, Phase
    <2> QED
      BY <2>1 DEF Service!Next, Service!Close
  <1>4. CASE Signal \/ Joined \/ UNCHANGED vars
    <2>1. submitted' = submitted /\ Answered' = Answered /\ Phase' = Phase
      BY <1>4 DEF Signal, Joined, vars, Answered, Phase
    <2> QED
      BY <2>1 DEF Service!vars
  <1>5. CASE BackupThread \/ WorkerHead \/ WorkerTake \/ WorkerLeave \/ ExecuteWrite
    <2>1. submitted' = submitted /\ Answered' = Answered /\ Phase' = Phase
      BY <1>5
      DEF BackupThread, BackupTake, BackupLeave, BackupCopy, WorkerHead, WorkerTake,
          WorkerLeave, ExecuteWrite, Answered, Phase
    <2> QED
      BY <2>1 DEF Service!vars
  <1>6. CASE ExecuteRead \/ ExecuteAdd \/ SettleWrite
    <2>1. PICK ok \in BOOLEAN : Completed(ok)
      <3>1. success \in BOOLEAN /\ \A outcome : (success \/ outcome = "done") \in BOOLEAN
        BY DEF Inv, TypeOK, WorkerTypes
      <3> QED
        BY <1>6, <3>1 DEF ExecuteRead, ExecuteAdd, SettleWrite
    <2>2. Busy /\ UNCHANGED <<submitted, main>>
      BY <1>6 DEF ExecuteRead, ExecuteAdd, SettleWrite, Busy
    <2> QED
      BY <2>1, <2>2, CompletedIsAnswer DEF Service!Next
  <1> QED
    BY <1>1, <1>2, <1>3, <1>4, <1>5, <1>6 DEF Next, MainThread, WorkerThread

(* The pool implements DbService: with room in the ring every query is       *)
(* answered in the order of the calls, and OnShutdown waits for the last.    *)
THEOREM PoolKeepsPromise == ASSUME Room PROVE Spec => KeepsPromise
  <1>1. Init => Service!Init
    BY SizeAssumption DEF Init, Service!Init, Answered, Phase
  <1>2. Inv /\ [Next]_vars => [Service!Next]_(Service!vars)
    BY StepOfService
  <1> QED
    BY <1>1, <1>2, RingIsCounted, PTL DEF Spec, KeepsPromise, Service!Spec

----------------------------------------------------------------------------
(* Rows. *)
LEMMA StepLosesNothing ==
  ASSUME Inv, [Next]_vars, NEW q \in Ids, Stored(q)
  PROVE  Stored(q)'
  <1> USE DEF rows
  <1>1. primary[q] \in 0 .. 1 /\ spare[q] \in 0 .. 1 /\ moved[q] \in 0 .. 1
    BY DEF Inv, TypeOK, RowTypes
  <1>2. CASE UNCHANGED rows
    BY <1>2 DEF Stored
  <1>3. CASE BackupCopy
    <2>1. UNCHANGED <<primary, moved>> /\ (spare'[q] = 1 \/ spare'[q] = spare[q])
      BY <1>3 DEF BackupCopy, Inv, TypeOK, RowTypes
    <2> QED
      BY <1>1, <2>1 DEF Stored
  <1>4. CASE ExecuteWrite
    <2>1. UNCHANGED <<spare, moved>>
          /\ (primary'[q] = primary[q] + 1 \/ primary'[q] = primary[q])
      BY <1>4 DEF ExecuteWrite, Inv, TypeOK, RowTypes
    <2> QED
      BY <1>1, <2>1 DEF Stored
  <1>5. CASE SettleWrite
    <2>1. primary' = primary /\ worker = "settle"
      BY <1>5 DEF SettleWrite
    <2>2. spare'[q] \in 0 .. 1 /\ moved'[q] \in 0 .. 1
      BY <1>5, Settled
    <2>3. CASE q # query
      BY <1>1, <1>5, <2>1, <2>3, Settled DEF Stored
    <2>4. CASE q = query
      <3>1. CASE spare'[q] = spare[q]
        <4>1. moved[q] = 0
          BY <2>1, <2>4, InHandOfWorker DEF Busy
        <4> QED
          BY <1>1, <2>1, <2>2, <3>1, <4>1 DEF Stored
      <3>2. CASE Keeps(query) /\ success
        BY <1>1, <2>1, <2>2, <2>4, <3>2 DEF Stored, Inv, Rows
      <3>3. CASE moved'[q] = spare[q]
        <4>1. moved[q] = 0
          BY <2>1, <2>4, InHandOfWorker DEF Busy
        <4> QED
          BY <1>1, <2>1, <2>2, <3>3, <4>1 DEF Stored
      <3> QED
        BY <1>5, <2>4, <3>1, <3>2, <3>3, Settled
    <2> QED
      BY <2>3, <2>4
  <1> QED
    BY <1>2, <1>3, <1>4, <1>5
    DEF Next, MainThread, BackupThread, WorkerThread, vars, Put, Signal, OnShutdown, Waited,
        Joined, BackupTake, BackupLeave, WorkerHead, WorkerTake, WorkerLeave, ExecuteRead,
        ExecuteAdd

(* A score that is in some table stays in some table, whatever fails.        *)
THEOREM NoRowIsLost == ASSUME Room PROVE Spec => NothingLost
  <1>1. Inv /\ [Next]_vars => [\A q \in Ids : Stored(q) => Stored(q)']_vars
    BY StepLosesNothing
  <1> QED
    BY <1>1, RingIsCounted, PTL DEF Spec, NothingLost

----------------------------------------------------------------------------
(* Copies, when the backup database takes what it is given and no answer of  *)
(* the write server is lost.                                                 *)
Reliable == BackupMay = {"done"} /\ ServerMay \subseteq {"done", "refused"}

IsBackup(b) == kind[b] = "add_backup"
Known ==
  /\ backupReady <=> \E b \in 1 .. Copied : IsBackup(b)
  /\ "backup" \in servers <=> \E b \in Ids : IsBackup(b) /\ answer[b] # "none"
  /\ worker = "settle" /\ ~success /\ Keeps(query) => primary[query] = 0
Kept ==
  \A q \in Ids : Protected(q) =>
    /\ q <= Copied /\ answer[q] = "none" => spare[q] = 1
    /\ answer[q] # "none" => spare[q] = 0 /\ primary[q] + moved[q] = 1
Safe == Known /\ Kept

LEMMA SafeInit == Init => Safe
  <1> SUFFICES ASSUME Init PROVE Safe
    OBVIOUS
  <1> USE DEF Init
  <1>1. Copied = 0
    BY DEF Copied, InHand
  <1>2. Known
    BY <1>1 DEF Known, Ids
  <1>3. Kept
    BY <1>1 DEF Kept, Protected, Ids
  <1> QED
    BY <1>2, <1>3 DEF Safe

LEMMA PutKeepsSafe ==
  ASSUME Inv, Safe, NEW k \in Kinds, Put(k)
  PROVE  Safe'
  <1>1. \A q \in Ids : q # submitted + 1 => kind'[q] = kind[q]
    BY DEF Put, Inv, TypeOK, MainTypes
  <1>2. UNCHANGED <<backups, workers, rows, answer>> /\ Copied' = Copied
    BY DEF Put, backups, Copied, InHand
  <1>3. \A q \in Ids : q <= submitted =>
          kind'[q] = kind[q] /\ (Protected(q)' <=> Protected(q))
    BY <1>1, Counters, SizeAssumption DEF Protected, Ids
  <1>4. \A q \in Ids : answer[q] # "none" => q <= submitted
    BY Counters DEF Inv, InOrder, Ids
  <1> USE DEF backups, workers, rows
  <1>5. Known'
    <2>1. \A b \in 1 .. Copied : b \in Ids /\ b <= submitted
      BY Counters, SizeAssumption DEF Ids
    <2>2. worker = "settle" => query \in Ids /\ query <= submitted
      BY InHandOfWorker, Counters DEF Busy
    <2>3. backupReady' <=> \E b \in 1 .. Copied' : IsBackup(b)'
      BY <1>2, <1>3, <2>1 DEF Safe, Known, IsBackup
    <2>4. "backup" \in servers' <=> \E b \in Ids : IsBackup(b)' /\ answer'[b] # "none"
      BY <1>2, <1>3, <1>4 DEF Safe, Known, IsBackup
    <2> QED
      BY <1>2, <1>3, <2>2, <2>3, <2>4 DEF Safe, Known, Keeps
  <1>6. Kept'
    BY <1>2, <1>3, <1>4, Counters DEF Safe, Kept, Ids
  <1> QED
    BY <1>5, <1>6 DEF Safe

LEMMA CopyKeepsSafe ==
  ASSUME Reliable, Inv, Safe, BackupCopy
  PROVE  Safe'
  <1>1. /\ Copied' = Copied + 1 /\ Copied + 1 = seen /\ backupQuery = seen /\ seen \in Ids
        /\ Copied \in Nat
    BY Counters, SizeAssumption DEF BackupCopy, Copied, InHand, Inv, InOrder, Ids
  <1>2. /\ UNCHANGED <<ring, workers, primary, moved, answer>>
        /\ backupReady' <=> (backupReady \/ IsBackup(seen))
    BY <1>1, Zenon DEF BackupCopy, IsBackup
  <1>3. spare' = [spare EXCEPT ![seen] = IF backupReady /\ Keeps(seen) THEN 1 ELSE @]
    <2>1. PICK outcome \in BackupMay :
            spare' = [spare EXCEPT ![backupQuery] =
              IF backupReady /\ Keeps(backupQuery) /\ outcome = "done" THEN 1 ELSE @]
      BY DEF BackupCopy
    <2>2. outcome = "done"
      BY DEF Reliable
    <2> QED
      BY <1>1, <2>1, <2>2
  <1> USE DEF ring, workers
  <1>4. Known'
    <2>1. backupReady' <=> \E b \in 1 .. Copied' : IsBackup(b)
      BY <1>1, <1>2 DEF Safe, Known
    <2> QED
      BY <1>2, <2>1 DEF Safe, Known, IsBackup, Keeps
  <1>5. ASSUME NEW q \in Ids, Protected(q)
        PROVE  /\ q <= Copied' /\ answer[q] = "none" => spare'[q] = 1
               /\ answer[q] # "none" => spare'[q] = 0 /\ primary[q] + moved[q] = 1
    <2>1. CASE q # seen
      BY <1>1, <1>3, <1>5, <2>1, Counters DEF Safe, Kept, Ids, Inv, TypeOK, RowTypes
    <2>2. CASE q = seen
      <3>1. PICK b \in 1 .. q : IsBackup(b)
        BY <1>5 DEF Protected, IsBackup
      <3>2. Keeps(q) /\ b # q
        BY <1>5, <3>1 DEF Protected, Keeps, IsBackup
      <3>3. backupReady
        BY <1>1, <2>2, <3>1, <3>2 DEF Safe, Known
      <3>4. spare'[q] = 1
        BY <1>3, <2>2, <3>2, <3>3 DEF Inv, TypeOK, RowTypes
      <3>5. answer[q] = "none"
        BY <1>1, <2>2, Counters DEF Inv, InOrder
      <3> QED
        BY <3>4, <3>5
    <2> QED
      BY <2>1, <2>2
  <1>6. Kept'
    BY <1>2, <1>5 DEF Kept, Protected
  <1> QED
    BY <1>4, <1>6 DEF Safe

LEMMA AnswerKeepsSafe ==
  ASSUME Inv, Inv', Safe, ExecuteRead \/ ExecuteAdd
  PROVE  Safe'
  <1>1. PICK ok \in BOOLEAN : Completed(ok)
    BY DEF ExecuteRead, ExecuteAdd
  <1>2. /\ Busy /\ kind[query] \notin Writes /\ worker' = "head"
        /\ UNCHANGED <<ring, backups, taken, query, rows>>
        /\ "backup" \in servers' <=> ("backup" \in servers \/ IsBackup(query))
    BY <1>1 DEF ExecuteRead, ExecuteAdd, Completed, Added, IsBackup, Busy, Writes
  <1>3. \A q \in Ids : answer'[q] # "none" <=> (answer[q] # "none" \/ q = query)
    BY <1>1, <1>2, InHandOfWorker DEF Completed, Inv, TypeOK, RowTypes
  <1>4. query \in Ids /\ ~Protected(query)
    BY <1>2, InHandOfWorker DEF Protected, Writes
  <1> USE DEF ring, backups, rows
  <1>5. Known'
    <2>1. "backup" \in servers' <=> \E b \in Ids : IsBackup(b) /\ answer'[b] # "none"
      BY <1>2, <1>3, <1>4 DEF Safe, Known
    <2> QED
      BY <1>2, <2>1 DEF Safe, Known, IsBackup, Copied, InHand
  <1>6. Kept'
    BY <1>2, <1>3, <1>4 DEF Safe, Kept, Protected, Copied, InHand
  <1> QED
    BY <1>5, <1>6 DEF Safe

LEMMA WriteKeepsSafe ==
  ASSUME Reliable, Inv, Safe, ExecuteWrite
  PROVE  Safe'
  <1>1. PICK outcome \in ServerMay :
          /\ success' = (outcome = "done")
          /\ primary' = [primary EXCEPT ![query] =
               IF Keeps(query) /\ outcome # "refused" THEN @ + 1 ELSE @]
    BY DEF ExecuteWrite
  <1>2. /\ Busy /\ UNCHANGED <<ring, backups, taken, query, servers, spare, moved, answer>>
    BY DEF ExecuteWrite, Busy
  <1>3. /\ query \in Ids /\ answer[query] = "none" /\ primary[query] = 0
        /\ \A q \in Ids : q # query => primary'[q] = primary[q]
    BY <1>1, <1>2, InHandOfWorker DEF ExecuteWrite, Inv, TypeOK, RowTypes
  <1>4. ~success' => primary'[query] = 0
    <2>1. ~success' => outcome # "done"
      BY <1>1, Zenon
    <2>2. outcome = "done" \/ primary'[query] = 0
      BY <1>1, <1>3 DEF Reliable, Inv, TypeOK, RowTypes
    <2> QED
      BY <2>1, <2>2
  <1> USE DEF ring, backups
  <1>5. Known'
    BY <1>2, <1>4 DEF Safe, Known, IsBackup, Copied, InHand
  <1>6. Kept'
    BY <1>2, <1>3 DEF Safe, Kept, Protected, Copied, InHand
  <1> QED
    BY <1>5, <1>6 DEF Safe

LEMMA SettleKeepsSafe ==
  ASSUME Reliable, Inv, Safe, SettleWrite
  PROVE  Safe'
  <1>1. PICK ok \in BOOLEAN : Completed(ok)
    <2>1. success \in BOOLEAN /\ \A outcome : (success \/ outcome = "done") \in BOOLEAN
      BY DEF Inv, TypeOK, WorkerTypes
    <2> QED
      BY <2>1 DEF SettleWrite
  <1>2. /\ Busy /\ worker = "settle" /\ worker' = "head" /\ kind[query] \in Writes
        /\ UNCHANGED <<ring, backups, taken, query, servers, primary>>
    BY <1>1 DEF SettleWrite, Completed, Busy, Inv, InOrder
  <1>3. /\ query = taken /\ query \in Ids /\ query <= Copied
        /\ answer[query] = "none" /\ moved[query] = 0
    BY <1>2, InHandOfWorker
  <1>4. \A q \in Ids : answer'[q] # "none" <=> (answer[q] # "none" \/ q = query)
    BY <1>1, <1>3 DEF Completed, Inv, TypeOK, RowTypes
  <1>5. Protected(query) => spare'[query] = 0 /\ primary[query] + moved'[query] = 1
    <2> SUFFICES ASSUME Protected(query)
                 PROVE  spare'[query] = 0 /\ primary[query] + moved'[query] = 1
      OBVIOUS
    <2>1. Keeps(query) /\ spare[query] = 1
      BY <1>3 DEF Protected, Keeps, Safe, Kept
    <2>2. PICK b \in 1 .. query : IsBackup(b)
      BY DEF Protected, IsBackup
    <2>3. b \in Ids /\ b <= taken /\ b # taken
      BY <1>3, <2>1, <2>2, Counters, SizeAssumption DEF Ids, Keeps, IsBackup
    <2>4. "backup" \in servers
      BY <2>2, <2>3 DEF Safe, Known, Inv, InOrder
    <2>5. IF success THEN DeleteCopy("done") ELSE MoveCopy("done")
      BY <2>1, <2>4 DEF SettleWrite, Settle, Reliable
    <2>6. CASE success
      <3>1. primary[query] = 1
        BY <1>2, <2>1, <2>6 DEF Inv, Rows
      <3> QED
        BY <1>3, <2>5, <2>6, <3>1 DEF DeleteCopy, Inv, TypeOK, RowTypes
    <2>7. CASE ~success
      <3>1. primary[query] = 0
        BY <1>2, <2>1, <2>7 DEF Safe, Known
      <3> QED
        BY <1>3, <2>1, <2>5, <2>7, <3>1 DEF MoveCopy, Inv, TypeOK, RowTypes
    <2> QED
      BY <2>6, <2>7
  <1> USE DEF ring, backups
  <1>6. Known'
    <2>1. "backup" \in servers' <=> \E b \in Ids : IsBackup(b) /\ answer'[b] # "none"
      <3>1. ~IsBackup(query)
        BY <1>2 DEF IsBackup, Writes
      <3> QED
        BY <1>2, <1>4, <3>1 DEF Safe, Known
    <2> QED
      BY <1>2, <2>1 DEF Safe, Known, IsBackup, Copied, InHand
  <1>7. Kept'
    BY <1>2, <1>3, <1>4, <1>5, Settled DEF Safe, Kept, Protected, Copied, InHand
  <1> QED
    BY <1>6, <1>7 DEF Safe

LEMMA SafeNext ==
  ASSUME Room, Reliable, Inv, Inv', Safe, [Next]_vars
  PROVE  Safe'
  <1>1. CASE UNCHANGED <<kind, backupReady, Copied, servers, answer, success, query,
                         primary, spare, moved>>
             /\ (worker' = "settle" <=> worker = "settle")
    BY <1>1 DEF Safe, Known, Kept, Protected, IsBackup, Keeps
  <1>2. CASE Signal \/ OnShutdown \/ Waited \/ Joined \/ UNCHANGED vars
    BY <1>1, <1>2
    DEF Signal, OnShutdown, Waited, Joined, vars, ring, backups, workers, rows, Copied, InHand
  <1>3. CASE BackupTake \/ BackupLeave
    BY <1>1, <1>3, Counters DEF BackupTake, BackupLeave, ring, workers, rows, Copied, InHand
  <1>4. CASE WorkerHead \/ WorkerLeave
    BY <1>1, <1>4 DEF WorkerHead, WorkerLeave, ring, backups, rows, Copied, InHand
  <1>5. CASE WorkerTake
    BY <1>5
    DEF WorkerTake, backups, rows, Copied, InHand, Safe, Known, Kept, Protected, IsBackup
  <1> QED
    BY <1>2, <1>3, <1>4, <1>5, PutKeepsSafe, CopyKeepsSafe, AnswerKeepsSafe, WriteKeepsSafe,
       SettleKeepsSafe
    DEF Next, MainThread, BackupThread, WorkerThread

LEMMA AlwaysSafe == ASSUME Room, Reliable PROVE Spec => [](Inv /\ Safe)
  <1>1. Inv /\ Safe /\ [Next]_vars => (Inv /\ Safe)'
    BY InvNext, SafeNext
  <1>2. Init => Inv /\ Safe
    BY InvInit, SafeInit
  <1> QED
    BY <1>1, <1>2, PTL DEF Spec

(* A score the worker has taken is in some table already, the backup         *)
(* database having been registered before it.                                *)
THEOREM CopyComesFirst == ASSUME Room, Reliable PROVE Spec => []CopiedFirst
  <1>1. Inv /\ Safe => CopiedFirst
    <2> SUFFICES ASSUME Inv, Safe, NEW q \in 1 .. taken, Protected(q) PROVE Stored(q)
      BY DEF CopiedFirst
    <2>1. q \in Ids /\ q <= Copied
      BY Counters, SizeAssumption DEF Ids
    <2>2. primary[q] \in 0 .. 1 /\ spare[q] \in 0 .. 1 /\ moved[q] \in 0 .. 1
      BY <2>1 DEF Inv, TypeOK, RowTypes
    <2>3. spare[q] = 1 \/ primary[q] + moved[q] = 1
      BY <2>1 DEF Safe, Kept
    <2> QED
      BY <2>2, <2>3 DEF Stored
  <1> QED
    BY <1>1, AlwaysSafe, PTL

(* An answered score is in exactly one table, and no copy is left behind.    *)
THEOREM SettledForGood == ASSUME Room, Reliable PROVE Spec => []SettledOnce
  <1>1. Safe => SettledOnce
    BY DEF Safe, Kept, SettledOnce
  <1> QED
    BY <1>1, AlwaysSafe, PTL

(* Without the queries that store nothing, a success is a row. *)
Scores == "stats" \notin Kinds
Asked == \A q \in Ids : kind[q] # "stats"

LEMMA AskedNext == ASSUME Scores, Inv, Asked, [Next]_vars PROVE Asked'
  <1>1. CASE \E k \in Kinds : Put(k)
    BY <1>1 DEF Put, Scores, Asked, Inv, TypeOK, MainTypes
  <1>2. CASE kind' = kind
    BY <1>2 DEF Asked
  <1> QED
    BY <1>1, <1>2
    DEF Next, MainThread, BackupThread, WorkerThread, vars, ring, Signal, OnShutdown, Waited,
        Joined, BackupTake, BackupLeave, BackupCopy, WorkerHead, WorkerTake, WorkerLeave,
        ExecuteRead, ExecuteAdd, ExecuteWrite, SettleWrite

LEMMA SettledIsStored ==
  ASSUME Reliable, Inv, Safe, Safe', Asked, SettleWrite, answer'[query] = "success"
  PROVE  Stored(query)'
  <1>1. /\ query = taken /\ query \in Ids /\ kind[query] = "write" /\ Keeps(query)
        /\ spare'[query] \in 0 .. 1 /\ moved'[query] \in 0 .. 1
        /\ UNCHANGED <<kind, primary, query>> /\ worker = "settle"
    BY InHandOfWorker, Settled
    DEF SettleWrite, Busy, Inv, InOrder, Asked, Writes, Keeps, ring
  <1>2. primary[query] \in 0 .. 1
    BY <1>1 DEF Inv, TypeOK, RowTypes
  <1>3. CASE success
    BY <1>1, <1>2, <1>3 DEF Inv, Rows, Stored
  <1>4. CASE "backup" \in servers
    <2>1. PICK b \in Ids : IsBackup(b) /\ answer[b] # "none"
      BY <1>4 DEF Safe, Known
    <2>2. b \in 1 .. query
      BY <1>1, <2>1, Counters DEF Inv, InOrder, Ids
    <2>3. Protected(query)'
      BY <1>1, <2>1, <2>2 DEF Protected, IsBackup
    <2>4. primary'[query] + moved'[query] = 1
      BY <1>1, <2>3 DEF Safe, Kept
    <2> QED
      BY <1>1, <1>2, <2>4 DEF Stored
  <1>5. CASE ~success /\ "backup" \notin servers
    BY <1>1, <1>5 DEF SettleWrite, Completed, Inv, TypeOK, RowTypes
  <1> QED
    BY <1>3, <1>4, <1>5

(* A score whose query is answered with a success is in some table.          *)
THEOREM SuccessMeansStored == ASSUME Room, Reliable, Scores PROVE Spec => []SuccessIsStored
  <1> DEFINE I == Inv /\ Safe /\ Asked /\ SuccessIsStored
  <1>1. Init => I
    BY InvInit, SafeInit DEF Init, Asked, SuccessIsStored
  <1>2. I /\ [Next]_vars => I'
    <2> SUFFICES ASSUME I, [Next]_vars PROVE I'
      OBVIOUS
    <2>1. Inv' /\ Safe' /\ Asked'
      BY InvNext, SafeNext, AskedNext
    <2>2. ASSUME NEW q \in Ids, kind'[q] \in Writes, answer'[q] = "success"
          PROVE  Stored(q)'
      <3>1. CASE answer[q] = "success"
        <4>1. q <= submitted /\ kind'[q] = kind[q]
          <5>1. q <= submitted
            BY <3>1, Counters DEF Inv, InOrder, Ids
          <5>2. CASE \E k \in Kinds : Put(k)
            BY <5>1, <5>2, Counters DEF Put, Inv, TypeOK, MainTypes, Ids
          <5>3. CASE kind' = kind
            BY <5>1, <5>3
          <5> QED
            BY <5>2, <5>3
            DEF Next, MainThread, BackupThread, WorkerThread, vars, ring, Signal,
                OnShutdown, Waited, Joined, BackupTake, BackupLeave, BackupCopy,
                WorkerHead, WorkerTake, WorkerLeave, ExecuteRead, ExecuteAdd,
                ExecuteWrite, SettleWrite
        <4> QED
          BY <2>2, <3>1, <4>1, StepLosesNothing DEF SuccessIsStored
      <3>2. CASE answer'[q] = answer[q]
        BY <2>2, <3>1, <3>2
      <3>3. CASE SettleWrite
        <4>1. /\ query \in Ids /\ query' = query
              /\ \A r \in Ids : r # query => answer'[r] = answer[r]
          BY <3>3, InHandOfWorker
          DEF SettleWrite, Busy, Completed, Inv, TypeOK, RowTypes
        <4> QED
          BY <2>1, <2>2, <3>1, <3>3, <4>1, SettledIsStored DEF Stored
      <3>4. CASE ExecuteRead \/ ExecuteAdd
        <4>1. /\ query \in Ids /\ kind'[query] \notin Writes
              /\ \A r \in Ids : r # query => answer'[r] = answer[r]
          BY <3>4, InHandOfWorker
          DEF ExecuteRead, ExecuteAdd, Busy, Completed, Inv, TypeOK, RowTypes, Writes, ring
        <4> QED
          BY <2>2, <3>1, <4>1
      <3> QED
        BY <3>2, <3>3, <3>4
        DEF Next, MainThread, BackupThread, WorkerThread, vars, Put, Signal, OnShutdown,
            Waited, Joined, BackupTake, BackupLeave, BackupCopy, WorkerHead, WorkerTake,
            WorkerLeave, ExecuteWrite
    <2> QED
      BY <2>1, <2>2 DEF SuccessIsStored
  <1> QED
    BY <1>1, <1>2, PTL DEF Spec

=============================================================================
