---------------------------- MODULE JobQueue_proof ----------------------------
(* The linked list of the job pool is a queue, and the pool the service that  *)
(* JobService describes, for any jobs and any number of threads.              *)
EXTENDS JobQueue, JobPool_proof, SequenceTheorems, WellFoundedInduction

----------------------------------------------------------------------------
(* Linked lists, with no regard to the pool.                                  *)

Members(q) == {j \in Jobs : \E i \in DOMAIN q : q[i] = j}
NoTwice(q) == \A i, k \in DOMAIN q : q[i] = q[k] => i = k
Without(q, i) == SubSeq(q, 1, i - 1) \o SubSeq(q, i + 1, Len(q))

(* What holds of no smallest number holds of none.                            *)
LEMMA Smallest ==
  ASSUME NEW T \in SUBSET Nat, T # {}
  PROVE  \E n \in T : \A m \in T : n <= m
<1> DEFINE Less == OpToRel(<, Nat)
<1>1. IsWellFoundedOn(Less, Nat)
  BY NatLessThanWellFounded
<1>2. PICK n \in T : \A m \in T : <<m, n>> \notin Less
  <2> HIDE DEF Less
  <2> QED BY <1>1, WFMin
<1>3. \A m \in T : ~(m < n)
  BY <1>2 DEF OpToRel
<1> QED BY <1>3

LEMMA ListsAreSequences ==
  ASSUME NEW q \in Lists
  PROVE  q \in Seq(Jobs) /\ Len(q) \in 0 .. Cardinality(Jobs) /\ DOMAIN q = 1 .. Len(q)
<1>1. PICK n \in 0 .. Cardinality(Jobs) : q \in [1 .. n -> Jobs]
  BY DEF Lists
<1>2. Cardinality(Jobs) \in Nat
  BY JobsAssumption, FS_CardinalityType
<1> QED BY <1>1, <1>2

(* A sequence in which no job comes twice is not longer than there are jobs.  *)
LEMMA ShortEnough == ASSUME NEW q \in Seq(Jobs), NoTwice(q) PROVE q \in Lists
<1>1. q \in [1 .. Len(q) -> Jobs] /\ Len(q) \in Nat
  BY LenProperties
<1>2. q \in Injection(1 .. Len(q), Jobs)
  BY <1>1 DEF NoTwice, Injection, IsInjective
<1>3. Cardinality(1 .. Len(q)) <= Cardinality(Jobs)
  BY <1>2, FS_Injection, JobsAssumption
<1>4. Cardinality(1 .. Len(q)) = Len(q)
  <2>1. 1 \in Int /\ Len(q) \in Int
    BY <1>1
  <2>2. Cardinality(1 .. Len(q)) = IF 1 > Len(q) THEN 0 ELSE Len(q) - 1 + 1
    BY <2>1, FS_Interval, Zenon
  <2> QED BY <1>1, <2>2
<1>5. Cardinality(Jobs) \in Nat
  BY JobsAssumption, FS_CardinalityType
<1> QED BY <1>1, <1>3, <1>4, <1>5 DEF Lists

(* Two lists that begin alike go on alike: the first place where they differ  *)
(* has a place before it where they do not.                                   *)
LEMMA BeginsAlike ==
  ASSUME NEW job, NEW successor, NEW p \in Lists, NEW q \in Lists,
         IsList(job, successor, p), IsList(job, successor, q)
  PROVE  Len(p) <= Len(q) /\ \A i \in 1 .. Len(p) : p[i] = q[i]
<1> DEFINE T == {i \in 1 .. Len(p) : ~(i <= Len(q) /\ p[i] = q[i])}
<1>1. /\ p \in Seq(Jobs) /\ Len(p) \in Nat /\ DOMAIN p = 1 .. Len(p)
      /\ q \in Seq(Jobs) /\ Len(q) \in Nat /\ DOMAIN q = 1 .. Len(q)
  BY ListsAreSequences
<1>2. \A i \in 1 .. Len(p) : p[i] # none
  BY <1>1, JobsAssumption
<1>3. SUFFICES ASSUME T # {} PROVE FALSE
  BY <1>1
<1>4. PICK n \in T : \A m \in T : n <= m
  <2>1. T \in SUBSET Nat
    BY <1>1
  <2> HIDE DEF T
  <2> QED BY <1>3, <2>1, Smallest
<1>5. CASE n = 1
  BY <1>1, <1>2, <1>4, <1>5 DEF IsList
<1>6. CASE n > 1
  <2>1. n - 1 \in 1 .. Len(p) /\ n - 1 \notin T
    BY <1>1, <1>4, <1>6
  <2>2. n - 1 <= Len(q) /\ p[n - 1] = q[n - 1]
    BY <2>1
  <2>3. successor[p[n - 1]] = p[n]
    BY <1>1, <1>4, <2>1 DEF IsList
  <2>4. n - 1 # Len(q) /\ q[n] = p[n]
    BY <1>1, <1>2, <1>4, <1>6, <2>2, <2>3 DEF IsList
  <2> QED BY <1>1, <1>4, <2>2, <2>4
<1> QED BY <1>1, <1>4, <1>5, <1>6

LEMMA ListIs ==
  ASSUME NEW job, NEW successor, NEW q \in Lists, IsList(job, successor, q)
  PROVE  ListFrom(job, successor) = q
<1>1. /\ ListFrom(job, successor) \in Lists
      /\ IsList(job, successor, ListFrom(job, successor))
  BY DEF ListFrom
<1> DEFINE p == ListFrom(job, successor)
<1> HIDE DEF p
<1>2. Len(p) <= Len(q) /\ Len(q) <= Len(p) /\ \A i \in 1 .. Len(p) : p[i] = q[i]
  BY <1>1, BeginsAlike DEF p
<1>3. p \in Seq(Jobs) /\ q \in Seq(Jobs) /\ Len(p) \in Nat /\ Len(q) \in Nat
  BY <1>1, ListsAreSequences DEF p
<1> QED BY <1>2, <1>3, SeqEqual DEF p

(* What Add, a worker's fetch and the walk of Shutdown do to a list.          *)
LEMMA ListAppended ==
  ASSUME NEW job, NEW successor \in [Jobs -> Jobs \cup {none}], NEW q \in Lists,
         IsList(job, successor, q), NoTwice(q),
         NEW j \in Jobs, \A i \in DOMAIN q : q[i] # j, successor[j] = none
  PROVE  /\ Append(q, j) \in Lists /\ NoTwice(Append(q, j))
         /\ q = <<>> => IsList(j, successor, Append(q, j))
         /\ q # <<>> => IsList(job, [successor EXCEPT ![q[Len(q)]] = j], Append(q, j))
<1> DEFINE r == Append(q, j)
<1>1. q \in Seq(Jobs) /\ Len(q) \in Nat /\ DOMAIN q = 1 .. Len(q)
  BY ListsAreSequences
<1>2. /\ r \in Seq(Jobs) /\ Len(r) = Len(q) + 1 /\ DOMAIN r = 1 .. Len(r)
      /\ \A i \in 1 .. Len(q) : r[i] = q[i]
      /\ r[Len(r)] = j /\ r # <<>>
  BY <1>1, AppendProperties, LenProperties
<1> HIDE DEF r
<1>3. NoTwice(r)
  BY <1>1, <1>2 DEF NoTwice
<1>4. r \in Lists
  BY <1>2, <1>3, ShortEnough
<1>5. ASSUME q = <<>> PROVE IsList(j, successor, r)
  BY <1>1, <1>2, <1>5 DEF IsList
<1>6. ASSUME q # <<>> PROVE IsList(job, [successor EXCEPT ![q[Len(q)]] = j], r)
  <2> DEFINE s == [successor EXCEPT ![q[Len(q)]] = j]
  <2>1. Len(q) \in 1 .. Len(q) /\ job = r[1]
    BY <1>1, <1>2, <1>6, EmptySeq DEF IsList
  <2>2. s[q[Len(q)]] = j /\ \A i \in 1 .. Len(q) - 1 : s[q[i]] = q[i + 1]
    BY <1>1, <2>1 DEF IsList, NoTwice
  <2>3. s[j] = none
    BY <1>1, <2>1
  <2> HIDE DEF s
  <2>4. ASSUME NEW i \in 1 .. Len(r) PROVE s[r[i]] = IF i = Len(r) THEN none ELSE r[i + 1]
    BY <1>1, <1>2, <2>1, <2>2, <2>3
  <2> QED BY <1>2, <2>1, <2>4 DEF IsList, s
<1> QED BY <1>3, <1>4, <1>5, <1>6 DEF r

LEMMA WithoutOne ==
  ASSUME NEW q \in Lists, NoTwice(q), NEW i \in DOMAIN q
  PROVE  /\ Without(q, i) \in Lists /\ NoTwice(Without(q, i))
         /\ Len(Without(q, i)) = Len(q) - 1
         /\ \A k \in 1 .. Len(q) - 1 : Without(q, i)[k] = IF k < i THEN q[k] ELSE q[k + 1]
<1>1. q \in Seq(Jobs) /\ Len(q) \in Nat /\ DOMAIN q = 1 .. Len(q)
  BY ListsAreSequences
<1> DEFINE a == SubSeq(q, 1, i - 1)
           b == SubSeq(q, i + 1, Len(q))
           r == Without(q, i)
<1>2. /\ a \in Seq(Jobs) /\ Len(a) = i - 1
      /\ \A k \in 1 .. i - 1 : a[k] = q[k]
  BY <1>1, SubSeqProperties
<1>3. /\ b \in Seq(Jobs) /\ Len(b) = Len(q) - i
      /\ \A k \in 1 .. Len(q) - i : b[k] = q[k + i]
  BY <1>1, SubSeqProperties
<1>4. r = a \o b
  BY DEF Without
<1> HIDE DEF a, b
<1>5. /\ r \in Seq(Jobs) /\ Len(r) = Len(q) - 1 /\ DOMAIN r = 1 .. Len(r)
      /\ \A k \in 1 .. Len(q) - 1 : r[k] = IF k < i THEN a[k] ELSE b[k - (i - 1)]
  <2>1. /\ r \in Seq(Jobs) /\ Len(r) = Len(a) + Len(b)
        /\ \A k \in 1 .. Len(a) + Len(b) : r[k] = IF k <= Len(a) THEN a[k] ELSE b[k - Len(a)]
    <3>1. a \in Seq(Jobs) /\ b \in Seq(Jobs)
      BY <1>2, <1>3
    <3> QED BY <3>1, <1>4, ConcatProperties, Zenon
  <2>2. DOMAIN r = 1 .. Len(r)
    BY <2>1, LenProperties
  <2>3. i \in 1 .. Len(q) /\ Len(a) = i - 1 /\ Len(a) + Len(b) = Len(q) - 1
    BY <1>1, <1>2, <1>3
  <2> HIDE DEF r
  <2>4. ASSUME NEW k \in 1 .. Len(q) - 1
        PROVE  r[k] = IF k < i THEN a[k] ELSE b[k - (i - 1)]
    <3>1. r[k] = IF k <= i - 1 THEN a[k] ELSE b[k - (i - 1)]
      BY <2>1, <2>3
    <3>2. k <= i - 1 <=> k < i
      BY <1>1, <2>3
    <3> QED BY <3>1, <3>2
  <2> QED BY <2>1, <2>2, <2>3, <2>4
<1>6. ASSUME NEW k \in 1 .. Len(q) - 1 PROVE r[k] = IF k < i THEN q[k] ELSE q[k + 1]
  <2>1. CASE k < i
    BY <1>1, <1>2, <1>5, <2>1
  <2>2. CASE ~(k < i)
    <3>1. k - (i - 1) \in 1 .. Len(q) - i /\ (k - (i - 1)) + i = k + 1
      BY <1>1, <2>2
    <3>2. b[k - (i - 1)] = q[(k - (i - 1)) + i]
      BY <1>3, <3>1
    <3> QED BY <1>5, <2>2, <3>1, <3>2
  <2> QED BY <2>1, <2>2
<1> HIDE DEF r
<1>7. NoTwice(r)
  <2>1. SUFFICES ASSUME NEW k \in 1 .. Len(q) - 1, NEW l \in 1 .. Len(q) - 1, r[k] = r[l]
                 PROVE  k = l
    BY <1>5 DEF NoTwice
  <2>2. PICK m \in 1 .. Len(q) : r[k] = q[m] /\ m = IF k < i THEN k ELSE k + 1
    BY <1>1, <1>6
  <2>3. PICK n \in 1 .. Len(q) : r[l] = q[n] /\ n = IF l < i THEN l ELSE l + 1
    BY <1>1, <1>6
  <2>4. m = n
    BY <1>1, <2>1, <2>2, <2>3 DEF NoTwice
  <2> QED BY <1>1, <2>2, <2>3, <2>4
<1> QED BY <1>5, <1>6, <1>7, ShortEnough DEF r

(* A job in the midst of the list: its neighbour is linked to the next one.   *)
LEMMA ListUnlinked ==
  ASSUME NEW job, NEW successor \in [Jobs -> Jobs \cup {none}], NEW q \in Lists,
         IsList(job, successor, q), NoTwice(q),
         NEW i \in DOMAIN q, i # 1
  PROVE  IsList(job, [successor EXCEPT ![q[i]] = none, ![q[i - 1]] = successor[q[i]]],
                Without(q, i))
<1> DEFINE r == Without(q, i)
           s == [successor EXCEPT ![q[i]] = none, ![q[i - 1]] = successor[q[i]]]
<1>1. q \in Seq(Jobs) /\ Len(q) \in Nat /\ DOMAIN q = 1 .. Len(q) /\ i \in 2 .. Len(q)
  BY ListsAreSequences
<1>2. /\ r \in Lists /\ Len(r) = Len(q) - 1
      /\ \A k \in 1 .. Len(q) - 1 : r[k] = IF k < i THEN q[k] ELSE q[k + 1]
  BY WithoutOne
<1>3. DOMAIN r = 1 .. Len(r) /\ r # <<>>
  BY <1>1, <1>2, ListsAreSequences, EmptySeq
<1> HIDE DEF r
<1>4. job = r[1]
  BY <1>1, <1>2, EmptySeq DEF IsList
<1>5. \A k \in 1 .. Len(q) : successor[q[k]] = IF k = Len(q) THEN none ELSE q[k + 1]
  BY <1>1 DEF IsList
<1>6. s[q[i - 1]] = successor[q[i]]
  BY <1>1 DEF NoTwice
<1>7. \A k \in 1 .. Len(q) : k \notin {i - 1, i} => s[q[k]] = successor[q[k]]
  BY <1>1 DEF NoTwice
<1> HIDE DEF s
<1>8. ASSUME NEW k \in 1 .. Len(r) PROVE s[r[k]] = IF k = Len(r) THEN none ELSE r[k + 1]
  <2> k \in 1 .. Len(q) - 1 /\ i \in 2 .. Len(q) /\ Len(q) \in Nat
    BY <1>1, <1>2
  <2> r[k] = IF k < i THEN q[k] ELSE q[k + 1]
    BY <1>2
  <2>1. CASE k < i - 1
    <3>1. r[k] = q[k] /\ r[k + 1] = q[k + 1] /\ k + 1 \in 1 .. Len(q) - 1
      BY <1>2, <2>1
    <3>2. s[q[k]] = q[k + 1]
      BY <1>5, <1>7, <2>1
    <3> QED BY <1>2, <2>1, <3>1, <3>2
  <2>2. CASE k = i - 1
    <3>1. r[k] = q[i - 1] /\ s[r[k]] = IF i = Len(q) THEN none ELSE q[i + 1]
      BY <1>5, <1>6, <2>2
    <3>2. i # Len(q) => r[k + 1] = q[i + 1]
      BY <1>2, <2>2
    <3> QED BY <1>2, <2>2, <3>1, <3>2
  <2>3. CASE k > i - 1
    <3>1. PICK m \in 1 .. Len(q) : m = k + 1 /\ m \notin {i - 1, i}
      BY <2>3
    <3>2. r[k] = q[m]
      BY <2>3, <3>1
    <3>3. s[q[m]] = IF m = Len(q) THEN none ELSE q[m + 1]
      BY <1>5, <1>7, <3>1, Zenon
    <3>4. m # Len(q) => m \in 1 .. Len(q) - 1 /\ r[m] = q[m + 1]
      BY <1>2, <2>3, <3>1
    <3> QED BY <1>2, <2>3, <3>1, <3>2, <3>3, <3>4
  <2> QED BY <1>1, <2>1, <2>2, <2>3
<1> QED BY <1>3, <1>4, <1>8 DEF IsList, r, s

(* The head of the list: what followed it is the new head.                    *)
LEMMA ListBeheaded ==
  ASSUME NEW job, NEW successor \in [Jobs -> Jobs \cup {none}], NEW q \in Lists,
         IsList(job, successor, q), NoTwice(q), q # <<>>
  PROVE  /\ job = q[1] /\ Without(q, 1) = Tail(q)
         /\ IsList(successor[job], [successor EXCEPT ![job] = none], Tail(q))
<1> DEFINE r == Without(q, 1)
           s == [successor EXCEPT ![job] = none]
<1>1. q \in Seq(Jobs) /\ Len(q) \in Nat \ {0} /\ DOMAIN q = 1 .. Len(q)
  BY ListsAreSequences, EmptySeq
<1>2. job = q[1] /\ 1 \in DOMAIN q
  BY <1>1 DEF IsList
<1>3. /\ r \in Lists /\ Len(r) = Len(q) - 1
      /\ \A k \in 1 .. Len(q) - 1 : r[k] = IF k < 1 THEN q[k] ELSE q[k + 1]
  BY <1>2, WithoutOne
<1>4. r \in Seq(Jobs) /\ DOMAIN r = 1 .. Len(r) /\ \A k \in 1 .. Len(q) - 1 : r[k] = q[k + 1]
  BY <1>1, <1>3, ListsAreSequences
<1>5. r = Tail(q)
  BY <1>1, <1>3, <1>4, HeadTailProperties, SeqEqual
<1> HIDE DEF r
<1>6. \A k \in 1 .. Len(q) : successor[q[k]] = IF k = Len(q) THEN none ELSE q[k + 1]
  BY <1>1 DEF IsList
<1>7. \A k \in 2 .. Len(q) : s[q[k]] = successor[q[k]]
  BY <1>1, <1>2 DEF NoTwice
<1> HIDE DEF s
<1>8. successor[job] = IF r = <<>> THEN none ELSE r[1]
  <2>1. CASE Len(q) = 1
    <3>1. r = <<>>
      BY <1>3, <1>4, <2>1, EmptySeq
    <3> QED BY <1>1, <1>2, <1>6, <2>1, <3>1
  <2>2. CASE Len(q) # 1
    <3>1. r # <<>> /\ r[1] = q[1 + 1]
      BY <1>1, <1>3, <1>4, <2>2, EmptySeq
    <3>2. 1 \in 1 .. Len(q)
      BY <1>1
    <3>3. successor[q[1]] = q[1 + 1]
      BY <1>6, <2>2, <3>2, Zenon
    <3> QED BY <1>2, <3>1, <3>3
  <2> QED BY <2>1, <2>2
<1>9. ASSUME NEW k \in 1 .. Len(r) PROVE s[r[k]] = IF k = Len(r) THEN none ELSE r[k + 1]
  <2>1. PICK m \in 2 .. Len(q) : m = k + 1 /\ k \in 1 .. Len(q) - 1
    BY <1>1, <1>3
  <2>2. m \in 1 .. Len(q) /\ r[k] = q[m]
    BY <1>1, <1>4, <2>1
  <2>3. s[q[m]] = IF m = Len(q) THEN none ELSE q[m + 1]
    BY <1>6, <1>7, <2>1, <2>2, Zenon
  <2>4. Len(q) \in Nat /\ Len(r) = Len(q) - 1
    BY <1>1, <1>3
  <2>5. m # Len(q) => m \in 1 .. Len(q) - 1
    BY <2>2, <2>4
  <2>6. m # Len(q) => r[m] = q[m + 1]
    BY <1>4, <2>5, Zenon
  <2>7. k = Len(r) <=> m = Len(q)
    BY <2>1, <2>4
  <2> QED BY <2>1, <2>2, <2>3, <2>6, <2>7
<1> QED BY <1>2, <1>4, <1>5, <1>8, <1>9 DEF IsList, r, s

LEMMA MembersOf ==
  ASSUME NEW q \in Lists, NoTwice(q)
  PROVE  /\ \A j \in Jobs : Members(Append(q, j)) = Members(q) \cup {j}
         /\ \A i \in DOMAIN q : q[i] \in Jobs /\ Members(Without(q, i)) = Members(q) \ {q[i]}
         /\ \A i \in DOMAIN q : q[i] \in Members(q)
<1>1. q \in Seq(Jobs) /\ Len(q) \in Nat /\ DOMAIN q = 1 .. Len(q)
  BY ListsAreSequences
<1>2. ASSUME NEW j \in Jobs PROVE Members(Append(q, j)) = Members(q) \cup {j}
  <2> DEFINE r == Append(q, j)
  <2>1. /\ DOMAIN r = 1 .. Len(q) + 1 /\ r[Len(q) + 1] = j
        /\ \A i \in 1 .. Len(q) : r[i] = q[i]
    BY <1>1, AppendProperties, LenProperties
  <2> HIDE DEF r
  <2>2. \A i \in 1 .. Len(q) + 1 : i \in 1 .. Len(q) \/ i = Len(q) + 1
    BY <1>1
  <2>3. Len(q) + 1 \in 1 .. Len(q) + 1 /\ \A i \in 1 .. Len(q) : i \in 1 .. Len(q) + 1
    BY <1>1
  <2> QED BY <1>1, <2>1, <2>2, <2>3 DEF Members, r
<1>3. ASSUME NEW i \in DOMAIN q PROVE q[i] \in Jobs /\ Members(Without(q, i)) = Members(q) \ {q[i]}
  <2> DEFINE r == Without(q, i)
  <2>1. /\ r \in Lists /\ Len(r) = Len(q) - 1
        /\ \A k \in 1 .. Len(q) - 1 : r[k] = IF k < i THEN q[k] ELSE q[k + 1]
    BY WithoutOne
  <2>2. DOMAIN r = 1 .. Len(q) - 1
    BY <2>1, ListsAreSequences
  <2> HIDE DEF r
  <2>3. ASSUME NEW k \in 1 .. Len(q) - 1 PROVE \E m \in 1 .. Len(q) : m # i /\ r[k] = q[m]
    BY <1>1, <2>1
  <2>4. ASSUME NEW m \in 1 .. Len(q), m # i PROVE \E k \in 1 .. Len(q) - 1 : r[k] = q[m]
    <3>1. CASE m < i
      <4>1. m \in 1 .. Len(q) - 1
        BY <1>1, <3>1
      <4> QED BY <2>1, <3>1, <4>1
    <3>2. CASE m > i
      <4>1. PICK k \in 1 .. Len(q) - 1 : k + 1 = m /\ ~(k < i)
        <5>1. m - 1 \in 1 .. Len(q) - 1 /\ (m - 1) + 1 = m /\ ~(m - 1 < i)
          BY <1>1, <3>2
        <5> QED BY <5>1
      <4> QED BY <2>1, <4>1
    <3> QED BY <1>1, <2>4, <3>1, <3>2
  <2>5. \A m \in 1 .. Len(q) : q[m] \in Jobs /\ (q[m] = q[i] <=> m = i)
    BY <1>1 DEF NoTwice
  <2>6. Members(r) = Members(q) \ {q[i]}
    <3>1. \A j \in Jobs : j \in Members(r) <=> \E k \in 1 .. Len(q) - 1 : r[k] = j
      BY <2>2 DEF Members
    <3>2. \A j \in Jobs : j \in Members(q) <=> \E m \in 1 .. Len(q) : q[m] = j
      BY <1>1 DEF Members
    <3>3. \A j \in Jobs : j \in Members(r) <=> j \in Members(q) /\ j # q[i]
      <4>1. ASSUME NEW j \in Jobs, j \in Members(r) PROVE j \in Members(q) /\ j # q[i]
        BY <2>3, <2>5, <3>1, <3>2, <4>1
      <4>2. ASSUME NEW j \in Jobs, j \in Members(q), j # q[i] PROVE j \in Members(r)
        <5>1. PICK m \in 1 .. Len(q) : q[m] = j
          BY <3>2, <4>2
        <5> QED BY <2>4, <3>1, <4>2, <5>1
      <4> QED BY <4>1, <4>2
    <3> QED BY <3>3 DEF Members
  <2> QED BY <1>1, <2>5, <2>6 DEF r
<1>4. ASSUME NEW i \in DOMAIN q PROVE q[i] \in Members(q)
  BY <1>3 DEF Members
<1> QED BY <1>2, <1>3, <1>4

----------------------------------------------------------------------------
(* The queue of the pool.                                                     *)

Queued == Members(Queue)
Fetchers == {w \in Workers : pc[w] = "fetch"}

(* The list is one: it ends, no job comes twice, and m_pNext is null in       *)
(* whatever is not on it.                                                     *)
WellLinked ==
  /\ Queue \in Lists /\ IsList(first, next, Queue) /\ NoTwice(Queue)
  /\ \A j \in Jobs \ Queued : next[j] = none

(* A job is on the list, with one worker, or with nobody.                     *)
OnePlace ==
  /\ Queued \subseteq added /\ \A w \in Workers : at[w] \in (added \ Queued) \cup {none}
  /\ \A v, w \in Workers : at[v] = at[w] /\ at[v] # none => v = w

(* Only the walk of Shutdown leaves m_pLastJob behind.                        *)
LastIsLast ==
  main # "unqueue" => last = IF Queue = <<>> THEN none ELSE Queue[Len(Queue)]

(* The walk: behind pPrev, which it has kept, comes pJob.                     *)
WalkIsLinked ==
  main = "unqueue" =>
    /\ pJob \in Queued \cup {none} /\ pPrev \in Queued \cup {none}
    /\ pJob = IF pPrev = none THEN first ELSE next[pPrev]

(* While the pool is up there is a job for every signal, those that are yet   *)
(* to be sent and those that a worker has received among them.                *)
Signals == sem + Cardinality(Fetchers) + IF main = "signal" THEN 1 ELSE 0
OneSignalEach ==
  /\ shutdown <=> main \notin {"up", "signal"}
  /\ ~shutdown => Signals = Len(Queue)

(* So a worker finds nothing only after Shutdown, and then nothing comes.     *)
NothingLeft ==
  \A w \in Workers :
    pc[w] \in {"idle", "over"} => first = none /\ main \in {"abort", "wake", "down"}

QueueInv ==
  PoolInv /\ WellLinked /\ OnePlace /\ LastIsLast /\ WalkIsLinked /\ OneSignalEach /\ NothingLeft

LEMMA EmptyQueue == WellLinked => (first = none <=> Queue = <<>>)
<1> SUFFICES ASSUME WellLinked PROVE first = none <=> Queue = <<>>
  OBVIOUS
<1>1. Queue # <<>> => Queue[1] \in Jobs
  BY ListsAreSequences, EmptySeq DEF WellLinked
<1> QED BY <1>1, JobsAssumption DEF WellLinked, IsList

(* What each step does to the queue.                                          *)
LEMMA QueueKept ==
  ASSUME WellLinked, UNCHANGED <<first, next>>
  PROVE  Queue' = Queue /\ WellLinked'
<1>1. Queue' = Queue
  BY DEF Queue
<1> QED BY <1>1 DEF WellLinked, Queued

LEMMA QueueAdded ==
  ASSUME PoolInv, WellLinked, LastIsLast, NEW j \in Jobs \ Queued, Add(j)
  PROVE  Queue' = Append(Queue, j) /\ WellLinked'
<1> DEFINE q == Queue
<1>1. q \in Lists /\ IsList(first, next, q) /\ NoTwice(q) /\ next \in [Jobs -> Jobs \cup {none}]
  BY DEF WellLinked, PoolInv, TypeOK
<1>2. next[j] = none /\ \A i \in DOMAIN q : q[i] # j
  BY DEF WellLinked, Queued, Members
<1>3. /\ Append(q, j) \in Lists /\ NoTwice(Append(q, j))
      /\ q = <<>> => IsList(j, next, Append(q, j))
      /\ q # <<>> => IsList(first, [next EXCEPT ![q[Len(q)]] = j], Append(q, j))
  BY <1>1, <1>2, ListAppended
<1>4. q # <<>> => last = q[Len(q)] /\ last \in Queued
  BY <1>1, MembersOf, ListsAreSequences, EmptySeq DEF LastIsLast, Add, Queued
<1>5. q = <<>> => last = none
  BY DEF LastIsLast, Add
<1>6. none \notin Jobs /\ Queued \subseteq Jobs
  BY JobsAssumption DEF Queued, Members
<1>7. IsList(first', next', Append(q, j))
  <2>1. CASE q = <<>>
    BY <1>3, <1>5, <2>1, EmptyQueue DEF Add
  <2>2. CASE q # <<>>
    <3>1. last # none /\ first # none
      BY <1>4, <1>6, <2>2, EmptyQueue
    <3> QED BY <1>3, <1>4, <2>2, <3>1 DEF Add
  <2> QED BY <2>1, <2>2
<1>8. Queue' = Append(q, j)
  BY <1>3, <1>7, ListIs DEF Queue
<1>9. Queued' = Queued \cup {j}
  BY <1>1, <1>8, MembersOf DEF Queued
<1>10. \A k \in Jobs \ Queued' : next'[k] = none
  BY <1>1, <1>4, <1>5, <1>9 DEF Add, WellLinked
<1> QED BY <1>3, <1>7, <1>8, <1>10 DEF WellLinked

LEMMA QueueFetched ==
  ASSUME PoolInv, WellLinked, NEW w \in Workers, Fetch(w)
  PROVE  /\ Queue # <<>> /\ first = Queue[1] /\ first = Head(Queue) /\ 1 \in DOMAIN Queue
         /\ Queue' = Tail(Queue) /\ Queue' = Without(Queue, 1) /\ WellLinked'
<1> DEFINE q == Queue
<1>1. q \in Lists /\ IsList(first, next, q) /\ NoTwice(q) /\ next \in [Jobs -> Jobs \cup {none}]
  BY DEF WellLinked, PoolInv, TypeOK
<1>2. q # <<>>
  BY EmptyQueue DEF Fetch
<1>3. /\ first = q[1] /\ Without(q, 1) = Tail(q)
      /\ IsList(next[first], [next EXCEPT ![first] = none], Tail(q))
  BY <1>1, <1>2, ListBeheaded
<1>4. 1 \in DOMAIN q /\ Head(q) = q[1]
  BY <1>1, <1>2, ListsAreSequences, EmptySeq
<1>5. Tail(q) \in Lists /\ NoTwice(Tail(q))
  BY <1>1, <1>3, <1>4, WithoutOne
<1>6. IsList(first', next', Tail(q))
  BY <1>3 DEF Fetch
<1>7. Queue' = Tail(q)
  BY <1>5, <1>6, ListIs DEF Queue
<1>8. Queued' = Queued \ {first}
  BY <1>1, <1>3, <1>4, <1>7, MembersOf DEF Queued
<1>9. \A k \in Jobs \ Queued' : next'[k] = none
  BY <1>1, <1>8 DEF Fetch, WellLinked
<1> QED BY <1>2, <1>3, <1>4, <1>5, <1>6, <1>7, <1>9 DEF WellLinked

LEMMA QueueUnqueued ==
  ASSUME PoolInv, WellLinked, WalkIsLinked, Unqueue, pJob \in Abortable
  PROVE  \E i \in DOMAIN Queue : Queue[i] = pJob /\ Queue' = Without(Queue, i) /\ WellLinked'
<1> DEFINE q == Queue
<1>1. q \in Lists /\ IsList(first, next, q) /\ NoTwice(q) /\ next \in [Jobs -> Jobs \cup {none}]
  BY DEF WellLinked, PoolInv, TypeOK
<1>2. PICK i \in DOMAIN q : q[i] = pJob
  BY DEF Unqueue, WalkIsLinked, Queued, Members
<1>3. Without(q, i) \in Lists /\ NoTwice(Without(q, i))
  BY <1>1, WithoutOne
<1>4. IsList(first', next', Without(q, i))
  <2>1. CASE pPrev = none
    <3>1. q # <<>> /\ pJob = first
      BY <1>1, <1>2, <2>1, ListsAreSequences DEF Unqueue, WalkIsLinked
    <3>2. /\ first = q[1] /\ Without(q, 1) = Tail(q)
          /\ IsList(next[first], [next EXCEPT ![first] = none], Tail(q))
      BY <1>1, <3>1, ListBeheaded
    <3>3. i = 1
      BY <1>1, <1>2, <3>1, <3>2, ListsAreSequences, EmptySeq DEF NoTwice
    <3> QED BY <2>1, <3>1, <3>2, <3>3 DEF Unqueue, AbortQueued
  <2>2. CASE pPrev # none
    <3>1. PICK k \in DOMAIN q : q[k] = pPrev
      BY <2>2 DEF Unqueue, WalkIsLinked, Queued, Members
    <3>2. next[q[k]] = q[i] /\ q[i] # none
      BY <1>2, <2>2, <3>1 DEF Unqueue, WalkIsLinked
    <3>3. k # Len(q) /\ q[k + 1] = q[i]
      BY <1>1, <3>2 DEF IsList
    <3>4. i = k + 1 /\ i # 1 /\ q[i - 1] = pPrev
      BY <1>1, <3>1, <3>3, ListsAreSequences DEF NoTwice
    <3>5. IsList(first, [next EXCEPT ![q[i]] = none, ![q[i - 1]] = next[q[i]]], Without(q, i))
      BY <1>1, <3>4, ListUnlinked
    <3> QED BY <1>2, <2>2, <3>4, <3>5 DEF Unqueue, AbortQueued
  <2> QED BY <2>1, <2>2
<1>5. Queue' = Without(q, i)
  BY <1>3, <1>4, ListIs DEF Queue
<1>6. Queued' = Queued \ {pJob}
  BY <1>1, <1>2, <1>5, MembersOf DEF Queued
<1>7. \A k \in Jobs \ Queued' : next'[k] = none
  BY <1>1, <1>6 DEF Unqueue, AbortQueued, WellLinked, WalkIsLinked
<1> QED BY <1>2, <1>3, <1>4, <1>5, <1>7 DEF WellLinked

LEMMA FetchersCount ==
  /\ IsFiniteSet(Fetchers) /\ Cardinality(Fetchers) \in Nat
  /\ \A w \in Workers :
       /\ w \notin Fetchers => Cardinality(Fetchers \cup {w}) = Cardinality(Fetchers) + 1
       /\ w \in Fetchers => Cardinality(Fetchers \ {w}) = Cardinality(Fetchers) - 1
                           /\ Cardinality(Fetchers) # 0
<1>1. IsFiniteSet(Fetchers)
  BY WorkersAssumption, FS_Subset DEF Fetchers
<1>2. Cardinality(Fetchers) \in Nat
  BY <1>1, FS_CardinalityType
<1>3. ASSUME NEW w \in Workers, w \notin Fetchers
      PROVE  Cardinality(Fetchers \cup {w}) = Cardinality(Fetchers) + 1
  BY <1>1, <1>3, FS_AddElement
<1>4. ASSUME NEW w \in Workers, w \in Fetchers
      PROVE  Cardinality(Fetchers \ {w}) = Cardinality(Fetchers) - 1 /\ Cardinality(Fetchers) # 0
  BY <1>1, <1>4, FS_RemoveElement, FS_EmptySet
<1> QED BY <1>1, <1>2, <1>3, <1>4

LEMMA QueueInit == Init => QueueInv
<1> SUFFICES ASSUME Init PROVE QueueInv
  OBVIOUS
<1>1. PoolInv
  BY PoolInit
<1>2. <<>> \in Lists /\ IsList(first, next, <<>>) /\ NoTwice(<<>>)
  <2>1. <<>> \in Seq(Jobs) /\ DOMAIN <<>> = {}
    BY EmptySeq
  <2>2. NoTwice(<<>>) /\ IsList(first, next, <<>>)
    BY <2>1 DEF Init, IsList, NoTwice
  <2> QED BY <2>1, <2>2, ShortEnough
<1>3. Queue = <<>>
  BY <1>2, ListIs DEF Queue
<1>4. Queued = {}
  BY <1>3 DEF Queued, Members
<1>5. WellLinked
  BY <1>2, <1>3 DEF WellLinked, Init
<1> QED
  BY <1>1, <1>3, <1>4, <1>5
     DEF QueueInv, Init, OnePlace, LastIsLast, WalkIsLinked, OneSignalEach, NothingLeft

(* The main thread.                                                           *)
LEMMA QueueMainNext ==
  ASSUME QueueInv,
         \/ InitPool \/ Shutdown \/ MainStep
         \/ \E j \in Jobs : Add(j) \/ Refuse(j) \/ Abort(j)
  PROVE  QueueInv'
<1> /\ PoolInv /\ WellLinked /\ OnePlace /\ LastIsLast /\ WalkIsLinked /\ OneSignalEach
    /\ NothingLeft /\ TypeOK
  BY DEF QueueInv, PoolInv
<1> PoolInv'
  BY MainNext
<1> none \notin Jobs
  BY JobsAssumption
<1> USE DEF list, walk, workers, jobs, QueueInv, LastIsLast, WalkIsLinked, OneSignalEach, NothingLeft,
            OnePlace
<1>1. CASE InitPool
  <2>1. first = none /\ Queue = <<>>
    BY <1>1, WorkersAssumption, EmptyQueue DEF InitPool, PoolInv, NobodyLeft
  <2>2. UNCHANGED <<first, next, added, at>>
    BY <1>1, <2>1 DEF InitPool
  <2>3. Queue' = Queue /\ WellLinked' /\ Queued' = Queued
    BY <2>2, QueueKept DEF Queued
  <2>4. Fetchers' = {} /\ Cardinality({}) = 0
    BY <1>1, FS_EmptySet DEF InitPool, Fetchers
  <2>5. OneSignalEach'
    BY <1>1, <2>1, <2>3, <2>4 DEF InitPool, Signals
  <2> QED BY <1>1, <2>1, <2>2, <2>3, <2>5 DEF InitPool
<1>2. ASSUME UNCHANGED <<list, workers, added>>
      PROVE  Queue' = Queue /\ WellLinked' /\ Queued' = Queued /\ OnePlace' /\ Fetchers' = Fetchers
  BY <1>2, QueueKept DEF Queued, Fetchers
<1>3. CASE Shutdown
  <2>1. UNCHANGED <<list, workers, added>>
    BY <1>3 DEF Shutdown
  <2>2. first \in Queued \cup {none}
    BY EmptyQueue, MembersOf, ListsAreSequences, EmptySeq DEF WellLinked, IsList, Queued
  <2> QED BY <1>2, <1>3, <2>1, <2>2 DEF Shutdown
<1>4. CASE Signal
  <2>1. UNCHANGED <<list, workers, added>>
    BY <1>4 DEF Signal
  <2>2. OneSignalEach'
    BY <1>2, <1>4, <2>1, FetchersCount DEF Signal, Raised, Signals, TypeOK
  <2> QED BY <1>2, <1>4, <2>1, <2>2 DEF Signal
<1>5. CASE Unqueue
  <2>1. CASE pJob \in Abortable
    <3>1. PICK i \in DOMAIN Queue : Queue[i] = pJob /\ Queue' = Without(Queue, i) /\ WellLinked'
      BY <1>5, <2>1, QueueUnqueued
    <3>2. Queued' = Queued \ {pJob}
      BY <3>1, MembersOf DEF WellLinked, Queued
    <3>3. next[pJob] \in Queued \cup {none} /\ next[pJob] # pJob
      <4>1. Queue \in Seq(Jobs) /\ Len(Queue) \in Nat /\ DOMAIN Queue = 1 .. Len(Queue)
        BY ListsAreSequences DEF WellLinked
      <4>2. next[pJob] = IF i = Len(Queue) THEN none ELSE Queue[i + 1]
        BY <3>1 DEF WellLinked, IsList
      <4>3. i # Len(Queue) => i + 1 \in DOMAIN Queue /\ Queue[i + 1] # Queue[i]
        BY <4>1 DEF WellLinked, NoTwice
      <4>4. pJob \in Jobs
        BY <3>1, <4>1
      <4> QED BY <3>1, <4>2, <4>3, <4>4, MembersOf DEF WellLinked, Queued
    <3>4. WalkIsLinked'
      <4>1. CASE pPrev = none
        BY <1>5, <2>1, <3>2, <3>3, <4>1 DEF Unqueue, WalkOn, AbortQueued
      <4>2. CASE pPrev # none
        <5>1. pPrev # pJob
          <6>1. PICK k \in DOMAIN Queue : Queue[k] = pPrev
            BY <1>5, <4>2 DEF Unqueue, Queued, Members
          <6>2. Queue[k] = pJob => next[pPrev] = pPrev
            BY <1>5, <4>2, <6>1 DEF Unqueue
          <6> QED BY <1>5, <3>3, <4>2, <6>1, <6>2 DEF Unqueue
        <5>2. next'[pPrev] = next[pJob]
          BY <1>5, <2>1, <4>2, <5>1 DEF Unqueue, WalkOn, AbortQueued, TypeOK, Queued, Members
        <5> QED BY <1>5, <2>1, <3>2, <3>3, <4>2, <5>1, <5>2 DEF Unqueue, WalkOn
      <4> QED BY <4>1, <4>2
    <3>5. OnePlace'
      BY <1>5, <2>1, <3>2 DEF Unqueue
    <3>6. first = none => FALSE
      BY <3>1, EmptyQueue, ListsAreSequences, EmptySeq DEF WellLinked
    <3>7. OneSignalEach' /\ NothingLeft' /\ LastIsLast'
      BY <1>5, <3>6 DEF Unqueue
    <3> QED BY <3>1, <3>4, <3>5, <3>7
  <2>2. CASE pJob \notin Abortable
    <3>1. Queue' = Queue /\ WellLinked' /\ Queued' = Queued /\ OnePlace' /\ Fetchers' = Fetchers
      BY <1>2, <1>5, <2>2 DEF Unqueue
    <3>2. pJob \in Queued
      BY <1>5 DEF Unqueue
    <3>3. next[pJob] \in Queued \cup {none}
      <4>1. Queue \in Seq(Jobs) /\ Len(Queue) \in Nat /\ DOMAIN Queue = 1 .. Len(Queue)
        BY ListsAreSequences DEF WellLinked
      <4>2. PICK i \in DOMAIN Queue : Queue[i] = pJob
        BY <3>2 DEF Queued, Members
      <4>3. next[pJob] = IF i = Len(Queue) THEN none ELSE Queue[i + 1]
        BY <4>2 DEF WellLinked, IsList
      <4>4. i # Len(Queue) => i + 1 \in DOMAIN Queue
        BY <4>1
      <4> QED BY <4>3, <4>4, MembersOf DEF WellLinked, Queued
    <3> QED BY <1>5, <2>2, <3>1, <3>2, <3>3 DEF Unqueue, WalkOn
  <2> QED BY <2>1, <2>2
<1>6. CASE Unqueued
  <2>1. Queue' = Queue /\ WellLinked' /\ OnePlace'
    BY <1>6, QueueKept DEF Unqueued, Queued
  <2>2. LastIsLast'
    <3>1. CASE pPrev = none
      BY <1>6, <2>1, <3>1, EmptyQueue DEF Unqueued
    <3>2. CASE pPrev # none
      <4>1. Queue \in Seq(Jobs) /\ Len(Queue) \in Nat /\ DOMAIN Queue = 1 .. Len(Queue)
        BY ListsAreSequences DEF WellLinked
      <4>2. PICK k \in DOMAIN Queue : Queue[k] = pPrev
        BY <1>6, <3>2 DEF Unqueued, Queued, Members
      <4>3. k # Len(Queue) => next[pPrev] = Queue[k + 1] /\ Queue[k + 1] \in Jobs
        BY <4>1, <4>2 DEF WellLinked, IsList
      <4>4. k = Len(Queue) /\ Queue # <<>>
        BY <1>6, <3>2, <4>1, <4>3 DEF Unqueued
      <4> QED BY <1>6, <2>1, <4>2, <4>4 DEF Unqueued
    <3> QED BY <3>1, <3>2
  <2> QED BY <1>6, <2>1, <2>2 DEF Unqueued
<1>7. CASE AbortRunning \/ Wake \/ Join
  <2>1. UNCHANGED <<list, workers, added>> /\ main \in {"abort", "wake"} /\ main' \in {"wake", "down"}
        /\ UNCHANGED shutdown
    BY <1>7 DEF AbortRunning, Wake, Join
  <2> QED BY <1>2, <2>1
<1>8. ASSUME NEW j \in Jobs, Add(j) PROVE QueueInv'
  <2>1. j \notin Queued /\ \A w \in Workers : at[w] # j
    BY <1>8 DEF Add
  <2>2. Queue' = Append(Queue, j) /\ WellLinked'
    BY <1>8, <2>1, QueueAdded
  <2>3. Queued' = Queued \cup {j}
    BY <2>2, MembersOf DEF WellLinked, Queued
  <2>4. OnePlace'
    BY <1>8, <2>1, <2>3 DEF Add
  <2>5. /\ Len(Queue') = Len(Queue) + 1 /\ Queue' # <<>> /\ Queue'[Len(Queue')] = j
        /\ Len(Queue) \in Nat
    BY <2>2, AppendProperties, ListsAreSequences DEF WellLinked
  <2>6. LastIsLast'
    BY <1>8, <2>5 DEF Add
  <2>7. Fetchers' = Fetchers
    BY <1>8 DEF Add, Fetchers
  <2>8. OneSignalEach'
    BY <1>8, <2>5, <2>7, FetchersCount DEF Add, Signals, TypeOK
  <2> QED BY <1>8, <2>2, <2>4, <2>6, <2>8 DEF Add
<1>9. ASSUME NEW j \in Jobs, Refuse(j) PROVE QueueInv'
  <2>1. Queue' = Queue /\ WellLinked' /\ Queued' = Queued
    BY <1>9, QueueKept DEF Refuse, Queued
  <2> QED BY <1>9, <2>1 DEF Refuse
<1>10. ASSUME NEW j \in Jobs, Abort(j) PROVE QueueInv'
  <2>1. UNCHANGED <<list, workers, added, main, shutdown, sem>>
    BY <1>10 DEF Abort
  <2> QED BY <1>2, <1>10, <2>1 DEF Abort, Signals
<1> QED
  BY <1>1, <1>3, <1>4, <1>5, <1>6, <1>7, <1>8, <1>9, <1>10 DEF MainStep

(* The threads.                                                               *)
LEMMA QueueWorkerNext == ASSUME QueueInv, NEW w \in Workers, Worker(w) PROVE QueueInv'
<1> /\ PoolInv /\ WellLinked /\ OnePlace /\ LastIsLast /\ WalkIsLinked /\ OneSignalEach
    /\ NothingLeft /\ TypeOK
  BY DEF QueueInv, PoolInv
<1> PoolInv'
  BY WorkerNext
<1> none \notin Jobs
  BY JobsAssumption
<1> USE DEF list, walk, workers, jobs, mainVars, Go, QueueInv, LastIsLast, WalkIsLinked, OneSignalEach,
            NothingLeft, OnePlace
<1>1. ASSUME UNCHANGED <<list, added>> PROVE Queue' = Queue /\ WellLinked' /\ Queued' = Queued
  BY <1>1, QueueKept DEF Queued
<1>2. CASE Wait(w)
  <2>1. UNCHANGED <<list, added, main, shutdown, at, pJob, pPrev>> /\ pc'[w] = "fetch"
    BY <1>2 DEF Wait, TypeOK
  <2>2. Fetchers' = Fetchers \cup {w} /\ w \notin Fetchers
    BY <1>2 DEF Wait, Fetchers, TypeOK
  <2>3. OneSignalEach'
    <3>1. Cardinality(Fetchers') = Cardinality(Fetchers) + 1 /\ Cardinality(Fetchers) \in Nat
      BY <2>2, FetchersCount
    <3>2. sem' = sem - 1 /\ UNCHANGED <<main, shutdown>> /\ sem \in Nat
      BY <1>2, <2>1 DEF Wait, TypeOK
    <3>3. Signals' = Signals
      BY <3>1, <3>2 DEF Signals
    <3> QED BY <1>1, <2>1, <3>2, <3>3
  <2>4. NothingLeft'
    BY <1>2 DEF Wait, TypeOK
  <2> QED BY <1>1, <2>1, <2>3, <2>4
<1>3. CASE Fetch(w)
  <2>1. /\ Queue # <<>> /\ first = Queue[1] /\ 1 \in DOMAIN Queue
        /\ Queue' = Tail(Queue) /\ Queue' = Without(Queue, 1) /\ WellLinked'
    BY <1>3, QueueFetched
  <2>2. Queued' = Queued \ {first} /\ first \in Queued
    BY <2>1, MembersOf DEF WellLinked, Queued
  <2>3. OnePlace'
    BY <1>3, <2>2 DEF Fetch, TypeOK
  <2>4. /\ Queue \in Seq(Jobs) /\ Len(Queue) \in Nat \ {0}
        /\ Len(Queue') = Len(Queue) - 1 /\ Queue' \in Seq(Jobs)
        /\ \A i \in 1 .. Len(Queue') : Queue'[i] = Queue[i + 1]
    BY <2>1, ListsAreSequences, EmptySeq, HeadTailProperties DEF WellLinked
  <2>5. Fetchers' = Fetchers \ {w} /\ w \in Fetchers
    BY <1>3 DEF Fetch, Fetchers, TypeOK
  <2>6. OneSignalEach'
    <3>1. Cardinality(Fetchers') = Cardinality(Fetchers) - 1 /\ Cardinality(Fetchers) \in Nat
      BY <2>5, FetchersCount
    <3>2. UNCHANGED <<sem, main, shutdown>> /\ sem \in Nat
      BY <1>3 DEF Fetch, TypeOK
    <3>3. Signals' = Signals - 1
      BY <3>1, <3>2 DEF Signals
    <3> QED BY <2>4, <3>2, <3>3
  <2>7. first' = none <=> Queue' = <<>>
    <3>1. Queue' # <<>> => Queue'[1] \in Jobs
      BY <2>4, EmptySeq
    <3> QED BY <2>1, <3>1 DEF WellLinked, IsList
  <2>8. LastIsLast'
    <3>1. CASE Queue' = <<>>
      BY <1>3, <2>7, <3>1 DEF Fetch
    <3>2. CASE Queue' # <<>>
      <4>1. Len(Queue') \in 1 .. Len(Queue')
        BY <2>4, <3>2, EmptySeq
      <4>2. Queue'[Len(Queue')] = Queue[Len(Queue)]
        BY <2>4, <4>1
      <4> QED BY <1>3, <2>1, <2>7, <3>2, <4>2 DEF Fetch
    <3> QED BY <3>1, <3>2
  <2>9. NothingLeft'
    BY <1>3 DEF Fetch, TypeOK
  <2> QED BY <1>3, <2>1, <2>3, <2>6, <2>8, <2>9 DEF Fetch
<1>4. CASE FetchNothing(w)
  <2>1. UNCHANGED <<list, added, main, shutdown, at, pJob, pPrev>>
    BY <1>4 DEF FetchNothing
  <2>2. shutdown
    <3>1. Len(Queue) = 0 /\ w \in Fetchers
      BY <1>4, EmptyQueue DEF FetchNothing, Fetchers
    <3>2. Cardinality(Fetchers) \in Nat /\ Cardinality(Fetchers) # 0
      BY <3>1, FetchersCount
    <3>3. Signals # 0
      BY <3>2 DEF Signals, TypeOK
    <3> QED BY <3>1, <3>3
  <2>3. NothingLeft'
    BY <1>4, <2>1, <2>2 DEF FetchNothing, TypeOK
  <2> QED BY <1>1, <2>1, <2>2, <2>3
<1>5. CASE EndLoop(w)
  <2>1. UNCHANGED <<list, added, main, shutdown, at, sem, pJob, pPrev>>
    BY <1>5 DEF EndLoop
  <2>2. shutdown
    BY <1>5 DEF EndLoop
  <2>3. NothingLeft'
    BY <1>5, <2>1, <2>2 DEF EndLoop, TypeOK
  <2> QED BY <1>1, <2>1, <2>2, <2>3
<1>6. CASE Start(w) \/ Skip(w) \/ Enlist(w) \/ Run(w) \/ Finish(w)
  <2>1. /\ UNCHANGED <<list, added, main, shutdown, sem, pJob, pPrev>>
        /\ at' \in {at, [at EXCEPT ![w] = none]}
    BY <1>6 DEF Start, Skip, Enlist, Run, Finish
  <2>2. pc[w] # "fetch" /\ \E c \in {"enlist", "wait", "run", "finish"} : pc' = [pc EXCEPT ![w] = c]
    BY <1>6 DEF Start, Skip, Enlist, Run, Finish
  <2>3. Fetchers' = Fetchers
    BY <2>2 DEF Fetchers, TypeOK
  <2>4. OnePlace'
    BY <1>1, <2>1 DEF TypeOK
  <2>5. NothingLeft'
    BY <2>1, <2>2 DEF TypeOK
  <2> QED BY <1>1, <2>1, <2>3, <2>4, <2>5 DEF Signals
<1> QED BY <1>2, <1>3, <1>4, <1>5, <1>6 DEF Worker

LEMMA QueueNext == QueueInv /\ [Next]_vars => QueueInv'
<1> SUFFICES ASSUME QueueInv, [Next]_vars PROVE QueueInv'
  OBVIOUS
<1>1. CASE UNCHANGED vars
  <2>1. UNCHANGED <<main, pJob, pPrev, woken, inits, shutdown, first, last, next, sem, running,
                    jobState, added, pc, at>>
    BY <1>1 DEF vars, list, walk, workers, jobs
  <2>2. Queue' = Queue /\ WellLinked' /\ Queued' = Queued /\ Fetchers' = Fetchers
    BY <2>1, QueueKept DEF QueueInv, Queued, Fetchers
  <2>3. PoolInv'
    BY <1>1, PoolNext DEF QueueInv
  <2> QED BY <2>1, <2>2, <2>3
          DEF QueueInv, OnePlace, LastIsLast, WalkIsLinked, OneSignalEach, NothingLeft, Signals
<1> QED BY <1>1, QueueMainNext, QueueWorkerNext DEF Next

LEMMA QueueInvariant == Spec => []QueueInv
BY QueueInit, QueueNext, PTL DEF Spec

----------------------------------------------------------------------------
(* The promises.                                                              *)

LEMMA NobodyHoldsAJob ==
  ASSUME QueueInv, \A w \in Workers : pc[w] = "over"
  PROVE  Queue = <<>> /\ Held = {}
<1>1. first = none
  BY WorkersAssumption DEF QueueInv, NothingLeft
<1>2. \A w \in Workers : at[w] = none
  BY DEF QueueInv, PoolInv, HandsFull, Busy
<1> QED BY <1>1, <1>2, EmptyQueue DEF QueueInv, Held

(* What is on the list and in the hands of the workers was accepted; a job    *)
(* that is running, done or aborted got there by the right steps; and one     *)
(* that has left the list and everybody's hands has ended.                    *)
AcceptedFirst == Queued \subseteq accepted /\ \A w \in Workers : at[w] \in accepted \cup {none}
StatesFit ==
  /\ \A j \in Jobs : jobState[j] = "aborted" => j \in Abortable
  /\ \A j \in Queued \cup (Jobs \ accepted) : jobState[j] \in {"queued", "aborted"}
  /\ \A w \in Workers :
       /\ pc[w] = "start" => jobState[at[w]] \in {"queued", "aborted"}
       /\ pc[w] \in {"enlist", "run", "finish"} => jobState[at[w]] \in {"running", "aborted"}
       /\ pc[w] = "run" => at[w] \in running
LeftIsDone == \A j \in accepted \ Queued : (\A w \in Workers : at[w] # j) => Done(j)
JobsFit == AcceptedFirst /\ StatesFit /\ LeftIsDone

LEMMA QueuedSteps ==
  ASSUME QueueInv
  PROVE  /\ UNCHANGED <<first, next>> => Queue' = Queue /\ Queued' = Queued
         /\ \A j \in Jobs : Add(j) => Queued' = Queued \cup {j} /\ j \notin Queued
                                      /\ \A w \in Workers : at[w] # j
         /\ Unqueue => pJob \in Queued
         /\ Unqueue /\ pJob \in Abortable => Queued' = Queued \ {pJob}
         /\ \A w \in Workers : Fetch(w) => Queued' = Queued \ {first} /\ first \in Queued
<1> none \notin Jobs
  BY JobsAssumption
<1>1. ASSUME UNCHANGED <<first, next>> PROVE Queue' = Queue /\ Queued' = Queued
  BY <1>1 DEF Queue, Queued
<1>2. ASSUME NEW j \in Jobs, Add(j)
      PROVE  Queued' = Queued \cup {j} /\ j \notin Queued /\ \A w \in Workers : at[w] # j
  <2>1. j \notin Queued /\ \A w \in Workers : at[w] # j
    BY <1>2 DEF Add, QueueInv, OnePlace
  <2>2. Queue' = Append(Queue, j)
    BY <1>2, <2>1, QueueAdded DEF QueueInv
  <2> QED BY <2>1, <2>2, MembersOf DEF QueueInv, WellLinked, Queued
<1>3. ASSUME Unqueue PROVE pJob \in Queued
  BY <1>3 DEF Unqueue, QueueInv, WalkIsLinked
<1>4. ASSUME Unqueue, pJob \in Abortable PROVE Queued' = Queued \ {pJob}
  <2>1. PICK i \in DOMAIN Queue : Queue[i] = pJob /\ Queue' = Without(Queue, i)
    BY <1>4, QueueUnqueued DEF QueueInv
  <2> QED BY <2>1, MembersOf DEF QueueInv, WellLinked, Queued
<1>5. ASSUME NEW w \in Workers, Fetch(w) PROVE Queued' = Queued \ {first} /\ first \in Queued
  <2>1. first = Queue[1] /\ 1 \in DOMAIN Queue /\ Queue' = Without(Queue, 1)
    BY <1>5, QueueFetched DEF QueueInv
  <2> QED BY <2>1, MembersOf DEF QueueInv, WellLinked, Queued
<1> QED BY <1>1, <1>2, <1>3, <1>4, <1>5

LEMMA FitMainNext ==
  ASSUME QueueInv, JobsFit,
         \/ InitPool \/ Shutdown \/ MainStep
         \/ \E j \in Jobs : Add(j) \/ Refuse(j) \/ Abort(j)
  PROVE  JobsFit'
<1> /\ TypeOK /\ HandsFull /\ AcceptedFirst /\ StatesFit /\ LeftIsDone
    /\ none \notin Jobs /\ Queued \subseteq Jobs
  BY JobsAssumption DEF QueueInv, PoolInv, JobsFit, Queued, Members
<1> USE DEF list, walk, workers, jobs, JobsFit, AcceptedFirst, StatesFit, LeftIsDone, Done,
            TypeOK, HandsFull, Busy
<1>1. CASE InitPool
  <2>1. UNCHANGED <<first, next>> /\ \A w \in Workers : at[w] = none
    BY <1>1, WorkersAssumption DEF InitPool, QueueInv, PoolInv, NobodyLeft, NothingLeft
  <2> QED BY <1>1, <2>1, QueuedSteps DEF InitPool
<1>2. CASE Shutdown \/ Signal \/ Unqueued \/ Wake \/ Join
  <2>1. UNCHANGED <<first, next, jobState, running, accepted, pc, at>>
    BY <1>2 DEF Shutdown, Signal, Unqueued, Wake, Join
  <2> QED BY <2>1, QueuedSteps
<1>3. CASE Unqueue
  <2>1. pJob \in Queued
    BY <1>3, QueuedSteps
  <2>2. UNCHANGED <<running, accepted, pc, at>>
    BY <1>3 DEF Unqueue
  <2>3. CASE pJob \in Abortable
    <3>1. Queued' = Queued \ {pJob}
      BY <1>3, <2>3, QueuedSteps
    <3>2. jobState' = [jobState EXCEPT ![pJob] = "aborted"]
      BY <1>3, <2>3 DEF Unqueue, AbortQueued
    <3> QED BY <2>1, <2>2, <2>3, <3>1, <3>2
  <2>4. CASE pJob \notin Abortable
    <3>1. UNCHANGED <<first, next, jobState>>
      BY <1>3, <2>4 DEF Unqueue
    <3> QED BY <2>2, <3>1, QueuedSteps
  <2> QED BY <2>3, <2>4
<1>4. CASE AbortRunning
  <2>1. UNCHANGED <<first, next, running, accepted, pc, at>>
    BY <1>4 DEF AbortRunning
  <2>2. \A j \in Jobs : jobState'[j] = IF j \in running \cap Abortable THEN "aborted" ELSE jobState[j]
    BY <1>4 DEF AbortRunning
  <2>3. \A w \in Workers : pc[w] \in Busy => at[w] \in Jobs
    OBVIOUS
  <2> QED BY <2>1, <2>2, <2>3, QueuedSteps
<1>5. ASSUME NEW j \in Jobs, Add(j) PROVE JobsFit'
  <2>1. Queued' = Queued \cup {j} /\ j \notin Queued /\ \A w \in Workers : at[w] # j
    BY <1>5, QueuedSteps
  <2>2. accepted' = accepted \cup {j} /\ j \notin accepted /\ UNCHANGED <<jobState, running, pc, at>>
    BY <1>5 DEF Add
  <2> QED BY <2>1, <2>2
<1>6. ASSUME NEW j \in Jobs, Refuse(j) PROVE JobsFit'
  <2>1. UNCHANGED <<first, next, running, accepted, pc, at>> /\ j \notin accepted
    BY <1>6 DEF Refuse
  <2>2. jobState' = [jobState EXCEPT ![j] = IF j \in Abortable THEN "aborted" ELSE @]
    BY <1>6 DEF Refuse
  <2> QED BY <2>1, <2>2, QueuedSteps
<1>7. ASSUME NEW j \in Jobs, Abort(j) PROVE JobsFit'
  <2>1. UNCHANGED <<first, next, running, accepted, pc, at>> /\ j \in Abortable
    BY <1>7 DEF Abort
  <2>2. jobState' = [jobState EXCEPT ![j] = "aborted"]
    BY <1>7 DEF Abort
  <2> QED BY <2>1, <2>2, QueuedSteps
<1> QED BY <1>1, <1>2, <1>3, <1>4, <1>5, <1>6, <1>7 DEF MainStep

LEMMA FitWorkerNext == ASSUME QueueInv, JobsFit, NEW w \in Workers, Worker(w) PROVE JobsFit'
<1> /\ TypeOK /\ HandsFull /\ AcceptedFirst /\ StatesFit /\ LeftIsDone /\ OnePlace
    /\ none \notin Jobs /\ Queued \subseteq Jobs
  BY JobsAssumption DEF QueueInv, PoolInv, JobsFit, Queued, Members
<1> USE DEF list, mainVars, jobs, Go, JobsFit, AcceptedFirst, StatesFit, LeftIsDone, Done,
            TypeOK, HandsFull, Busy
<1>1. UNCHANGED accepted
  BY DEF Worker, Wait, Fetch, FetchNothing, EndLoop, Start, Skip, Enlist, Run, Finish
<1>2. CASE Wait(w) \/ FetchNothing(w) \/ EndLoop(w)
  <2>1. UNCHANGED <<first, next, jobState, running, at>>
        /\ \E c \in {"fetch", "idle", "over", "wait"} : pc' = [pc EXCEPT ![w] = c]
    BY <1>2 DEF Wait, FetchNothing, EndLoop
  <2> QED BY <1>1, <2>1, QueuedSteps
<1>3. CASE Fetch(w)
  <2>1. Queued' = Queued \ {first} /\ first \in Queued
    BY <1>3, QueuedSteps
  <2>2. /\ at[w] = none /\ at' = [at EXCEPT ![w] = first] /\ pc' = [pc EXCEPT ![w] = "start"]
        /\ UNCHANGED <<jobState, running>>
    BY <1>3 DEF Fetch
  <2>3. AcceptedFirst' /\ StatesFit'
    BY <1>1, <2>1, <2>2
  <2>4. LeftIsDone'
    BY <1>1, <2>1, <2>2
  <2> QED BY <2>3, <2>4
<1>4. CASE Start(w) \/ Skip(w) \/ Enlist(w) \/ Run(w) \/ Finish(w)
  <2> DEFINE j == at[w]
  <2>1. j \in Jobs /\ j \in accepted \ Queued /\ \A v \in Workers : at[v] = j => v = w
    BY <1>4 DEF Start, Skip, Enlist, Run, Finish, OnePlace
  <2>2. UNCHANGED <<first, next>>
    BY <1>4 DEF Start, Skip, Enlist, Run, Finish
  <2>3. Queued' = Queued
    BY <2>2, QueuedSteps
  <2>4. CASE Start(w)
    BY <1>1, <2>1, <2>3, <2>4 DEF Start, MayStart
  <2>5. CASE Skip(w)
    BY <1>1, <2>1, <2>3, <2>5 DEF Skip, MayStart
  <2>6. CASE Enlist(w)
    BY <1>1, <2>1, <2>3, <2>6 DEF Enlist
  <2>7. CASE Run(w)
    BY <1>1, <2>1, <2>3, <2>7 DEF Run
  <2>8. CASE Finish(w)
    BY <1>1, <2>1, <2>3, <2>8 DEF Finish, Finished
  <2> QED BY <1>4, <2>4, <2>5, <2>6, <2>7, <2>8
<1> QED BY <1>2, <1>3, <1>4 DEF Worker

LEMMA FitInvariant == Spec => []JobsFit
<1>1. Init => JobsFit
  <2> SUFFICES ASSUME Init PROVE JobsFit
    OBVIOUS
  <2>1. Queue = <<>> /\ Queued = {}
    BY QueueInit, EmptyQueue DEF Init, QueueInv, Queued, Members
  <2> QED BY <2>1 DEF Init, JobsFit, AcceptedFirst, StatesFit, LeftIsDone
<1>2. QueueInv /\ JobsFit /\ [Next]_vars => JobsFit'
  <2> SUFFICES ASSUME QueueInv, JobsFit, [Next]_vars PROVE JobsFit'
    OBVIOUS
  <2>1. CASE UNCHANGED vars
    <3>1. UNCHANGED <<first, next, jobState, running, accepted, pc, at>>
      BY <2>1 DEF vars, list, workers, jobs
    <3> QED BY <3>1, QueuedSteps DEF JobsFit, AcceptedFirst, StatesFit, LeftIsDone, Done
  <2> QED BY <2>1, FitMainNext, FitWorkerNext DEF Next
<1> QED BY <1>1, <1>2, QueueInvariant, PTL DEF Spec

(* When Shutdown returns every job that Add accepted has ended, those that    *)
(* cannot be aborted by being done: none has dropped from the list on the way *)
(* of the walk through it, though a worker ends as soon as it finds nothing   *)
(* there.                                                                     *)
THEOREM EverythingEndsFirst == Spec => []AllEndBeforeShutdown
<1>1. QueueInv /\ JobsFit => AllEndBeforeShutdown
  <2> SUFFICES ASSUME QueueInv, JobsFit, main = "down" PROVE AllEndBeforeShutdown
    BY DEF AllEndBeforeShutdown
  <2>1. \A w \in Workers : pc[w] = "over"
    BY DEF QueueInv, PoolInv, NobodyLeft
  <2>2. running = {}
    BY <2>1 DEF QueueInv, PoolInv, SomebodyRuns
  <2>3. Queued = {} /\ \A w \in Workers : at[w] = none
    BY <2>1, NobodyHoldsAJob DEF Held, Queued, Members
  <2>4. accepted \subseteq Jobs /\ none \notin Jobs
        /\ jobState \in [Jobs -> {"queued", "running", "done", "aborted"}]
    BY JobsAssumption DEF QueueInv, PoolInv, TypeOK
  <2>5. \A j \in accepted : Done(j)
    BY <2>3, <2>4 DEF JobsFit, LeftIsDone
  <2>6. \A j \in accepted : j \notin Abortable => jobState[j] = "done"
    BY <2>4, <2>5 DEF JobsFit, StatesFit, Done
  <2> QED BY <2>1, <2>2, <2>5, <2>6 DEF AllEndBeforeShutdown
<1> QED BY <1>1, QueueInvariant, FitInvariant, PTL

(* The walk: what it has behind it is what it has kept, up to pPrev, and none *)
(* of that can be aborted; when it is over nothing on the list can.           *)
WalkAborts ==
  /\ main = "unqueue" =>
       \A k \in DOMAIN Queue : Queue[k] = pPrev => \A i \in 1 .. k : Queue[i] \notin Abortable
  /\ main \in {"abort", "wake", "down"} => Queued \cap Abortable = {}

(* Where the walk stands: pJob comes right behind pPrev.                      *)
LEMMA WalkStands ==
  ASSUME QueueInv, Unqueue
  PROVE  \E i \in DOMAIN Queue :
           /\ Queue[i] = pJob
           /\ IF pPrev = none THEN i = 1 ELSE i # 1 /\ Queue[i - 1] = pPrev
<1> /\ Queue \in Seq(Jobs) /\ Len(Queue) \in Nat /\ DOMAIN Queue = 1 .. Len(Queue)
    /\ IsList(first, next, Queue) /\ NoTwice(Queue) /\ none \notin Jobs
  BY ListsAreSequences, JobsAssumption DEF QueueInv, WellLinked
<1>1. PICK i \in DOMAIN Queue : Queue[i] = pJob
  BY DEF Unqueue, QueueInv, WalkIsLinked, Queued, Members
<1>2. CASE pPrev = none
  <2>1. Queue # <<>> /\ Queue[1] = pJob /\ 1 \in DOMAIN Queue
    BY <1>1, <1>2, EmptySeq DEF Unqueue, QueueInv, WalkIsLinked, IsList
  <2> QED BY <1>1, <1>2, <2>1 DEF NoTwice
<1>3. CASE pPrev # none
  <2>1. PICK k \in DOMAIN Queue : Queue[k] = pPrev
    BY <1>3 DEF Unqueue, QueueInv, WalkIsLinked, Queued, Members
  <2>2. next[Queue[k]] = pJob /\ pJob # none
    BY <1>3, <2>1 DEF Unqueue, QueueInv, WalkIsLinked
  <2>3. k # Len(Queue) /\ Queue[k + 1] = pJob
    BY <2>1, <2>2 DEF IsList
  <2>4. k + 1 \in DOMAIN Queue /\ k + 1 # 1 /\ (k + 1) - 1 = k
    BY <2>1, <2>3
  <2> QED BY <1>3, <2>1, <2>3, <2>4
<1> QED BY <1>2, <1>3

LEMMA WalkUnqueue == ASSUME QueueInv, WalkAborts, Unqueue PROVE WalkAborts'
<1> /\ Queue \in Seq(Jobs) /\ Len(Queue) \in Nat /\ DOMAIN Queue = 1 .. Len(Queue)
    /\ Queue \in Lists /\ NoTwice(Queue) /\ none \notin Jobs
  BY ListsAreSequences, JobsAssumption DEF QueueInv, WellLinked
<1>1. main = "unqueue" /\ main' = "unqueue"
  BY DEF Unqueue
<1>2. PICK i \in DOMAIN Queue :
        /\ Queue[i] = pJob
        /\ IF pPrev = none THEN i = 1 ELSE i # 1 /\ Queue[i - 1] = pPrev
  BY WalkStands
<1>3. ASSUME NEW l \in 1 .. i - 1 PROVE Queue[l] \notin Abortable
  <2>1. pPrev # none /\ i - 1 \in DOMAIN Queue /\ Queue[i - 1] = pPrev
    BY <1>2
  <2> QED BY <1>1, <2>1 DEF WalkAborts
<1>4. CASE pJob \in Abortable
  <2>1. /\ Queue' = Without(Queue, i) /\ Queue' \in Lists /\ NoTwice(Queue')
        /\ Len(Queue') = Len(Queue) - 1
        /\ \A k \in 1 .. Len(Queue) - 1 : Queue'[k] = IF k < i THEN Queue[k] ELSE Queue[k + 1]
    <3>1. PICK l \in DOMAIN Queue : Queue[l] = pJob /\ Queue' = Without(Queue, l)
      BY <1>4, QueueUnqueued DEF QueueInv
    <3>2. l = i
      BY <1>2, <3>1 DEF NoTwice
    <3> QED BY <3>1, <3>2, WithoutOne
  <2>2. pPrev' = pPrev
    BY <1>4 DEF Unqueue
  <2>3. DOMAIN Queue' = 1 .. Len(Queue) - 1 /\ \A k \in DOMAIN Queue' : Queue'[k] # none
    BY <2>1, ListsAreSequences
  <2>4. ASSUME NEW k \in DOMAIN Queue', Queue'[k] = pPrev, NEW l \in 1 .. k
        PROVE  Queue'[l] \notin Abortable
    <3>1. pPrev # none /\ i # 1 /\ Queue[i - 1] = pPrev
      BY <1>2, <2>3, <2>4
    <3>2. i - 1 \in DOMAIN Queue' /\ Queue'[i - 1] = Queue[i - 1]
      BY <2>1, <2>3, <3>1
    <3>3. k = i - 1
      BY <2>1, <2>4, <3>1, <3>2 DEF NoTwice
    <3>4. l \in 1 .. i - 1 /\ Queue'[l] = Queue[l]
      BY <2>1, <2>3, <3>3
    <3> QED BY <1>3, <3>4
  <2> QED BY <1>1, <2>2, <2>4 DEF WalkAborts
<1>5. CASE pJob \notin Abortable
  <2>1. Queue' = Queue /\ pPrev' = pJob
    BY <1>5, QueuedSteps DEF Unqueue
  <2>2. ASSUME NEW k \in DOMAIN Queue, Queue[k] = pJob, NEW l \in 1 .. k
        PROVE  Queue[l] \notin Abortable
    <3>1. k = i
      BY <1>2, <2>2 DEF NoTwice
    <3> QED BY <1>2, <1>3, <1>5, <3>1
  <2> QED BY <1>1, <2>1, <2>2 DEF WalkAborts
<1> QED BY <1>4, <1>5

LEMMA WalkUnqueued == ASSUME QueueInv, WalkAborts, Unqueued PROVE WalkAborts'
<1> /\ Queue \in Seq(Jobs) /\ Len(Queue) \in Nat /\ DOMAIN Queue = 1 .. Len(Queue)
    /\ IsList(first, next, Queue) /\ none \notin Jobs
  BY ListsAreSequences, JobsAssumption DEF QueueInv, WellLinked
<1>1. main = "unqueue" /\ pJob = none /\ main' = "abort" /\ Queued' = Queued
  BY QueuedSteps DEF Unqueued
<1>2. \A i \in DOMAIN Queue : Queue[i] \notin Abortable
  <2>1. CASE pPrev = none
    <3>1. Queue = <<>>
      BY <1>1, <2>1, EmptyQueue DEF QueueInv, WalkIsLinked
    <3> QED BY <3>1, EmptySeq
  <2>2. CASE pPrev # none
    <3>1. PICK k \in DOMAIN Queue : Queue[k] = pPrev
      BY <1>1, <2>2 DEF QueueInv, WalkIsLinked, Queued, Members
    <3>2. next[Queue[k]] = none
      BY <1>1, <2>2, <3>1 DEF QueueInv, WalkIsLinked
    <3>3. k # Len(Queue) => next[Queue[k]] = Queue[k + 1] /\ Queue[k + 1] \in Jobs
      BY <3>1 DEF IsList
    <3>4. k = Len(Queue)
      BY <3>2, <3>3
    <3> QED BY <1>1, <3>1, <3>4 DEF WalkAborts
  <2> QED BY <2>1, <2>2
<1> QED BY <1>1, <1>2 DEF WalkAborts, Queued, Members

LEMMA WalkInvariant == Spec => []WalkAborts
<1>1. Init => WalkAborts
  <2> SUFFICES ASSUME Init PROVE WalkAborts
    OBVIOUS
  <2>1. Queued = {}
    BY QueueInit, EmptyQueue, EmptySeq DEF Init, QueueInv, Queued, Members
  <2> QED BY <2>1 DEF Init, WalkAborts
<1>2. QueueInv /\ WalkAborts /\ [Next]_vars => WalkAborts'
  <2> SUFFICES ASSUME QueueInv, WalkAborts, [Next]_vars PROVE WalkAborts'
    OBVIOUS
  <2> USE DEF list, walk, workers, jobs, WalkAborts
  <2>1. CASE Unqueue \/ Unqueued
    BY <2>1, WalkUnqueue, WalkUnqueued
  <2>2. CASE InitPool \/ Signal \/ \E j \in Jobs : Add(j) \/ Abort(j)
    BY <2>2 DEF InitPool, Signal, Add, Abort
  <2>3. CASE Shutdown
    <3>1. pPrev' = none /\ main' = "unqueue" /\ Queue' = Queue
      BY <2>3, QueuedSteps DEF Shutdown
    <3>2. \A k \in DOMAIN Queue : Queue[k] # none
      BY ListsAreSequences, JobsAssumption DEF QueueInv, WellLinked
    <3> QED BY <3>1, <3>2
  <2>4. CASE AbortRunning \/ Wake \/ Join \/ \E j \in Jobs : Refuse(j)
    <3>1. /\ main \in {"abort", "wake", "down"} /\ main' \in {"abort", "wake", "down"}
          /\ UNCHANGED <<first, next>>
      BY <2>4 DEF AbortRunning, Wake, Join, Refuse
    <3> QED BY <3>1, QueuedSteps
  <2>5. ASSUME NEW w \in Workers, Worker(w) PROVE WalkAborts'
    <3> USE DEF mainVars
    <3>1. UNCHANGED <<main, pPrev>>
      BY <2>5 DEF Worker, Wait, Fetch, FetchNothing, EndLoop, Start, Skip, Enlist, Run, Finish
    <3>2. CASE Fetch(w)
      <4>1. main # "unqueue" /\ Queued' \subseteq Queued
        BY <3>2, QueuedSteps DEF Fetch
      <4> QED BY <3>1, <4>1
    <3>3. CASE ~Fetch(w)
      <4>1. UNCHANGED <<first, next>>
        BY <2>5, <3>3 DEF Worker, Wait, FetchNothing, EndLoop, Start, Skip, Enlist, Run, Finish
      <4> QED BY <3>1, <4>1, QueuedSteps
    <3> QED BY <3>2, <3>3
  <2>6. CASE UNCHANGED vars
    BY <2>6, QueuedSteps DEF vars
  <2> QED BY <2>1, <2>2, <2>3, <2>4, <2>5, <2>6 DEF Next, MainStep
<1> QED BY <1>1, <1>2, QueueInvariant, PTL DEF Spec

(* Behind its two passes Shutdown has aborted whatever can be and has not     *)
(* ended, but for what a worker has in its hands and not in m_RunningJobs:    *)
(* the walk misses no job for the links it changes on its way.                *)
THEOREM OnlyTheHeldEscape == Spec => AbortsReachAll
<1> DEFINE Reached == AbortRunning =>
             \A j \in accepted \cap Abortable : Done(j)' \/ BetweenLists(j)
<1>1. ASSUME QueueInv, JobsFit, WalkAborts PROVE Reached
  <2> SUFFICES ASSUME AbortRunning, NEW j \in accepted \cap Abortable, ~BetweenLists(j)
               PROVE  Done(j)'
    OBVIOUS
  <2> /\ TypeOK /\ HandsFull /\ JobsFit /\ none \notin Jobs /\ j \in Jobs
    BY <1>1, JobsAssumption DEF QueueInv, PoolInv, TypeOK
  <2>1. jobState' = [k \in Jobs |-> IF k \in running \cap Abortable THEN "aborted" ELSE jobState[k]]
    BY DEF AbortRunning
  <2>2. j \notin Queued
    BY <1>1 DEF WalkAborts, AbortRunning
  <2>3. CASE j \in running
    BY <2>1, <2>3 DEF Done
  <2>4. CASE j \notin running
    <3>1. ASSUME NEW w \in Workers PROVE at[w] # j
      <4>1. at[w] = j => pc[w] = "run"
        BY DEF BetweenLists, HandsFull, Busy
      <4> QED BY <2>4, <4>1 DEF JobsFit, StatesFit
    <3>2. Done(j)
      BY <2>2, <3>1 DEF JobsFit, LeftIsDone
    <3> QED BY <2>1, <2>4, <3>2 DEF Done
  <2> QED BY <2>3, <2>4
<1>2. QueueInv /\ JobsFit /\ WalkAborts /\ [Next]_vars => [Reached]_vars
  BY <1>1
<1> QED BY <1>2, QueueInvariant, FitInvariant, WalkInvariant, PTL DEF Spec, AbortsReachAll

(* The variables of JobService in terms of the list and of the hands.         *)
Ended == {j \in added : j \notin Held /\ \A i \in DOMAIN Queue : Queue[i] # j}
Phase == CASE main = "down" -> "closed"
           [] main \in {"up", "signal"} -> "open"
           [] OTHER -> "closing"

LEMMA ServiceState ==
  ASSUME QueueInv
  PROVE  /\ Ended = added \ (Held \cup Queued)
         /\ Service!Accepted = added
         /\ Held \subseteq added \ Queued /\ Queued \subseteq added
         /\ \A w \in Workers : at[w] # none <=> pc[w] \in Busy
         /\ \A w \in Workers : at[w] \in Held \cup {none}
<1>1. added \subseteq Jobs /\ Queued \subseteq added /\ Held \subseteq added \ Queued
  BY DEF QueueInv, PoolInv, TypeOK, OnePlace, Held
<1>2. Ended = added \ (Held \cup Queued)
  BY <1>1 DEF Ended, Queued, Members
<1>3. Queued = {Queue[i] : i \in DOMAIN Queue}
  BY MembersOf DEF QueueInv, WellLinked, Queued, Members
<1>4. Service!Accepted = Queued \cup Held \cup Ended
  BY <1>3 DEF Service!Accepted, Ended
<1> QED BY <1>1, <1>2, <1>4 DEF QueueInv, PoolInv, HandsFull, Held

LEMMA SameService ==
  ASSUME UNCHANGED <<first, next, at, added>>, Phase' = Phase
  PROVE  UNCHANGED Service!service
<1>1. Queue' = Queue /\ Held' = Held
  BY DEF Queue, Held
<1> QED BY <1>1 DEF Service!service, Phase

LEMMA MainServes ==
  ASSUME QueueInv, QueueInv',
         \/ InitPool \/ Shutdown \/ MainStep
         \/ \E j \in Jobs : Add(j) \/ Refuse(j) \/ Abort(j)
  PROVE  Service!Next \/ UNCHANGED Service!service
<1> USE DEF list, walk, workers, jobs
<1>1. CASE InitPool
  <2>1. Queue = <<>> /\ Queue' = <<>>
    <3>1. \A w \in Workers : pc[w] = "over"
      BY <1>1 DEF InitPool, QueueInv, PoolInv, NobodyLeft
    <3>2. first = none /\ UNCHANGED next
      BY <1>1, <3>1, WorkersAssumption DEF InitPool, QueueInv, NothingLeft
    <3> QED BY <1>1, <3>2, EmptyQueue DEF InitPool, QueueInv, Queue
  <2>2. Held' = Held /\ UNCHANGED added
    BY <1>1 DEF InitPool, Held
  <2>3. Service!Open
    BY <1>1, <2>1, <2>2 DEF InitPool, Service!Open
  <2> QED BY <2>3 DEF Service!Next
<1>2. CASE Shutdown
  <2>1. Queue' = Queue /\ Held' = Held /\ UNCHANGED added
    BY <1>2 DEF Shutdown, Queue, Held
  <2>2. Service!Close
    BY <1>2, <2>1 DEF Shutdown, Service!Close
  <2> QED BY <2>2 DEF Service!Next
<1>3. CASE Signal \/ Unqueued \/ AbortRunning \/ Wake
  <2>1. UNCHANGED <<first, next, at, added>> /\ Phase' = Phase
    BY <1>3 DEF Signal, Unqueued, AbortRunning, Wake, Phase
  <2> QED BY <2>1, SameService
<1>4. CASE Unqueue
  <2>1. CASE pJob \in Abortable
    <3>1. PICK i \in DOMAIN Queue : Queue[i] = pJob /\ Queue' = Without(Queue, i)
      BY <1>4, <2>1, QueueUnqueued DEF QueueInv
    <3>2. Queued' = Queued \ {pJob} /\ pJob \in Queued
      BY <3>1, MembersOf DEF QueueInv, WellLinked, Queued
    <3>3. Held' = Held /\ UNCHANGED added
      BY <1>4 DEF Unqueue, Held
    <3>4. Ended' = Ended \cup {Queue[i]}
      <4>1. Ended = added \ (Held \cup Queued) /\ Held \subseteq added \ Queued
            /\ Queued \subseteq added
        BY ServiceState
      <4>2. Ended' = added' \ (Held' \cup Queued')
        BY DEF Ended, Queued, Members, QueueInv, PoolInv, TypeOK
      <4> QED BY <3>1, <3>2, <3>3, <4>1, <4>2
    <3>5. main = "unqueue" /\ main' = "unqueue"
      BY <1>4 DEF Unqueue
    <3>6. Service!Drop(i)
      BY <2>1, <3>1, <3>3, <3>4, <3>5 DEF Service!Drop, Without, Ended
    <3> QED BY <3>1, <3>6 DEF Service!Next
  <2>2. CASE pJob \notin Abortable
    <3>1. UNCHANGED <<first, next, at, added>> /\ Phase' = Phase
      BY <1>4, <2>2 DEF Unqueue, Phase
    <3> QED BY <3>1, SameService
  <2> QED BY <2>1, <2>2
<1>5. CASE Join
  <2>1. Queue' = Queue /\ Held' = Held /\ UNCHANGED added
    BY <1>5 DEF Join, Queue, Held
  <2>2. Queue = <<>> /\ Held = {}
    BY <1>5, NobodyHoldsAJob DEF Join, Joined
  <2>3. Service!Closed
    BY <1>5, <2>1, <2>2 DEF Join, Service!Closed
  <2> QED BY <2>3 DEF Service!Next
<1>6. ASSUME NEW j \in Jobs, Add(j) PROVE Service!Next
  <2>1. j \notin Queued /\ j \notin Held /\ j \notin Service!Accepted
    BY <1>6, ServiceState DEF Add
  <2>2. Queue' = Append(Queue, j)
    BY <1>6, <2>1, QueueAdded DEF QueueInv
  <2>3. Queued' = Queued \cup {j}
    BY <2>2, MembersOf DEF QueueInv, WellLinked, Queued
  <2>4. Held' = Held /\ added' = added \cup {j}
    BY <1>6 DEF Add, Held
  <2>5. Ended' = Ended
    <3>1. Ended = added \ (Held \cup Queued) /\ j \notin added
      BY <1>6, ServiceState DEF Add
    <3>2. Ended' = added' \ (Held' \cup Queued')
      BY DEF Ended, Queued, Members, QueueInv, PoolInv, TypeOK
    <3>3. Ended' = (added \cup {j}) \ (Held \cup (Queued \cup {j}))
      BY <2>3, <2>4, <3>2
    <3> QED BY <3>1, <3>3
  <2>6. Service!Accept(j)
    BY <1>6, <2>1, <2>2, <2>4, <2>5 DEF Add, Service!Accept, Ended
  <2> QED BY <2>6 DEF Service!Next
<1>7. ASSUME NEW j \in Jobs, Refuse(j) PROVE Service!Next
  <2>1. j \notin Queued /\ j \notin Held /\ j \notin Service!Accepted
    BY <1>7, ServiceState DEF Refuse
  <2>2. Queue' = Queue /\ Queued' = Queued /\ Held' = Held /\ added' = added \cup {j}
    BY <1>7 DEF Refuse, Held, Queue, Queued
  <2>3. Ended' = Ended \cup {j}
    <3>1. Ended = added \ (Held \cup Queued)
      BY ServiceState
    <3>2. Ended' = added' \ (Held' \cup Queued')
      BY DEF Ended, Queued, Members, QueueInv, PoolInv, TypeOK
    <3> QED BY <2>1, <2>2, <3>1, <3>2
  <2>4. Service!Refuse(j)
    BY <1>7, <2>1, <2>2, <2>3 DEF Refuse, Service!Refuse, Ended
  <2> QED BY <2>4 DEF Service!Next
<1>8. ASSUME NEW j \in Jobs, Abort(j) PROVE UNCHANGED Service!service
  BY <1>8, SameService DEF Abort, Phase
<1> QED BY <1>1, <1>2, <1>3, <1>4, <1>5, <1>6, <1>7, <1>8 DEF MainStep

LEMMA WorkerServes ==
  ASSUME QueueInv, QueueInv', NEW w \in Workers, Worker(w)
  PROVE  Service!Next \/ UNCHANGED Service!service
<1> USE DEF list, walk, workers, jobs, mainVars, Go
<1>1. CASE Wait(w) \/ FetchNothing(w) \/ EndLoop(w) \/ Start(w) \/ Enlist(w) \/ Run(w)
  <2>1. UNCHANGED <<first, next, at, added, main>>
    BY <1>1 DEF Wait, FetchNothing, EndLoop, Start, Enlist, Run
  <2> QED BY <2>1, SameService DEF Phase
<1> at \in [Workers -> Jobs \cup {none}] /\ none \notin Jobs
  BY JobsAssumption DEF QueueInv, PoolInv, TypeOK
<1>2. CASE Fetch(w)
  <2>1. /\ Queue # <<>> /\ first = Queue[1] /\ first = Head(Queue) /\ 1 \in DOMAIN Queue
        /\ Queue' = Tail(Queue) /\ Queue' = Without(Queue, 1)
    BY <1>2, QueueFetched DEF QueueInv
  <2>2. Queued' = Queued \ {first} /\ first \in Queued
    <3>1. Queue \in Lists /\ NoTwice(Queue)
      BY DEF QueueInv, WellLinked
    <3>2. Members(Without(Queue, 1)) = Members(Queue) \ {Queue[1]} /\ Queue[1] \in Members(Queue)
      BY <2>1, <3>1, MembersOf
    <3>3. Queued' = Members(Without(Queue, 1))
      BY <2>1 DEF Queued
    <3> QED BY <2>1, <3>2, <3>3 DEF Queued
  <2>3. at[w] = none
    BY <1>2, ServiceState DEF Fetch, Busy
  <2>4. Held' = Held \cup {first} /\ UNCHANGED <<added, main>>
    <3>1. at' = [at EXCEPT ![w] = first] /\ first # none
      BY <1>2 DEF Fetch
    <3> QED BY <1>2, <2>3, <3>1 DEF Fetch, Held
  <2>5. Ended' = Ended
    <3>1. Ended = added \ (Held \cup Queued)
      BY ServiceState
    <3>2. Ended' = added' \ (Held' \cup Queued')
      BY DEF Ended, Queued, Members, QueueInv, PoolInv, TypeOK
    <3> QED BY <2>2, <2>4, <3>1, <3>2
  <2>6. Service!Take
    BY <2>1, <2>4, <2>5 DEF Service!Take, Ended
  <2> QED BY <2>6 DEF Service!Next
<1>3. CASE Skip(w) \/ Finish(w)
  <2>1. at[w] # none
    BY <1>3, ServiceState DEF Skip, Finish, Busy
  <2>2. /\ Queue' = Queue /\ Queued' = Queued /\ UNCHANGED <<added, main>>
        /\ at' = [at EXCEPT ![w] = none]
    BY <1>3 DEF Skip, Finish, Queue, Queued
  <2>3. \A v \in Workers : v # w => at[v] # at[w] \/ at[v] = none
    BY <2>1 DEF QueueInv, OnePlace
  <2>4. Held' = Held \ {at[w]} /\ at[w] \in Held
    BY <2>1, <2>2, <2>3 DEF Held
  <2>5. Ended' = Ended \cup {at[w]}
    <3>1. Ended = added \ (Held \cup Queued) /\ Held \subseteq added \ Queued
      BY ServiceState
    <3>2. Ended' = added' \ (Held' \cup Queued')
      BY DEF Ended, Queued, Members, QueueInv, PoolInv, TypeOK
    <3> QED BY <2>2, <2>4, <3>1, <3>2
  <2>6. PICK j \in Jobs : j = at[w]
    BY <2>1
  <2>7. Service!End(j)
    BY <2>2, <2>4, <2>5, <2>6 DEF Service!End, Ended
  <2> QED BY <2>7 DEF Service!Next
<1> QED BY <1>1, <1>2, <1>3 DEF Worker

(* The safety half of JobsAreServed: the linked list is a queue, accepted     *)
(* jobs are taken from it in order, each by one worker, only the walk of      *)
(* Shutdown drops any, and only such as can be aborted; the pool is closed    *)
(* when nothing is left.                                                      *)
THEOREM PoolServes == Spec => Service!Init /\ [][Service!Next]_(Service!service)
<1>1. Init => Service!Init
  <2> SUFFICES ASSUME Init PROVE Service!Init
    OBVIOUS
  <2>1. QueueInv /\ \A w \in Workers : pc[w] = "over"
    BY QueueInit DEF Init
  <2>2. Queue = <<>> /\ Held = {} /\ added = {}
    BY <2>1, NobodyHoldsAJob DEF Init
  <2> QED BY <2>2 DEF Init, Service!Init
<1>2. QueueInv /\ QueueInv' /\ [Next]_vars => [Service!Next]_(Service!service)
  <2> SUFFICES ASSUME QueueInv, QueueInv', [Next]_vars
               PROVE  Service!Next \/ UNCHANGED Service!service
    OBVIOUS
  <2>1. CASE UNCHANGED vars
    BY <2>1, SameService DEF vars, list, workers, jobs, Phase
  <2> QED BY <2>1, MainServes, WorkerServes DEF Next
<1> QED BY <1>1, <1>2, QueueInvariant, PTL DEF Spec

----------------------------------------------------------------------------
(* The end of the threads.                                                    *)

(* Once the pool shuts down a worker needs a signal only from before its wait *)
(* to behind it; there is one for every job left and for every worker that    *)
(* Shutdown has told.                                                         *)
Told == {w \in Workers : pc[w] \in {"fetch", "idle", "over"}}
SignalsForAll ==
  shutdown /\ main # "down" =>
    sem + Cardinality(Told) >= Len(Queue) + IF main = "wake" THEN woken ELSE 0

(* A worker that does not wait for a signal goes on, and so does the main     *)
(* thread, but for its wait for the last worker.                              *)
WorkerGoesOn(w) == pc[w] \notin {"wait", "over"} \/ (pc[w] = "wait" /\ sem > 0)

(* As long as a job is on the list of a pool that is up, or Shutdown waits    *)
(* for a worker, some worker goes on.                                         *)
WorkAhead ==
  \/ main = "up" /\ Queue # <<>>
  \/ main = "wake" /\ ~MoreToWake /\ ~Joined
NobodyStuck == WorkAhead => \E w \in Workers : WorkerGoesOn(w)

LEMMA ToldCount ==
  /\ IsFiniteSet(Told) /\ Cardinality(Told) \in Nat
  /\ \A w \in Workers : w \notin Told => Cardinality(Told \cup {w}) = Cardinality(Told) + 1
  /\ \A w \in Workers : w \in Told => Cardinality(Told \ {w}) = Cardinality(Told) - 1
<1>1. IsFiniteSet(Told)
  BY WorkersAssumption, FS_Subset DEF Told
<1>2. Cardinality(Told) \in Nat
  BY <1>1, FS_CardinalityType
<1>3. ASSUME NEW w \in Workers, w \notin Told
      PROVE  Cardinality(Told \cup {w}) = Cardinality(Told) + 1
  BY <1>1, <1>3, FS_AddElement
<1>4. ASSUME NEW w \in Workers, w \in Told PROVE Cardinality(Told \ {w}) = Cardinality(Told) - 1
  BY <1>1, <1>4, FS_RemoveElement
<1> QED BY <1>1, <1>2, <1>3, <1>4

LEMMA QueueLength == QueueInv => Queue \in Seq(Jobs) /\ Len(Queue) \in Nat
BY ListsAreSequences DEF QueueInv, WellLinked

LEMMA SignalsMainNext ==
  ASSUME QueueInv, SignalsForAll,
         \/ InitPool \/ Shutdown \/ MainStep
         \/ \E j \in Jobs : Add(j) \/ Refuse(j) \/ Abort(j)
  PROVE  SignalsForAll'
<1> /\ TypeOK /\ WellLinked /\ sem \in Nat /\ woken \in Nat /\ Len(Queue) \in Nat
    /\ Cardinality(Told) \in Nat
  BY QueueLength, ToldCount, WorkersAssumption, FS_CardinalityType
     DEF QueueInv, PoolInv, TypeOK
<1> USE DEF list, walk, workers, jobs, SignalsForAll
<1>1. ASSUME UNCHANGED <<first, next, pc>>
      PROVE  Queue' = Queue /\ Told' = Told
  BY <1>1 DEF Queue, Told
<1>2. CASE InitPool \/ Join
  BY <1>2 DEF InitPool, Join
<1>3. CASE Shutdown
  <2>1. sem + Cardinality(Fetchers) = Len(Queue)
    BY <1>3, FetchersCount DEF Shutdown, QueueInv, OneSignalEach, Signals
  <2>2. Fetchers \subseteq Told /\ Cardinality(Fetchers) \in Nat
    BY FetchersCount DEF Fetchers, Told
  <2>3. Cardinality(Fetchers) <= Cardinality(Told)
    BY <2>2, ToldCount, FS_Subset
  <2>4. main' = "unqueue" /\ UNCHANGED <<first, next, pc, sem>>
    BY <1>3 DEF Shutdown
  <2> QED BY <1>1, <2>1, <2>2, <2>3, <2>4
<1>4. CASE Unqueue
  <2>1. Len(Queue') <= Len(Queue) /\ Len(Queue') \in Nat
    <3>1. CASE pJob \in Abortable
      <4>1. PICK i \in DOMAIN Queue : Queue' = Without(Queue, i) /\ WellLinked'
        BY <1>4, <3>1, QueueUnqueued DEF QueueInv
      <4>2. Len(Without(Queue, i)) = Len(Queue) - 1
        BY <4>1, WithoutOne DEF WellLinked
      <4>3. Len(Queue) # 0
        BY <4>1, ListsAreSequences DEF WellLinked
      <4> QED BY <4>1, <4>2, <4>3
    <3>2. CASE pJob \notin Abortable
      <4>1. Queue' = Queue
        BY <1>1, <1>4, <3>2 DEF Unqueue, Queue
      <4> QED BY <4>1
    <3> QED BY <3>1, <3>2
  <2>2. UNCHANGED <<main, shutdown, sem, pc>> /\ main = "unqueue"
    BY <1>4 DEF Unqueue
  <2>3. Told' = Told
    BY <2>2 DEF Told
  <2> QED BY <2>1, <2>2, <2>3
<1>5. CASE Unqueued \/ AbortRunning
  <2>1. /\ UNCHANGED <<first, next, pc, sem, shutdown>> /\ main # "down"
        /\ main # "wake" /\ (main' = "wake" => woken' = 0)
    BY <1>5 DEF Unqueued, AbortRunning
  <2> QED BY <1>1, <2>1
<1>6. CASE Wake
  <2>1. /\ UNCHANGED <<first, next, pc, shutdown, main>> /\ main = "wake"
        /\ woken' = woken + 1 /\ sem' = sem + 1
    BY <1>6 DEF Wake, Raised
  <2> QED BY <1>1, <2>1
<1>7. CASE Signal \/ \E j \in Jobs : Add(j) \/ Refuse(j) \/ Abort(j)
  <2>1. ~shutdown' \/ main' = "down"
    BY <1>7 DEF Signal, Add, Refuse, Abort, QueueInv, OneSignalEach
  <2> QED BY <2>1
<1> QED BY <1>2, <1>3, <1>4, <1>5, <1>6, <1>7 DEF MainStep

LEMMA SignalsWorkerNext ==
  ASSUME QueueInv, SignalsForAll, NEW w \in Workers, Worker(w)
  PROVE  SignalsForAll'
<1> /\ TypeOK /\ WellLinked /\ sem \in Nat /\ woken \in Nat /\ Len(Queue) \in Nat
    /\ Cardinality(Told) \in Nat
  BY QueueLength, ToldCount, WorkersAssumption, FS_CardinalityType
     DEF QueueInv, PoolInv, TypeOK
<1> USE DEF list, walk, workers, jobs, mainVars, Go, SignalsForAll
<1>1. UNCHANGED <<main, woken, shutdown>>
  BY DEF Worker, Wait, Fetch, FetchNothing, EndLoop, Start, Skip, Enlist, Run, Finish
<1>2. CASE Wait(w)
  <2>1. Told' = Told \cup {w} /\ w \notin Told
    BY <1>2 DEF Wait, Told, TypeOK
  <2>2. Queue' = Queue
    BY <1>2 DEF Wait, Queue
  <2>3. Cardinality(Told') = Cardinality(Told) + 1
    BY <2>1, ToldCount
  <2>4. sem' = sem - 1
    BY <1>2 DEF Wait
  <2> QED BY <1>1, <2>2, <2>3, <2>4
<1>3. CASE Fetch(w)
  <2>1. Queue # <<>> /\ Queue' = Tail(Queue)
    BY <1>3, QueueFetched DEF QueueInv
  <2>2. Len(Queue') = Len(Queue) - 1
    BY <2>1, QueueLength, HeadTailProperties
  <2>3. Told' = Told \ {w} /\ w \in Told
    BY <1>3 DEF Fetch, Told, TypeOK
  <2>4. Cardinality(Told') = Cardinality(Told) - 1
    BY <2>3, ToldCount
  <2>5. UNCHANGED sem
    BY <1>3 DEF Fetch
  <2> QED BY <1>1, <2>2, <2>4, <2>5
<1>4. CASE FetchNothing(w) \/ EndLoop(w)
  <2>1. UNCHANGED <<first, next, sem>>
    BY <1>4 DEF FetchNothing, EndLoop
  <2>2. Queue' = Queue
    BY <2>1 DEF Queue
  <2>3. shutdown => Told' = Told
    BY <1>4 DEF FetchNothing, EndLoop, Told, TypeOK
  <2> QED BY <1>1, <2>1, <2>2, <2>3
<1>5. CASE Start(w) \/ Skip(w) \/ Enlist(w) \/ Run(w) \/ Finish(w)
  <2>1. UNCHANGED <<first, next, sem>>
    BY <1>5 DEF Start, Skip, Enlist, Run, Finish
  <2>2. /\ pc[w] \in {"start", "enlist", "run", "finish"}
        /\ \E c \in {"enlist", "wait", "run", "finish"} : pc' = [pc EXCEPT ![w] = c]
    BY <1>5 DEF Start, Skip, Enlist, Run, Finish
  <2>3. Told' = Told
    BY <2>2 DEF Told, TypeOK
  <2> QED BY <1>1, <2>1, <2>3 DEF Queue
<1> QED BY <1>2, <1>3, <1>4, <1>5 DEF Worker

LEMMA SignalsInvariant == Spec => []SignalsForAll
<1>1. Init => SignalsForAll
  BY DEF Init, SignalsForAll
<1>2. QueueInv /\ SignalsForAll /\ [Next]_vars => SignalsForAll'
  <2> SUFFICES ASSUME QueueInv, SignalsForAll, [Next]_vars PROVE SignalsForAll'
    OBVIOUS
  <2>1. CASE UNCHANGED vars
    <3>1. UNCHANGED <<main, woken, shutdown, first, next, sem, pc>>
      BY <2>1 DEF vars, list, walk, workers, jobs
    <3>2. Queue' = Queue /\ Told' = Told
      BY <3>1 DEF Queue, Told
    <3> QED BY <3>1, <3>2 DEF SignalsForAll
  <2> QED BY <2>1, SignalsMainNext, SignalsWorkerNext DEF Next
<1> QED BY <1>1, <1>2, QueueInvariant, PTL DEF Spec

LEMMA SomebodyGoesOn == QueueInv /\ SignalsForAll => NobodyStuck
<1> SUFFICES ASSUME QueueInv, SignalsForAll, WorkAhead, \A w \in Workers : ~WorkerGoesOn(w)
             PROVE  FALSE
  BY DEF NobodyStuck
<1>1. \A w \in Workers : pc[w] = "over" \/ (pc[w] = "wait" /\ sem = 0)
  BY DEF WorkerGoesOn, QueueInv, PoolInv, TypeOK
<1>2. Len(Queue) \in Nat /\ sem \in Nat
  BY QueueLength DEF QueueInv, PoolInv, TypeOK
<1>3. CASE main = "up" /\ Queue # <<>>
  <2>1. Fetchers = {}
    BY <1>1 DEF Fetchers
  <2>2. sem = Len(Queue) /\ Len(Queue) # 0
    BY <1>2, <1>3, <2>1, FS_EmptySet, QueueLength, EmptySeq DEF QueueInv, OneSignalEach, Signals
  <2>3. PICK w \in Workers : pc[w] = "over"
    BY <1>1, <1>2, <2>2, WorkersAssumption
  <2> QED BY <1>3, <2>3 DEF QueueInv, NothingLeft
<1>4. CASE main = "wake" /\ ~MoreToWake /\ ~Joined
  <2>1. PICK w \in Workers : pc[w] = "wait" /\ sem = 0
    BY <1>1, <1>4 DEF Joined
  <2>2. Told \subseteq Workers \ {w}
    BY <2>1 DEF Told
  <2>3. /\ Cardinality(Told) <= Cardinality(Workers \ {w}) /\ Cardinality(Told) \in Nat
        /\ Cardinality(Workers \ {w}) = Cardinality(Workers) - 1
    BY <2>2, ToldCount, WorkersAssumption, FS_RemoveElement, FS_Subset
  <2>4. Cardinality(Told) >= Len(Queue) + woken
    BY <1>4, <2>1, <2>3 DEF SignalsForAll, QueueInv, OneSignalEach
  <2>5. woken = Cardinality(Workers) /\ woken \in Nat
    BY <1>4, WorkersAssumption, FS_CardinalityType DEF MoreToWake, QueueInv, PoolInv, TypeOK
  <2> QED BY <1>2, <2>3, <2>4, <2>5
<1> QED BY <1>3, <1>4 DEF WorkAhead

(* What the liveness of the pool rests on: with all its shared counters the   *)
(* pool never sleeps over a job on its list, and Shutdown, which sends one    *)
(* signal to every worker whatever the semaphore holds, never waits for one   *)
(* that got none.                                                             *)
THEOREM NoSignalIsLost == Spec => []NobodyStuck
BY SomebodyGoesOn, QueueInvariant, SignalsInvariant, PTL
=============================================================================
