---------------------------- MODULE NetConn_proof ----------------------------
(* Theorems of NetConn, for any number of lines, any length of the sequence   *)
(* space, of the resend buffer and of a packet, and any network.              *)
EXTENDS NetConn, FiniteSetTheorems, TLAPS

----------------------------------------------------------------------------
(* Sequence numbers.  The n-th vital chunk of a direction has the number      *)
(* Sq(n); half the space is enough to tell which of two is the older.         *)
Half == Modulus \div 2
Sq(n) == (First + n) % Modulus

LEMMA SpaceFacts ==
  /\ Modulus \in Nat /\ Modulus > 2 /\ Half \in Nat /\ Modulus = 2 * Half
  /\ Capacity \in Nat /\ Capacity >= 1 /\ Capacity < Half
  /\ First \in Nat /\ PacketChunks \in Nat /\ PacketChunks >= 1 /\ PacketChunks <= Half
<1>1. Modulus \in Nat /\ Modulus > 2
  BY WindowAssumption
<1>2. Half \in Nat /\ Modulus = 2 * Half
  BY <1>1, WindowAssumption DEF Half
<1> QED BY <1>1, <1>2, WindowAssumption, PacketAssumption DEF Half

(* A remainder is found by leaving out whole rounds.                          *)
LEMMA Remainder ==
  ASSUME NEW m \in Nat, m > 0, NEW x \in Nat
  PROVE  x % m \in 0 .. m - 1 /\ \E q \in Nat : x = q * m + (x % m)
<1>1. x % m \in 0 .. m - 1
  OBVIOUS
<1>2. x \div m \in Nat
  OBVIOUS
<1>3. x % m = x - m * (x \div m)
  OBVIOUS
<1>4. \A q \in Nat : m * q = q * m
  OBVIOUS
<1>5. m * (x \div m) \in Nat /\ m * (x \div m) = (x \div m) * m
  BY <1>2, <1>4
<1>6. \A y \in Nat, r \in 0 .. m - 1 : r = x - y => x = y + r
  OBVIOUS
<1>7. x = m * (x \div m) + (x % m)
  BY <1>1, <1>3, <1>5, <1>6, Zenon
<1>8. x = (x \div m) * m + (x % m)
  BY <1>5, <1>7, Zenon
<1> QED BY <1>1, <1>2, <1>8, Zenon

(* Two rounds apart are a whole space apart.                                  *)
LEMMA RoundsApart ==
  ASSUME NEW m \in Nat, NEW p \in Nat, NEW q \in Nat, p < q
  PROVE  p * m + m <= q * m
<1>1. PICK d \in Nat : q = p + 1 + d
  <2>1. q - p - 1 \in Nat /\ q = p + 1 + (q - p - 1)
    OBVIOUS
  <2> QED BY <2>1
<1>2. q * m = p * m + m + d * m
  BY <1>1
<1>3. d * m \in Nat
  OBVIOUS
<1>4. p * m \in Nat /\ q * m \in Nat
  OBVIOUS
<1> QED BY <1>2, <1>3, <1>4

LEMMA SameRemainder ==
  ASSUME NEW m \in Nat, m > 0, NEW p \in Nat, NEW q \in Nat,
         NEW r \in 0 .. m - 1, NEW s \in 0 .. m - 1, p * m + r = q * m + s
  PROVE  r = s /\ p = q
<1> p * m \in Nat /\ q * m \in Nat
  OBVIOUS
<1>1. ~(p < q)
  BY RoundsApart
<1>2. ~(q < p)
  BY RoundsApart
<1>3. p = q
  BY <1>1, <1>2
<1> QED BY <1>3

LEMMA RemainderIs ==
  ASSUME NEW m \in Nat, m > 0, NEW x \in Nat, NEW q \in Nat, NEW r \in 0 .. m - 1,
         x = q * m + r
  PROVE  x % m = r
<1>1. PICK p \in Nat : x = p * m + (x % m)
  BY Remainder
<1>2. x % m \in 0 .. m - 1
  BY Remainder
<1> QED BY <1>1, <1>2, SameRemainder

(* A number of the space and the rounds that were counted before it.          *)
LEMMA SqFacts ==
  ASSUME NEW n \in Nat
  PROVE  Sq(n) \in Seqs /\ \E q \in Nat : First + n = q * Modulus + Sq(n)
<1>1. Modulus \in Nat /\ Modulus > 0 /\ First + n \in Nat
  BY SpaceFacts
<1>2. (First + n) % Modulus \in 0 .. Modulus - 1
  BY <1>1, Remainder
<1>3. \E q \in Nat : First + n = q * Modulus + ((First + n) % Modulus)
  BY <1>1, Remainder
<1>4. Sq(n) \in Seqs
  BY <1>2, Zenon DEF Sq, Seqs
<1>5. \E q \in Nat : First + n = q * Modulus + Sq(n)
  BY <1>3, Zenon DEF Sq
<1> QED BY <1>4, <1>5

LEMMA NextSq == ASSUME NEW n \in Nat PROVE NextSeq(Sq(n)) = Sq(n + 1)
<1>1. PICK q \in Nat : First + n = q * Modulus + Sq(n)
  BY SqFacts
<1>2. Sq(n) \in 0 .. Modulus - 1 /\ Modulus \in Nat /\ Modulus > 0 /\ First \in Nat
  BY SqFacts, SpaceFacts DEF Seqs
<1>3. q * Modulus \in Nat /\ (q + 1) * Modulus = q * Modulus + Modulus
  BY <1>2
<1>4. CASE Sq(n) + 1 < Modulus
  <2>1. (Sq(n) + 1) % Modulus = Sq(n) + 1
    BY <1>2, <1>4
  <2>2. (First + (n + 1)) % Modulus = Sq(n) + 1
    BY <1>1, <1>2, <1>3, <1>4, RemainderIs
  <2> QED BY <2>1, <2>2 DEF NextSeq, Sq
<1>5. CASE Sq(n) + 1 = Modulus
  <2>1. Modulus % Modulus = 0
    BY <1>2, RemainderIs
  <2>2. (First + (n + 1)) = (q + 1) * Modulus + 0
    BY <1>1, <1>2, <1>3, <1>5
  <2>3. First + (n + 1) \in Nat /\ q + 1 \in Nat /\ 0 \in 0 .. Modulus - 1
    BY <1>2
  <2>4. (First + (n + 1)) % Modulus = 0
    BY <1>2, <2>2, <2>3, RemainderIs
  <2> QED BY <1>5, <2>1, <2>4 DEF NextSeq, Sq
<1> QED BY <1>2, <1>4, <1>5

(* The numbers of two chunks less than a space apart differ by what the       *)
(* chunks differ, or by a space more or less.                                 *)
LEMMA SqDistance ==
  ASSUME NEW i \in Nat, NEW n \in Nat, i - n < Modulus, n - i < Modulus
  PROVE  Sq(i) - Sq(n) \in {i - n, i - n + Modulus, i - n - Modulus}
<1>1. PICK p \in Nat : First + i = p * Modulus + Sq(i)
  BY SqFacts
<1>2. PICK q \in Nat : First + n = q * Modulus + Sq(n)
  BY SqFacts
<1>3. /\ Sq(i) \in 0 .. Modulus - 1 /\ Sq(n) \in 0 .. Modulus - 1
      /\ Modulus \in Nat /\ First \in Nat
  BY SqFacts, SpaceFacts DEF Seqs
<1>4. p * Modulus \in Nat /\ q * Modulus \in Nat
  BY <1>3
<1>5. CASE p = q
  <2>1. p * Modulus = q * Modulus
    BY <1>5
  <2> QED BY <1>1, <1>2, <1>3, <1>4, <2>1
<1>6. CASE p < q
  <2>1. p * Modulus + Modulus <= q * Modulus
    BY <1>3, <1>6, RoundsApart
  <2>2. CASE p + 1 = q
    <3>1. q * Modulus = p * Modulus + Modulus
      BY <1>3, <2>2
    <3> QED BY <1>1, <1>2, <1>3, <1>4, <3>1
  <2>3. CASE p + 1 < q
    <3>1. (p + 1) * Modulus + Modulus <= q * Modulus
      BY <1>3, <2>3, RoundsApart
    <3>2. (p + 1) * Modulus = p * Modulus + Modulus
      BY <1>3
    <3> QED BY <1>1, <1>2, <1>3, <1>4, <3>1, <3>2
  <2> QED BY <1>6, <2>2, <2>3
<1>7. CASE q < p
  <2>2. CASE q + 1 = p
    <3>1. p * Modulus = q * Modulus + Modulus
      BY <1>3, <2>2
    <3> QED BY <1>1, <1>2, <1>3, <1>4, <3>1
  <2>3. CASE q + 1 < p
    <3>1. (q + 1) * Modulus + Modulus <= p * Modulus
      BY <1>3, <2>3, RoundsApart
    <3>2. (q + 1) * Modulus = q * Modulus + Modulus
      BY <1>3
    <3> QED BY <1>1, <1>2, <1>3, <1>4, <3>1, <3>2
  <2> QED BY <1>7, <2>2, <2>3
<1> QED BY <1>5, <1>6, <1>7

LEMMA SameSq ==
  ASSUME NEW i \in Nat, NEW n \in Nat, i - n < Modulus, n - i < Modulus, Sq(i) = Sq(n)
  PROVE  i = n
<1>1. Sq(i) - Sq(n) = 0
  BY SqFacts DEF Seqs
<1> QED BY <1>1, SqDistance, SpaceFacts

(* CNetBase::IsSeqInBackroom tells the chunks that are due from those that    *)
(* have come, wherever the two numbers lie in the space, as long as the       *)
(* chunks are less than half of it apart.                                     *)
THEOREM BackroomIsThePast ==
  ASSUME NEW i \in Nat, NEW n \in Nat, i - n < Half, n - i < Half
  PROVE  IsSeqInBackroom(Sq(i), Sq(n)) <=> i <= n
<1>1. Sq(i) - Sq(n) \in {i - n, i - n + Modulus, i - n - Modulus}
  BY SqDistance, SpaceFacts
<1>2. Sq(i) \in 0 .. Modulus - 1 /\ Sq(n) \in 0 .. Modulus - 1
  BY SqFacts DEF Seqs
<1>3. Half \in Nat /\ Modulus = 2 * Half
  BY SpaceFacts
<1>4. IsSeqInBackroom(Sq(i), Sq(n)) <=>
        IF Sq(n) - Half < 0
          THEN Sq(i) <= Sq(n) \/ Sq(i) >= Sq(n) - Half + Modulus
          ELSE Sq(i) <= Sq(n) /\ Sq(i) >= Sq(n) - Half
  BY DEF IsSeqInBackroom, Half
<1> QED BY <1>1, <1>2, <1>3, <1>4

----------------------------------------------------------------------------
(* Both ends of a line.                                                       *)
LEMMA SideFacts ==
  ASSUME NEW s \in Sides
  PROVE  Other(s) \in Sides /\ Other(s) # s /\ Other(Other(s)) = s
<1>1. Other("server") = "client" /\ Other("client") = "server"
  BY DEF Other, Sides
<1> QED BY <1>1 DEF Sides

(* Without timeout protection an end stays on its line.                       *)
Wired == line = [e \in Ends |-> e[2]]

LEMMA PeerFacts ==
  ASSUME NEW e \in Ends
  PROVE  /\ Peer(e) \in Ends /\ Peer(e) # e /\ Peer(Peer(e)) = e
         /\ Wired => Out(e) = Peer(e) /\ In(e) = e
<1>1. PICK s \in Sides, l \in Lines : e = <<s, l>>
  BY DEF Ends
<1>2. Peer(e) = <<Other(s), l>>
  BY <1>1 DEF Peer
<1>3. Peer(e) \in Ends /\ Peer(e) # e /\ Peer(Peer(e)) = e
  BY <1>1, <1>2, SideFacts DEF Peer, Ends
<1>4. Wired => Out(e) = Peer(e) /\ In(e) = e
  BY <1>1, <1>2 DEF Wired, Out, In
<1> QED BY <1>3, <1>4

----------------------------------------------------------------------------
(* What the stores of an end may hold.                                        *)

(* The vital chunks of a direction, as they were numbered.                    *)
Chunks(d) == {c \in Chunk : c.id[1] = d /\ c.id[2] \in 1 .. queued[d] /\ c.seq = Sq(c.id[2])}

PacketTo(d, p) ==
  /\ IsPacket(p) /\ p.chunks \in Seq(Chunks(d))
  /\ p.upto <= Len(got[Peer(d)]) /\ p.ack = Sq(p.upto)

Scalars ==
  /\ Wired
  /\ state \in [Ends -> {"online", "error", "closed", "offline"}]
  /\ sequence \in [Ends -> Seqs] /\ ack \in [Ends -> Seqs] /\ peerAck \in [Ends -> Seqs]
  /\ queued \in [Ends -> Nat] /\ got \in [Ends -> Seq(Ends \X Nat)]
  /\ spilled \in SUBSET Ends

Stores ==
  /\ buffer \in [Ends -> Seq(Chunk)] /\ unpacker \in [Ends -> Seq(Chunk)]
  /\ construct \in [Ends -> Constructs]
  /\ \A e \in Ends :
       /\ buffer[e] \in Seq(Chunks(Peer(e))) /\ Len(buffer[e]) <= Capacity
       /\ construct[e].chunks \in Seq(Chunks(Peer(e)))
       /\ unpacker[e] \in Seq(Chunks(e)) /\ Len(unpacker[e]) <= PacketChunks

Wires == DOMAIN wire = Ends /\ \A d \in Ends : \A p \in wire[d] : PacketTo(d, p)

(* m_Sequence and m_Ack of an end that is not reset.                          *)
Numbers ==
  \A e \in Ends : state[e] # "offline" =>
    sequence[e] = Sq(queued[Peer(e)]) /\ ack[e] = Sq(Len(got[e]))

(* The resend buffer is a gapless end of what was queued, and begins no later *)
(* than what the receiver waits for.                                          *)
Gapless ==
  \A e \in Ends : state[e] # "offline" /\ Peer(e) \notin spilled =>
    /\ \A i \in 1 .. Len(buffer[e]) :
         buffer[e][i].id[2] = queued[Peer(e)] - Len(buffer[e]) + i
    /\ queued[Peer(e)] - Len(buffer[e]) <= Len(got[Peer(e)])

(* What was given to the application, and how far behind it may be.           *)
InOrder ==
  \A d \in Ends : d \notin spilled =>
    /\ \A k \in 1 .. Len(got[d]) : got[d][k] = <<d, k>>
    /\ Len(got[d]) <= queued[d] /\ queued[d] <= Len(got[d]) + Capacity

(* While a packet is unpacked none of its chunks gets a whole space old.      *)
NotTooOld ==
  \A d \in Ends : \A i \in 1 .. Len(unpacker[d]) :
    unpacker[d][i].id[2] + Half + (PacketChunks - Len(unpacker[d])) > Len(got[d])

Inv == Scalars /\ Stores /\ Wires /\ Numbers /\ Gapless /\ InOrder /\ NotTooOld

LEMMA SeqOfMore ==
  ASSUME NEW S, NEW T, S \subseteq T, NEW s \in Seq(S)
  PROVE  s \in Seq(T)
OBVIOUS

LEMMA ChunksAreChunks == ASSUME NEW d PROVE Chunks(d) \subseteq Chunk
BY DEF Chunks

LEMMA InvIsTyped == Inv => TypeOK
<1> SUFFICES ASSUME Inv PROVE TypeOK
  OBVIOUS
<1>1. line \in [Ends -> Lines]
  BY DEF Inv, Scalars, Wired, Ends
<1>2. \A w \in Ends : \A p \in wire[w] : IsPacket(p)
  BY DEF Inv, Wires, PacketTo
<1> QED BY <1>1, <1>2 DEF Inv, Scalars, Stores, Wires, TypeOK

LEMMA InvInit == Init => Inv
<1> SUFFICES ASSUME Init PROVE Inv
  OBVIOUS
<1>1. First \in Seqs /\ Sq(0) = First /\ 0 \in Nat
  <2>1. First = 0 * Modulus + First /\ First \in 0 .. Modulus - 1 /\ First + 0 = First
    BY WindowAssumption, SpaceFacts
  <2>2. First % Modulus = First
    BY <2>1, SpaceFacts, RemainderIs
  <2> QED BY <2>1, <2>2 DEF Seqs, Sq
<1>2. Scalars
  BY <1>1 DEF Init, Scalars, Wired
<1>3. \A S : <<>> \in Seq(S) /\ Len(<<>>) = 0
  OBVIOUS
<1>4. Stores
  <2>1. Empty \in Constructs /\ Empty.chunks = <<>>
    BY SpaceFacts DEF Empty, Constructs
  <2>2. /\ buffer \in [Ends -> Seq(Chunk)] /\ unpacker \in [Ends -> Seq(Chunk)]
        /\ construct \in [Ends -> Constructs]
    BY <1>3, <2>1 DEF Init
  <2>3. \A e \in Ends : buffer[e] = <<>> /\ unpacker[e] = <<>> /\ construct[e].chunks = <<>>
    BY <2>1 DEF Init
  <2> QED BY <1>3, <2>2, <2>3, SpaceFacts DEF Stores
<1>5. Wires
  BY DEF Init, Wires
<1>6. Numbers
  BY <1>1, PeerFacts DEF Init, Numbers
<1>7. Gapless /\ InOrder /\ NotTooOld
  BY SpaceFacts, PeerFacts DEF Init, Gapless, InOrder, NotTooOld
<1> QED BY <1>2, <1>4, <1>5, <1>6, <1>7 DEF Inv

----------------------------------------------------------------------------
(* Sending.                                                                   *)

LEMMA SentPacket ==
  ASSUME Inv, NEW e \in Ends, state[e] # "offline",
         NEW S \in SUBSET Chunk, NEW chunks \in Seq(S), Len(chunks) <= PacketChunks,
         NEW resend \in BOOLEAN, NEW close \in BOOLEAN,
         NEW p, p = [ack |-> ack[e], resend |-> resend, close |-> close,
                     chunks |-> chunks, upto |-> Len(got[e])]
  PROVE  /\ IsPacket(p) /\ p.chunks \in Seq(S)
         /\ p.upto <= Len(got[e]) /\ p.ack = Sq(p.upto)
<1>1. ack[e] = Sq(Len(got[e])) /\ ack[e] \in Seqs /\ Len(got[e]) \in Nat
  BY DEF Inv, Numbers, Scalars
<1>2. chunks \in Seq(Chunk)
  BY SeqOfMore
<1> QED BY <1>1, <1>2 DEF IsPacket

(* Whatever the network keeps, every packet on it is one that was sent.       *)
LEMMA WiresNext ==
  ASSUME Inv, NEW e \in Ends, NEW packets, Send(e, packets),
         \A d \in Ends : Chunks(d) \subseteq Chunks(d)' /\ Len(got'[d]) >= Len(got[d]),
         \A p \in packets :
            /\ IsPacket(p) /\ p.chunks \in Seq(Chunks(Peer(e))')
            /\ p.upto <= Len(got[e]) /\ p.ack = Sq(p.upto),
         got' \in [Ends -> Seq(Ends \X Nat)]
  PROVE  Wires'
<1>1. DOMAIN wire = Ends /\ Out(e) = Peer(e) /\ Peer(e) \in Ends /\ Peer(Peer(e)) = e
  BY PeerFacts DEF Inv, Wires, Scalars
<1>2. PICK under : /\ under \subseteq wire[Peer(e)] \cup packets
                   /\ wire' = [wire EXCEPT ![Peer(e)] = under]
  BY <1>1 DEF Send
<1>3. \A d \in Ends : Peer(d) \in Ends /\ Len(got[Peer(d)]) <= Len(got'[Peer(d)])
  BY PeerFacts
<1>4. \A d \in Ends : Len(got[d]) \in Nat /\ Len(got'[d]) \in Nat
  BY DEF Inv, Scalars
<1>5. ASSUME NEW d \in Ends, NEW p \in wire'[d] PROVE PacketTo(d, p)'
  <2>1. CASE p \in wire[d]
    <3>1. PacketTo(d, p)
      BY <2>1 DEF Inv, Wires
    <3>2. p.chunks \in Seq(Chunks(d)')
      BY <3>1, SeqOfMore DEF PacketTo
    <3>3. p.upto <= Len(got'[Peer(d)])
      BY <3>1, <1>3, <1>4 DEF PacketTo, IsPacket
    <3> QED BY <3>1, <3>2, <3>3 DEF PacketTo
  <2>2. CASE p \notin wire[d]
    <3>1. d = Peer(e) /\ p \in packets
      BY <1>1, <1>2, <1>5, <2>2
    <3>2. IsPacket(p) /\ p.chunks \in Seq(Chunks(d)') /\ p.ack = Sq(p.upto)
      BY <3>1
    <3>3. p.upto \in Nat /\ p.upto <= Len(got[e]) /\ Peer(d) = e
      BY <3>1, <1>1 DEF IsPacket
    <3>4. p.upto <= Len(got'[Peer(d)])
      BY <3>3, <1>4
    <3> QED BY <3>2, <3>4 DEF PacketTo
  <2> QED BY <2>1, <2>2
<1> QED BY <1>1, <1>2, <1>5 DEF Wires

(* m_Construct never holds more than a packet: QueueChunkEx flushes in time.  *)
LEMMA Cutting ==
  ASSUME NEW S \in SUBSET Chunk, NEW all \in Seq(S), NEW e \in Ends,
         construct[e] \in Constructs, construct[e].chunks \in Seq(S)
  PROVE  /\ Waiting(e, all) \in Constructs /\ Waiting(e, all).chunks \in Seq(S)
         /\ \A p \in Flushed(e, all) :
              \E resend \in BOOLEAN, chunks \in Seq(S) :
                Len(chunks) <= PacketChunks /\ p = Packet(e, resend, chunks)
<1> DEFINE n == Len(all)
           P == PacketChunks
<1>1. n \in Nat /\ P \in Nat /\ P >= 1
  BY SpaceFacts
<1>2. ASSUME NEW k \in Cuts(all)
      PROVE  /\ SubSeq(all, k - P + 1, k) \in Seq(S)
             /\ Len(SubSeq(all, k - P + 1, k)) = P
  <2>1. k \in 1 .. n - 1 /\ k % P = 0
    BY DEF Cuts
  <2>2. k >= P
    <3>1. SUFFICES ASSUME k < P PROVE FALSE
      BY <1>1, <2>1
    <3>2. k = 0 * P + k /\ k \in Nat /\ k \in 0 .. P - 1
      BY <1>1, <2>1, <3>1
    <3>3. k % P = k
      BY <1>1, <3>2, RemainderIs
    <3> QED BY <2>1, <3>3
  <2> QED BY <1>1, <2>1, <2>2
<1>3. \A p \in Flushed(e, all) :
        \E resend \in BOOLEAN, chunks \in Seq(S) :
          Len(chunks) <= P /\ p = Packet(e, resend, chunks)
  <2>1. SUFFICES ASSUME NEW p \in Flushed(e, all)
                 PROVE  \E resend \in BOOLEAN, chunks \in Seq(S) :
                          Len(chunks) <= P /\ p = Packet(e, resend, chunks)
    OBVIOUS
  <2>2. PICK k \in Cuts(all) :
          p = Packet(e, construct[e].resend /\ k = P, SubSeq(all, k - P + 1, k))
    BY DEF Flushed
  <2> DEFINE r == construct[e].resend /\ k = P
             cs == SubSeq(all, k - P + 1, k)
  <2>3. r \in BOOLEAN
    OBVIOUS
  <2>4. cs \in Seq(S) /\ Len(cs) <= P
    BY <1>1, <1>2
  <2>5. p = Packet(e, r, cs)
    BY <2>2
  <2> HIDE DEF r, cs
  <2> QED BY <2>3, <2>4, <2>5
<1>4. all \in Seq(Chunk)
  BY SeqOfMore
<1>5. CASE Cuts(all) = {}
  <2>1. n <= P
    <3>1. SUFFICES ASSUME P <= n - 1 PROVE FALSE
      BY <1>1
    <3>2. P = 1 * P + 0 /\ 0 \in 0 .. P - 1
      BY <1>1
    <3>3. P % P = 0
      BY <1>1, <3>2, RemainderIs
    <3>4. P \in 1 .. Len(all) - 1
      BY <1>1, <3>1
    <3> QED BY <1>5, <3>3, <3>4 DEF Cuts
  <2>2. Waiting(e, all) = [construct[e] EXCEPT !.chunks = all]
    BY <1>5 DEF Waiting
  <2> QED BY <1>3, <1>4, <2>1, <2>2 DEF Constructs
<1>6. CASE Cuts(all) # {}
  <2> DEFINE c == LastCut(all)
  <2>1. c \in Nat /\ c <= n - 1 /\ n - c <= P
    <3>1. n - 1 \in Nat
      BY <1>1, <1>6 DEF Cuts
    <3>2. \A m \in Nat, x \in Nat :
            m > 0 => x % m \in 0 .. m - 1 /\ x \div m \in Nat /\ x % m = x - m * (x \div m)
      OBVIOUS
    <3>3. (n - 1) % P \in 0 .. P - 1
      BY <1>1, <3>1, <3>2
    <3>4. (n - 1) \div P \in Nat /\ (n - 1) % P = (n - 1) - P * ((n - 1) \div P)
      BY <1>1, <3>1, <3>2
    <3>5. c = P * ((n - 1) \div P) /\ P * ((n - 1) \div P) \in Nat
      BY <1>1, <3>4 DEF LastCut
    <3> QED BY <1>1, <3>1, <3>3, <3>4, <3>5
  <2>2. Waiting(e, all) = [chunks |-> SubSeq(all, c + 1, n), resend |-> FALSE]
    BY <1>6 DEF Waiting
  <2>3. SubSeq(all, c + 1, n) \in Seq(S) /\ Len(SubSeq(all, c + 1, n)) <= P
    BY <1>1, <2>1
  <2>4. SubSeq(all, c + 1, n) \in Seq(Chunk)
    BY <2>3, SeqOfMore
  <2> QED BY <1>3, <2>2, <2>3, <2>4 DEF Constructs
<1> QED BY <1>5, <1>6

(* Whatever is flushed is a packet that may be sent.                          *)
LEMMA FlushedAreSent ==
  ASSUME Inv, NEW e \in Ends, state[e] = "online",
         NEW S \in SUBSET Chunk, NEW all \in Seq(S), construct[e].chunks \in Seq(S)
  PROVE  /\ Waiting(e, all) \in Constructs /\ Waiting(e, all).chunks \in Seq(S)
         /\ \A p \in Flushed(e, all) \cup {Packet(e, Waiting(e, all).resend, Waiting(e, all).chunks)} :
              /\ IsPacket(p) /\ p.chunks \in Seq(S)
              /\ p.upto <= Len(got[e]) /\ p.ack = Sq(p.upto)
<1>1. construct[e] \in Constructs
  BY DEF Inv, Stores
<1>2. /\ Waiting(e, all) \in Constructs /\ Waiting(e, all).chunks \in Seq(S)
      /\ \A p \in Flushed(e, all) :
           \E resend \in BOOLEAN, chunks \in Seq(S) :
             Len(chunks) <= PacketChunks /\ p = Packet(e, resend, chunks)
  BY <1>1, Cutting
<1>3. Waiting(e, all).resend \in BOOLEAN /\ Len(Waiting(e, all).chunks) <= PacketChunks
  BY <1>2 DEF Constructs
<1>4. ASSUME NEW p, NEW resend \in BOOLEAN, NEW chunks \in Seq(S),
             Len(chunks) <= PacketChunks, p = Packet(e, resend, chunks)
      PROVE  /\ IsPacket(p) /\ p.chunks \in Seq(S)
             /\ p.upto <= Len(got[e]) /\ p.ack = Sq(p.upto)
  <2>1. PICK no \in BOOLEAN : no = FALSE
    OBVIOUS
  <2>2. p = [ack |-> ack[e], resend |-> resend, close |-> no, chunks |-> chunks,
             upto |-> Len(got[e])]
    BY <1>4, <2>1 DEF Packet
  <2>3. state[e] # "offline"
    OBVIOUS
  <2> QED BY <1>4, <2>2, <2>3, SentPacket
<1> QED BY <1>2, <1>3, <1>4

LEMMA ControlIsSent ==
  ASSUME Inv, NEW e \in Ends, state[e] # "offline", NEW close \in BOOLEAN,
         NEW S \in SUBSET Chunk, NEW p \in {Control(e, close)}
  PROVE  /\ IsPacket(p) /\ p.chunks \in Seq(S)
         /\ p.upto <= Len(got[e]) /\ p.ack = Sq(p.upto)
<1> DEFINE none == <<>>
<1>1. PICK no \in BOOLEAN : no = FALSE
  OBVIOUS
<1>2. p = [ack |-> ack[e], resend |-> no, close |-> close, chunks |-> none, upto |-> Len(got[e])]
  BY <1>1 DEF Control, Packet
<1>3. none \in Seq(S) /\ Len(none) <= PacketChunks
  BY SpaceFacts
<1> HIDE DEF none
<1> QED BY <1>2, <1>3, SentPacket

----------------------------------------------------------------------------
(* The steps that put nothing new into the stores.                            *)

LEMMA ConstructStep ==
  ASSUME Inv, NEW e \in Ends, UNCHANGED <<line, state, window, buffer, unpacker, history>>, Wires',
         NEW c \in Constructs, c.chunks \in Seq(Chunks(Peer(e))),
         construct' = [construct EXCEPT ![e] = c]
  PROVE  Inv'
<1>1. \A d : Chunks(d)' = Chunks(d)
  BY DEF Chunks, history
<1>2. Stores'
  BY <1>1 DEF Inv, Stores
<1> QED BY <1>2 DEF Inv, Scalars, Wired, Numbers, Gapless, InOrder, NotTooOld, window, history

LEMMA SendStep ==
  ASSUME Inv, NEW e \in Ends, UNCHANGED history, NEW packets, Send(e, packets),
         \A p \in packets :
            /\ IsPacket(p) /\ p.chunks \in Seq(Chunks(Peer(e)))
            /\ p.upto <= Len(got[e]) /\ p.ack = Sq(p.upto)
  PROVE  Wires'
<1>1. \A d : Chunks(d)' = Chunks(d)
  BY DEF Chunks, history
<1>2. got' = got /\ \A d \in Ends : Len(got[d]) \in Nat
  BY DEF Inv, Scalars, history
<1>3. got' \in [Ends -> Seq(Ends \X Nat)]
  BY <1>2 DEF Inv, Scalars
<1> QED BY <1>1, <1>2, <1>3, WiresNext

LEMMA FlushAllKeeps ==
  ASSUME Inv, NEW e \in Ends, state[e] = "online", NEW all \in Seq(Chunks(Peer(e))),
         FlushAll(e, all), UNCHANGED <<line, state, window, buffer, unpacker, history>>
  PROVE  Inv'
<1>1. construct[e].chunks \in Seq(Chunks(Peer(e)))
  BY DEF Inv, Stores
<1>2. Wires'
  BY <1>1, FlushedAreSent, SendStep, ChunksAreChunks DEF FlushAll
<1>3. Empty \in Constructs /\ Empty.chunks \in Seq(Chunks(Peer(e)))
  BY SpaceFacts DEF Empty, Constructs
<1> QED BY <1>2, <1>3, ConstructStep DEF FlushAll

LEMMA WaitingKeeps ==
  ASSUME Inv, NEW e \in Ends, state[e] = "online", NEW all \in Seq(Chunks(Peer(e))),
         construct' = [construct EXCEPT ![e] = Waiting(e, all)], Send(e, Flushed(e, all)),
         UNCHANGED <<line, state, window, buffer, unpacker, history>>
  PROVE  Inv'
<1>1. construct[e].chunks \in Seq(Chunks(Peer(e)))
  BY DEF Inv, Stores
<1>2. Wires'
  BY <1>1, FlushedAreSent, SendStep, ChunksAreChunks
<1>3. Waiting(e, all) \in Constructs /\ Waiting(e, all).chunks \in Seq(Chunks(Peer(e)))
  BY <1>1, FlushedAreSent, ChunksAreChunks
<1> QED BY <1>2, <1>3, ConstructStep

LEMMA FlushKeeps == ASSUME Inv, NEW e \in Ends, Flush(e) PROVE Inv'
<1>1. construct[e].chunks \in Seq(Chunks(Peer(e)))
  BY DEF Inv, Stores
<1> QED BY <1>1, FlushAllKeeps DEF Flush

LEMMA UpdateKeeps ==
  ASSUME Inv, NEW e \in Ends, NEW resendDue \in BOOLEAN, NEW sendDue \in BOOLEAN,
         Update(e, resendDue, sendDue)
  PROVE  Inv'
<1> DEFINE all == IF resendDue /\ buffer[e] # <<>>
                    THEN Append(construct[e].chunks, Head(buffer[e]))
                    ELSE construct[e].chunks
           S == Chunks(Peer(e))
<1>1. construct[e].chunks \in Seq(S) /\ buffer[e] \in Seq(S) /\ S \in SUBSET Chunk
  BY ChunksAreChunks DEF Inv, Stores
<1>2. all \in Seq(S)
  <2>1. buffer[e] # <<>> => Head(buffer[e]) \in S
    BY <1>1
  <2> QED BY <1>1, <2>1
<1>3. state[e] = "online" /\ UNCHANGED <<line, state, window, buffer, unpacker, history>>
  BY DEF Update
<1>4. CASE ~sendDue
  <2>1. construct' = [construct EXCEPT ![e] = Waiting(e, all)] /\ Send(e, Flushed(e, all))
    BY <1>4 DEF Update
  <2> QED BY <1>2, <1>3, <2>1, WaitingKeeps
<1>5. CASE sendDue /\ (all # <<>> \/ construct[e].resend)
  <2>1. FlushAll(e, all)
    BY <1>5 DEF Update
  <2> QED BY <1>2, <1>3, <2>1, FlushAllKeeps
<1>6. CASE sendDue /\ ~(all # <<>> \/ construct[e].resend)
  <2>1. Send(e, {Control(e, FALSE)}) /\ construct' = construct
    BY <1>6 DEF Update
  <2>2. \A p \in {Control(e, FALSE)} :
          /\ IsPacket(p) /\ p.chunks \in Seq(S) /\ p.upto <= Len(got[e]) /\ p.ack = Sq(p.upto)
    BY <1>1, <1>3, ControlIsSent
  <2>3. Wires'
    <3> DEFINE sent == {Control(e, FALSE)}
    <3>1. UNCHANGED history /\ Send(e, sent)
      BY <1>3, <2>1
    <3>2. \A p \in sent :
            /\ IsPacket(p) /\ p.chunks \in Seq(Chunks(Peer(e)))
            /\ p.upto <= Len(got[e]) /\ p.ack = Sq(p.upto)
      BY <2>2
    <3> HIDE DEF sent
    <3> QED BY <3>1, <3>2, SendStep
  <2>4. construct' = [construct EXCEPT ![e] = construct[e]] /\ construct[e] \in Constructs
    BY <2>1 DEF Inv, Stores
  <2> QED BY <1>1, <1>3, <2>3, <2>4, ConstructStep
<1> QED BY <1>4, <1>5, <1>6

LEMMA TimeOutKeeps == ASSUME Inv, NEW e \in Ends, TimeOut(e) PROVE Inv'
<1>1. \A d : Chunks(d)' = Chunks(d)
  BY DEF TimeOut, Chunks, history
<1>2. \A d \in Ends : state'[d] = "offline" <=> state[d] = "offline"
  BY DEF TimeOut, Inv, Scalars
<1>3. Scalars'
  BY DEF TimeOut, Inv, Scalars, Wired, window, history
<1>4. Stores' /\ Wires'
  BY <1>1 DEF TimeOut, Inv, Stores, Wires, PacketTo, stores, history
<1>5. Numbers' /\ Gapless' /\ InOrder' /\ NotTooOld'
  BY <1>2 DEF TimeOut, Inv, Numbers, Gapless, InOrder, NotTooOld, window, stores, history
<1> QED BY <1>3, <1>4, <1>5 DEF Inv

LEMMA DisconnectKeeps == ASSUME Inv, NEW e \in Ends, Disconnect(e) PROVE Inv'
<1>1. \A d : Chunks(d)' = Chunks(d)
  BY DEF Disconnect, Chunks, history
<1>2. Scalars'
  <2>1. 0 \in Seqs
    BY SpaceFacts DEF Seqs
  <2> QED BY <2>1 DEF Disconnect, Inv, Scalars, Wired, history
<1>3. Stores'
  <2>1. /\ Empty \in Constructs
        /\ \A S : Empty.chunks \in Seq(S) /\ <<>> \in Seq(S) /\ Len(<<>>) <= Capacity
    BY SpaceFacts DEF Empty, Constructs
  <2> QED BY <1>1, <2>1 DEF Disconnect, Inv, Stores
<1>4. Wires'
  <2>1. CASE Send(e, {Control(e, TRUE)})
    <3> DEFINE sent == {Control(e, TRUE)}
    <3>1. Send(e, sent) /\ UNCHANGED history /\ state[e] # "offline"
      BY <2>1 DEF Disconnect
    <3>2. \A p \in sent :
            /\ IsPacket(p) /\ p.chunks \in Seq(Chunks(Peer(e)))
            /\ p.upto <= Len(got[e]) /\ p.ack = Sq(p.upto)
      BY <3>1, ControlIsSent, ChunksAreChunks
    <3> HIDE DEF sent
    <3> QED BY <3>1, <3>2, SendStep
  <2>2. CASE UNCHANGED wire
    BY <1>1, <2>2 DEF Disconnect, Inv, Wires, PacketTo, history
  <2> QED BY <2>1, <2>2 DEF Disconnect
<1>5. Numbers' /\ Gapless'
  BY DEF Disconnect, Inv, Scalars, Stores, Numbers, Gapless, history
<1>6. InOrder' /\ NotTooOld'
  BY DEF Disconnect, Inv, InOrder, NotTooOld, history
<1> QED BY <1>2, <1>3, <1>4, <1>5, <1>6 DEF Inv

----------------------------------------------------------------------------
(* Queueing, receiving, unpacking.                                            *)

LEMMA QueueChunkKeeps == ASSUME Inv, NEW e \in Ends, QueueChunk(e) PROVE Inv'
<1> DEFINE d == Peer(e)
           n == queued[d] + 1
           chunk == [seq |-> sequence'[e], id |-> <<Out(e), queued'[Out(e)]>>]
           all == Append(construct[e].chunks, chunk)
           S == Chunks(d)'
<1>1. /\ Scalars /\ Stores /\ Numbers /\ Gapless /\ InOrder /\ NotTooOld
      /\ Out(e) = d /\ d \in Ends /\ d # e
  BY PeerFacts DEF Inv, Scalars
<1>2. \A b \in Ends : b # e => Peer(b) # d
  BY PeerFacts
<1>3. /\ state[e] = "online" /\ sequence' = [sequence EXCEPT ![e] = NextSeq(@)]
      /\ queued' = [queued EXCEPT ![d] = @ + 1]
      /\ UNCHANGED <<line, state, ack, peerAck, unpacker, got>>
  BY <1>1 DEF QueueChunk
<1>4. /\ construct' = [construct EXCEPT ![e] = Waiting(e, all)] /\ Send(e, Flushed(e, all))
      /\ \/ /\ Len(buffer[e]) < Capacity
            /\ buffer' = [buffer EXCEPT ![e] = Append(@, chunk)] /\ UNCHANGED spilled
         \/ spilled' = spilled \cup {d} /\ UNCHANGED buffer
  BY <1>1 DEF QueueChunk
<1>5. /\ queued[d] \in Nat /\ queued'[d] = n /\ n \in Nat /\ queued' \in [Ends -> Nat]
      /\ \A b \in Ends : b # d => queued'[b] = queued[b]
  BY <1>1, <1>3 DEF Scalars
<1>6. sequence'[e] = Sq(n) /\ Sq(n) \in Seqs
  <2>1. sequence[e] = Sq(queued[d]) /\ sequence \in [Ends -> Seqs]
    BY <1>1, <1>3 DEF Numbers, Scalars
  <2> QED BY <1>3, <1>5, <2>1, NextSq, SqFacts
<1>7. \A b \in Ends : Chunks(b) \subseteq Chunks(b)' /\ Chunks(b)' \subseteq Chunk
  <2>1. ASSUME NEW b \in Ends PROVE queued[b] \in Nat /\ queued'[b] \in Nat /\ queued[b] <= queued'[b]
    <3> HIDE DEF d, n
    <3>1. queued[b] \in Nat /\ queued'[b] \in Nat
      BY <1>1, <1>5 DEF Scalars
    <3>2. CASE b = d
      BY <1>5, <3>2 DEF n
    <3>3. CASE b # d
      BY <1>5, <3>1, <3>3
    <3> QED BY <3>1, <3>2, <3>3
  <2>2. ASSUME NEW b \in Ends, NEW c \in Chunks(b) PROVE c \in Chunks(b)'
    BY <2>1 DEF Chunks
  <2> QED BY <2>2 DEF Chunks
<1>8. chunk \in S
  <2>1. chunk = [seq |-> Sq(n), id |-> <<d, n>>]
    BY <1>1, <1>5, <1>6
  <2>2. chunk \in Chunk
    BY <1>1, <1>5, <1>6, <2>1 DEF Chunk
  <2>3. chunk.id[1] = d /\ chunk.id[2] = n /\ chunk.seq = Sq(n)
    BY <2>1
  <2>4. n \in 1 .. queued'[d]
    BY <1>5
  <2> HIDE DEF chunk
  <2> QED BY <1>5, <2>2, <2>3, <2>4 DEF Chunks
<1> HIDE DEF chunk
<1>9. all \in Seq(S) /\ construct[e].chunks \in Seq(S)
  <2>1. construct[e].chunks \in Seq(S)
    BY <1>1, <1>7, SeqOfMore DEF Stores
  <2> QED BY <1>8, <2>1
<1>10. /\ Waiting(e, all) \in Constructs /\ Waiting(e, all).chunks \in Seq(S)
       /\ \A p \in Flushed(e, all) :
            /\ IsPacket(p) /\ p.chunks \in Seq(S)
            /\ p.upto <= Len(got[e]) /\ p.ack = Sq(p.upto)
  <2>1. S \in SUBSET Chunk
    BY <1>1, <1>7
  <2> HIDE DEF S, all
  <2> QED BY <1>3, <1>9, <2>1, FlushedAreSent
<1>11. Scalars'
  <2>1. sequence' \in [Ends -> Seqs]
    BY <1>1, <1>3, <1>6 DEF Scalars
  <2>2. spilled' \in SUBSET Ends
    BY <1>1, <1>4 DEF Scalars
  <2> QED BY <1>1, <1>3, <1>5, <2>1, <2>2 DEF Scalars, Wired
<1>12. Stores'
  <2>1. construct' \in [Ends -> Constructs]
    BY <1>1, <1>4, <1>10 DEF Stores
  <2>2. \A b \in Ends : construct'[b].chunks \in Seq(Chunks(Peer(b))')
    <3>1. \A b \in Ends : construct[b].chunks \in Seq(Chunks(Peer(b))')
      BY <1>1, <1>7, SeqOfMore, PeerFacts DEF Stores
    <3> QED BY <1>1, <1>4, <1>10, <3>1 DEF Stores
  <2>3. \A b \in Ends : buffer'[b] \in Seq(Chunks(Peer(b))') /\ Len(buffer'[b]) <= Capacity
    <3>1. \A b \in Ends : buffer[b] \in Seq(Chunks(Peer(b))') /\ Len(buffer[b]) <= Capacity
      BY <1>1, <1>7, SeqOfMore, PeerFacts DEF Stores
    <3>2. Append(buffer[e], chunk) \in Seq(S) /\ Len(Append(buffer[e], chunk)) = Len(buffer[e]) + 1
      BY <1>8, <3>1
    <3>3. Len(buffer[e]) \in Nat /\ Capacity \in Nat /\ buffer \in [Ends -> Seq(Chunk)]
      BY <1>1, SpaceFacts DEF Stores
    <3>4. \A b \in Ends : buffer'[b] = buffer[b] \/ (b = e /\ buffer'[b] = Append(buffer[e], chunk)
                                                      /\ Len(buffer[e]) < Capacity)
      BY <1>4, <3>3
    <3>5. ASSUME NEW b \in Ends, b = e, buffer'[b] = Append(buffer[e], chunk), Len(buffer[e]) < Capacity
          PROVE  buffer'[b] \in Seq(Chunks(Peer(b))') /\ Len(buffer'[b]) <= Capacity
      BY <3>2, <3>3, <3>5
    <3>6. ASSUME NEW b \in Ends, buffer'[b] = buffer[b]
          PROVE  buffer'[b] \in Seq(Chunks(Peer(b))') /\ Len(buffer'[b]) <= Capacity
      BY <3>1, <3>6
    <3> QED BY <3>4, <3>5, <3>6
  <2>4. buffer' \in [Ends -> Seq(Chunk)]
    <3>1. DOMAIN buffer' = Ends /\ buffer' = [b \in Ends |-> buffer'[b]]
      BY <1>1, <1>4 DEF Stores
    <3>2. \A b \in Ends : buffer'[b] \in Seq(Chunk)
      BY <1>7, <2>3, SeqOfMore, PeerFacts
    <3> QED BY <3>1, <3>2
  <2>5. \A b \in Ends : unpacker'[b] \in Seq(Chunks(b)') /\ Len(unpacker'[b]) <= PacketChunks
    BY <1>1, <1>3, <1>7, SeqOfMore DEF Stores
  <2>6. unpacker' \in [Ends -> Seq(Chunk)]
    BY <1>1, <1>3 DEF Stores
  <2> QED BY <2>1, <2>2, <2>3, <2>4, <2>5, <2>6 DEF Stores
<1>13. Wires'
  <2>1. got' = got /\ got' \in [Ends -> Seq(Ends \X Nat)]
        /\ \A b \in Ends : Len(got[b]) \in Nat /\ Len(got'[b]) >= Len(got[b])
    BY <1>1, <1>3 DEF Scalars
  <2> DEFINE sent == Flushed(e, all)
  <2>2. Send(e, sent) /\ \A p \in sent :
            /\ IsPacket(p) /\ p.chunks \in Seq(Chunks(Peer(e))')
            /\ p.upto <= Len(got[e]) /\ p.ack = Sq(p.upto)
    BY <1>4, <1>10
  <2> HIDE DEF sent
  <2> QED BY <1>7, <2>1, <2>2, WiresNext
<1>14. Numbers'
  BY <1>1, <1>2, <1>3, <1>5, <1>6, PeerFacts DEF Numbers, Scalars
<1>15. Gapless'
  <2>1. ASSUME NEW b \in Ends, b # e, state'[b] # "offline", Peer(b) \notin spilled'
        PROVE  /\ \A i \in 1 .. Len(buffer'[b]) :
                    buffer'[b][i].id[2] = queued'[Peer(b)] - Len(buffer'[b]) + i
               /\ queued'[Peer(b)] - Len(buffer'[b]) <= Len(got'[Peer(b)])
    <3>1. buffer'[b] = buffer[b] /\ queued'[Peer(b)] = queued[Peer(b)] /\ Peer(b) \notin spilled
      BY <1>1, <1>2, <1>4, <1>5, <2>1, PeerFacts DEF Stores
    <3> QED BY <1>1, <1>3, <2>1, <3>1 DEF Gapless
  <2>2. ASSUME d \notin spilled'
        PROVE  /\ \A i \in 1 .. Len(buffer'[e]) :
                    buffer'[e][i].id[2] = queued'[d] - Len(buffer'[e]) + i
               /\ queued'[d] - Len(buffer'[e]) <= Len(got'[d])
    <3>1. d \notin spilled /\ buffer'[e] = Append(buffer[e], chunk)
      BY <1>1, <1>4, <2>2 DEF Stores
    <3>2. /\ \A i \in 1 .. Len(buffer[e]) : buffer[e][i].id[2] = queued[d] - Len(buffer[e]) + i
          /\ queued[d] - Len(buffer[e]) <= Len(got[d])
      BY <1>1, <1>3, <3>1 DEF Gapless
    <3>3. chunk.id[2] = n
      BY <1>1, <1>5 DEF chunk
    <3>4. buffer[e] \in Seq(Chunk) /\ Len(buffer[e]) \in Nat /\ Len(got[d]) \in Nat
      BY <1>1 DEF Stores, Scalars
    <3>5. Len(buffer'[e]) = Len(buffer[e]) + 1
      BY <3>1, <3>4
    <3>6. \A i \in 1 .. Len(buffer'[e]) :
            buffer'[e][i] = IF i = Len(buffer[e]) + 1 THEN chunk ELSE buffer[e][i]
      BY <3>1, <3>4, <3>5
    <3>7. queued'[d] - Len(buffer'[e]) = queued[d] - Len(buffer[e])
      BY <1>5, <3>4, <3>5
    <3>8. ASSUME NEW i \in 1 .. Len(buffer'[e])
          PROVE  buffer'[e][i].id[2] = queued'[d] - Len(buffer'[e]) + i
      <4>1. CASE i = Len(buffer[e]) + 1
        <5>1. buffer'[e][i].id[2] = n
          BY <3>3, <3>6, <4>1
        <5>2. queued[d] - Len(buffer[e]) + i = n
          BY <1>5, <3>4, <4>1
        <5> QED BY <3>7, <5>1, <5>2
      <4>2. CASE i # Len(buffer[e]) + 1
        <5>1. i \in 1 .. Len(buffer[e])
          BY <3>4, <3>5, <4>2
        <5>2. buffer'[e][i] = buffer[e][i]
          BY <3>6, <4>2
        <5>3. buffer[e][i].id[2] = queued[d] - Len(buffer[e]) + i
          BY <3>2, <5>1
        <5> HIDE DEF d
        <5> QED BY <3>7, <5>2, <5>3
      <4> QED BY <4>1, <4>2
    <3> QED BY <1>3, <3>2, <3>7, <3>8
  <2> QED BY <2>1, <2>2 DEF Gapless
<1>16. InOrder'
  <2>1. ASSUME d \notin spilled' PROVE queued'[d] <= Len(got[d]) + Capacity
    <3>1. d \notin spilled /\ Len(buffer[e]) < Capacity
      BY <1>4, <2>1
    <3>2. queued[d] - Len(buffer[e]) <= Len(got[d])
      BY <1>1, <1>3, <3>1 DEF Gapless
    <3>3. Len(buffer[e]) \in Nat /\ Len(got[d]) \in Nat
      BY <1>1 DEF Stores, Scalars
    <3> QED BY <1>5, <3>1, <3>2, <3>3, SpaceFacts
  <2>2. \A b \in Ends : b \notin spilled' => b \notin spilled
    BY <1>4
  <2>3. Len(got[d]) \in Nat
    BY <1>1 DEF Scalars
  <2> QED BY <1>1, <1>3, <1>5, <2>1, <2>2, <2>3 DEF InOrder
<1>17. NotTooOld'
  BY <1>1, <1>3 DEF NotTooOld
<1> QED BY <1>11, <1>12, <1>13, <1>14, <1>15, <1>16, <1>17 DEF Inv

(* What AckChunks leaves is the rest after what is acknowledged.              *)
LEMMA AckedSize ==
  ASSUME NEW S, NEW chunks \in Seq(S), NEW a, NEW m \in Nat,
         \A i \in Acked(chunks, a) : i <= m
  PROVE  Cardinality(Acked(chunks, a)) \in 0 .. Len(chunks) /\ Cardinality(Acked(chunks, a)) <= m
<1>1. Len(chunks) \in Nat /\ DOMAIN chunks = 1 .. Len(chunks)
  OBVIOUS
<1>2. Acked(chunks, a) \subseteq 1 .. Len(chunks) /\ Acked(chunks, a) \subseteq 1 .. m
  BY <1>1 DEF Acked
<1>3. /\ IsFiniteSet(1 .. Len(chunks)) /\ Cardinality(1 .. Len(chunks)) = Len(chunks)
      /\ IsFiniteSet(1 .. m) /\ Cardinality(1 .. m) = m
  <2>1. \A n \in Nat : IsFiniteSet(1 .. n) /\ Cardinality(1 .. n) = IF 1 > n THEN 0 ELSE n - 1 + 1
    BY FS_Interval
  <2>2. \A n \in Nat : (IF 1 > n THEN 0 ELSE n - 1 + 1) = n
    OBVIOUS
  <2> QED BY <1>1, <2>1, <2>2
<1>4. /\ IsFiniteSet(Acked(chunks, a))
      /\ Cardinality(Acked(chunks, a)) <= Len(chunks) /\ Cardinality(Acked(chunks, a)) <= m
  BY <1>2, <1>3, FS_Subset
<1>5. Cardinality(Acked(chunks, a)) \in Nat
  BY <1>4, FS_CardinalityType
<1> QED BY <1>1, <1>4, <1>5

LEMMA AckRest ==
  ASSUME NEW S, NEW chunks \in Seq(S), NEW a,
         NEW k, k = Cardinality(Acked(chunks, a)), NEW rest, rest = AckChunks(chunks, a)
  PROVE  /\ k \in 0 .. Len(chunks) /\ rest \in Seq(S) /\ Len(rest) = Len(chunks) - k
         /\ \A i \in 1 .. Len(chunks) - k : rest[i] = chunks[k + i]
<1>1. Len(chunks) \in Nat /\ \A i \in Acked(chunks, a) : i <= Len(chunks)
  BY DEF Acked
<1>2. k \in 0 .. Len(chunks)
  BY <1>1, AckedSize
<1>3. rest = SubSeq(chunks, k + 1, Len(chunks))
  BY DEF AckChunks
<1>4. /\ SubSeq(chunks, k + 1, Len(chunks)) \in Seq(S)
      /\ Len(SubSeq(chunks, k + 1, Len(chunks))) = Len(chunks) - k
      /\ \A i \in 1 .. Len(chunks) - k : SubSeq(chunks, k + 1, Len(chunks))[i] = chunks[k + i]
  BY <1>1, <1>2
<1> QED BY <1>2, <1>3, <1>4

(* No acknowledgement the network brings, however old, pops a chunk that was  *)
(* not taken.                                                                 *)
LEMMA OnlyTakenIsPopped ==
  ASSUME Inv, NEW e \in Ends, state[e] = "online", Peer(e) \notin spilled,
         NEW p \in wire[e], Fresh(e, p)
  PROVE  queued[Peer(e)] - Len(buffer[e]) + Cardinality(Acked(buffer[e], p.ack)) <= Len(got[Peer(e)])
<1> DEFINE d == Peer(e)
           old == queued[d] - Len(buffer[e])
<1>1. /\ d \in Ends /\ queued[d] \in Nat /\ Len(got[d]) \in Nat /\ Len(buffer[e]) \in Nat
      /\ buffer[e] \in Seq(Chunks(d)) /\ Len(buffer[e]) <= Capacity
  BY PeerFacts DEF Inv, Scalars, Stores
<1>2. /\ \A i \in 1 .. Len(buffer[e]) : buffer[e][i].id[2] = old + i
      /\ old <= Len(got[d]) /\ Len(got[d]) <= queued[d]
  BY <1>1 DEF Inv, Gapless, InOrder
<1>3. p.upto \in Nat /\ p.upto <= Len(got[d]) /\ p.ack = Sq(p.upto)
  BY DEF Inv, Wires, PacketTo, IsPacket
<1>4. ASSUME NEW i \in Acked(buffer[e], p.ack) PROVE i <= Len(got[d]) - old
  <2>1. i \in 1 .. Len(buffer[e]) /\ i \in 1 .. i /\ IsSeqInBackroom(buffer[e][i].seq, p.ack)
    BY <1>1 DEF Acked
  <2>2. /\ buffer[e][i].id[2] = old + i /\ buffer[e][i].id[2] \in Nat
        /\ buffer[e][i].seq = Sq(buffer[e][i].id[2])
    BY <1>1, <1>2, <2>1 DEF Chunks
  <2> HIDE DEF d
  <2>3. p.upto + Half > buffer[e][i].id[2]
    BY <1>1, <2>1 DEF Fresh, Half
  <2>4. old \in Int /\ i \in Nat /\ Half \in Nat /\ Len(buffer[e]) < Half
    BY <1>1, <2>1, SpaceFacts
  <2>5. buffer[e][i].id[2] - p.upto < Half
    <3>1. \A x, u, h \in Nat : u + h > x => x - u < h
      OBVIOUS
    <3> QED BY <1>3, <2>2, <2>3, <2>4, <3>1, Zenon
  <2>6. p.upto - (old + i) < Half
    <3>1. queued[d] - Len(buffer[e]) = old
      OBVIOUS
    <3>2. \A u, g, q, l, h \in Nat : u <= g /\ g <= q /\ l < h /\ i >= 1 => u - (q - l + i) < h
      BY <2>4
    <3>3. i >= 1
      BY <2>1
    <3> QED BY <1>1, <1>2, <1>3, <2>4, <3>1, <3>2, <3>3, Zenon
  <2>7. IsSeqInBackroom(Sq(buffer[e][i].id[2]), Sq(p.upto))
    BY <1>3, <2>1, <2>2
  <2>8. buffer[e][i].id[2] <= p.upto
    BY <1>3, <2>2, <2>5, <2>6, <2>7, BackroomIsThePast
  <2> HIDE DEF old
  <2> QED BY <1>1, <1>3, <2>2, <2>4, <2>8
<1>5. Len(got[d]) - old \in Nat /\ old \in Int
  BY <1>1, <1>2
<1> HIDE DEF old
<1>6. /\ Cardinality(Acked(buffer[e], p.ack)) <= Len(got[d]) - old
      /\ Cardinality(Acked(buffer[e], p.ack)) \in Nat
  BY <1>1, <1>4, <1>5, AckedSize
<1>7. old + Cardinality(Acked(buffer[e], p.ack)) <= Len(got[d])
  BY <1>1, <1>5, <1>6
<1> QED BY <1>7 DEF old

LEMMA FeedKeeps == ASSUME Inv, NEW e \in Ends, NEW p \in wire[In(e)], Feed(e, p) PROVE Inv'
<1> DEFINE d == Peer(e)
           all == IF p.resend THEN construct[e].chunks \o buffer[e] ELSE construct[e].chunks
           S == Chunks(d)
           rest == AckChunks(buffer[e], p.ack)
           k == Cardinality(Acked(buffer[e], p.ack))
<1>1. /\ Scalars /\ Stores /\ Wires /\ Numbers /\ Gapless /\ InOrder /\ NotTooOld
      /\ d \in Ends /\ p \in wire[e] /\ S \in SUBSET Chunk
  BY PeerFacts, ChunksAreChunks DEF Inv, Scalars
<1>2. /\ IsPacket(p) /\ p.chunks \in Seq(Chunks(e)) /\ p.chunks \in Seq(Chunk)
      /\ Len(p.chunks) <= PacketChunks /\ p.ack \in Seqs
  BY <1>1 DEF Wires, PacketTo, IsPacket
<1>3. /\ state[e] = "online" /\ Fresh(e, p) /\ peerAck' = [peerAck EXCEPT ![e] = p.ack]
      /\ construct' = [construct EXCEPT ![e] = Waiting(e, all)] /\ Send(e, Flushed(e, all))
      /\ UNCHANGED <<line, sequence, ack, history>>
      /\ \/ state' = [state EXCEPT ![e] = "closed"] /\ UNCHANGED <<buffer, unpacker>>
         \/ /\ buffer' = [buffer EXCEPT ![e] = rest]
            /\ unpacker' = [unpacker EXCEPT ![e] = p.chunks] /\ UNCHANGED state
  BY DEF Feed
<1>4. \A b : Chunks(b)' = Chunks(b)
  BY <1>3 DEF Chunks, history
<1>5. all \in Seq(S) /\ construct[e].chunks \in Seq(S) /\ buffer[e] \in Seq(S)
  BY <1>1 DEF Stores
<1>6. /\ Waiting(e, all) \in Constructs /\ Waiting(e, all).chunks \in Seq(S)
      /\ \A q \in Flushed(e, all) :
           /\ IsPacket(q) /\ q.chunks \in Seq(S)
           /\ q.upto <= Len(got[e]) /\ q.ack = Sq(q.upto)
  <2> HIDE DEF S, all
  <2> QED BY <1>1, <1>3, <1>5, FlushedAreSent
<1>7. /\ k \in 0 .. Len(buffer[e]) /\ rest \in Seq(S) /\ Len(rest) = Len(buffer[e]) - k
      /\ \A i \in 1 .. Len(buffer[e]) - k : rest[i] = buffer[e][k + i]
  <2> DEFINE chunks == buffer[e]
             a == p.ack
  <2>1. chunks \in Seq(S) /\ k = Cardinality(Acked(chunks, a)) /\ rest = AckChunks(chunks, a)
    BY <1>5
  <2> HIDE DEF S, k, rest, chunks, a
  <2>2. /\ k \in 0 .. Len(chunks) /\ rest \in Seq(S) /\ Len(rest) = Len(chunks) - k
        /\ \A i \in 1 .. Len(chunks) - k : rest[i] = chunks[k + i]
    BY <2>1, AckRest
  <2> QED BY <2>2 DEF chunks
<1>8. \A b \in Ends : /\ state'[b] # "offline" => state[b] # "offline"
                      /\ \/ buffer'[b] = buffer[b]
                         \/ b = e /\ buffer'[b] = rest
                      /\ \/ unpacker'[b] = unpacker[b]
                         \/ b = e /\ unpacker'[b] = p.chunks
  BY <1>1, <1>3 DEF Scalars, Stores
<1>9. Scalars'
  <2>1. state' \in [Ends -> {"online", "error", "closed", "offline"}]
    BY <1>1, <1>3 DEF Scalars
  <2>2. peerAck' \in [Ends -> Seqs]
    BY <1>1, <1>2, <1>3 DEF Scalars
  <2> QED BY <1>1, <1>3, <2>1, <2>2 DEF Scalars, Wired, history
<1>10. Stores'
  <2>1. construct' \in [Ends -> Constructs]
    BY <1>1, <1>3, <1>6 DEF Stores
  <2>2. \A b \in Ends : construct'[b].chunks \in Seq(Chunks(Peer(b)))
    BY <1>1, <1>3, <1>6 DEF Stores
  <2> HIDE DEF S, rest, k
  <2>3. ASSUME NEW b \in Ends PROVE buffer'[b] \in Seq(Chunks(Peer(b))) /\ Len(buffer'[b]) <= Capacity
    <3>1. buffer[b] \in Seq(Chunks(Peer(b))) /\ Len(buffer[b]) <= Capacity /\ Len(buffer[b]) \in Nat
      BY <1>1 DEF Stores
    <3>2. CASE buffer'[b] = buffer[b]
      BY <3>1, <3>2
    <3>3. CASE b = e /\ buffer'[b] = rest
      <4>1. Len(rest) <= Capacity
        BY <1>7, <3>1, <3>3, SpaceFacts
      <4> QED BY <1>7, <3>3, <4>1 DEF S
    <3> QED BY <1>8, <3>2, <3>3
  <2>4. \A b \in Ends : unpacker'[b] \in Seq(Chunks(b)) /\ Len(unpacker'[b]) <= PacketChunks
    BY <1>1, <1>2, <1>8 DEF Stores
  <2>5. buffer' \in [Ends -> Seq(Chunk)] /\ unpacker' \in [Ends -> Seq(Chunk)]
    <3>1. rest \in Seq(Chunk)
      BY <1>1, <1>7, SeqOfMore
    <3> QED BY <1>1, <1>2, <1>3, <3>1 DEF Stores
  <2> QED BY <1>4, <2>1, <2>2, <2>3, <2>4, <2>5 DEF Stores
<1>11. Wires'
  <2> DEFINE sent == Flushed(e, all)
  <2>1. Send(e, sent) /\ UNCHANGED history /\ \A q \in sent :
            /\ IsPacket(q) /\ q.chunks \in Seq(Chunks(Peer(e)))
            /\ q.upto <= Len(got[e]) /\ q.ack = Sq(q.upto)
    BY <1>3, <1>6
  <2> HIDE DEF sent
  <2> QED BY <2>1, SendStep
<1>12. Numbers'
  BY <1>1, <1>3, <1>8 DEF Numbers, history
<1>13. Gapless'
  <2>1. ASSUME NEW b \in Ends, state'[b] # "offline", Peer(b) \notin spilled'
        PROVE  /\ \A i \in 1 .. Len(buffer'[b]) :
                    buffer'[b][i].id[2] = queued'[Peer(b)] - Len(buffer'[b]) + i
               /\ queued'[Peer(b)] - Len(buffer'[b]) <= Len(got'[Peer(b)])
    <3>1. /\ \A i \in 1 .. Len(buffer[b]) : buffer[b][i].id[2] = queued[Peer(b)] - Len(buffer[b]) + i
          /\ queued[Peer(b)] - Len(buffer[b]) <= Len(got[Peer(b)])
      BY <1>1, <1>3, <1>8, <2>1 DEF Gapless, history
    <3>2. queued' = queued /\ got' = got
      BY <1>3 DEF history
    <3>3. CASE buffer'[b] = buffer[b]
      BY <3>1, <3>2, <3>3
    <3>4. CASE b = e /\ buffer'[b] = rest
      <4>1. queued[d] - Len(buffer[e]) + k <= Len(got[d])
        BY <1>1, <1>3, <2>1, <3>4, OnlyTakenIsPopped DEF history
      <4>2. Len(buffer[e]) \in Nat /\ queued[d] \in Nat /\ Len(got[d]) \in Nat
        BY <1>1, <1>5 DEF Scalars
      <4>3. \A i \in 1 .. Len(buffer[e]) : buffer[e][i].id[2] = queued[d] - Len(buffer[e]) + i
        BY <3>1, <3>4
      <4> HIDE DEF d, k, rest, S
      <4>4. queued[d] - Len(rest) = queued[d] - Len(buffer[e]) + k
        BY <1>7, <4>2
      <4>5. ASSUME NEW i \in 1 .. Len(rest) PROVE rest[i].id[2] = queued[d] - Len(rest) + i
        <5>1. i \in 1 .. Len(buffer[e]) - k /\ k + i \in 1 .. Len(buffer[e])
          BY <1>7, <4>2
        <5>2. rest[i] = buffer[e][k + i]
          BY <1>7, <5>1
        <5>3. buffer[e][k + i].id[2] = queued[d] - Len(buffer[e]) + (k + i)
          BY <4>3, <5>1
        <5>4. queued[d] - Len(buffer[e]) + (k + i) = queued[d] - Len(rest) + i
          BY <1>7, <4>2, <5>1
        <5> QED BY <5>2, <5>3, <5>4
      <4>6. Peer(b) = d
        BY <3>4 DEF d
      <4> QED BY <3>2, <3>4, <4>1, <4>4, <4>5, <4>6
    <3> QED BY <1>8, <2>1, <3>3, <3>4
  <2> QED BY <2>1 DEF Gapless
<1>14. InOrder'
  BY <1>1, <1>3 DEF InOrder, history
<1>15. NotTooOld'
  <2>1. got' = got
    BY <1>3 DEF history
  <2>2. ASSUME NEW i \in 1 .. Len(p.chunks)
        PROVE  p.chunks[i].id[2] + Half + (PacketChunks - Len(p.chunks)) > Len(got[e])
    <3>1. p.chunks[i].id[2] + Half > Len(got[e])
      BY <1>2, <1>3 DEF Fresh, Half
    <3>2. Len(p.chunks) \in Nat /\ PacketChunks - Len(p.chunks) >= 0 /\ PacketChunks \in Nat
      BY <1>2, SpaceFacts
    <3>3. p.chunks[i] \in Chunk /\ Len(got[e]) \in Nat
      BY <1>1, <1>2 DEF Scalars
    <3>4. p.chunks[i].id[2] \in Nat
      BY <3>3 DEF Chunk
    <3>5. \A x, h, c, g \in Nat : \A l \in 0 .. c : x + h > g => x + h + (c - l) > g
      OBVIOUS
    <3>6. Half \in Nat /\ Len(p.chunks) \in 0 .. PacketChunks
      BY <3>2, SpaceFacts
    <3> QED BY <3>1, <3>2, <3>3, <3>4, <3>5, <3>6, Zenon
  <2> QED BY <1>1, <1>8, <2>1, <2>2 DEF NotTooOld
<1> QED BY <1>9, <1>10, <1>11, <1>12, <1>13, <1>14, <1>15 DEF Inv

LEMMA FetchChunkKeeps == ASSUME Inv, NEW e \in Ends, FetchChunk(e) PROVE Inv'
<1> DEFINE chunk == Head(unpacker[e])
           n == Len(got[e])
           taken == IF state[e] = "offline" THEN got[e] ELSE Append(got[e], chunk.id)
<1>1. /\ Scalars /\ Stores /\ Wires /\ Numbers /\ Gapless /\ InOrder /\ NotTooOld
      /\ unpacker[e] \in Seq(Chunks(e)) /\ Len(unpacker[e]) <= PacketChunks
      /\ got[e] \in Seq(Ends \X Nat) /\ n \in Nat /\ queued[e] \in Nat
  BY DEF Inv, Scalars, Stores
<1>2. /\ unpacker[e] # <<>> /\ unpacker' = [unpacker EXCEPT ![e] = Tail(@)]
      /\ UNCHANGED <<line, state, sequence, peerAck, buffer, wire, queued, spilled>>
      /\ \/ /\ InSequence(e, chunk.seq)
            /\ ack' = [ack EXCEPT ![e] = chunk.seq]
            /\ got' = [got EXCEPT ![e] = taken] /\ construct' = construct
         \/ /\ \E resend \in BOOLEAN : construct' = [construct EXCEPT ![e].resend = resend]
            /\ ack' = ack /\ got' = got
  <2>1. construct[e] \in Constructs
    BY <1>1 DEF Stores
  <2>2. construct[e].resend \in BOOLEAN
    BY <2>1 DEF Constructs
  <2> HIDE DEF Constructs
  <2>3. CASE InSequence(e, chunk.seq)
    BY <2>3 DEF FetchChunk
  <2>4. CASE ~InSequence(e, chunk.seq)
    <3> DEFINE resend == construct[e].resend \/ ~IsSeqInBackroom(chunk.seq, ack[e])
    <3>1. resend \in BOOLEAN
      BY <2>2, Zenon
    <3>2. construct' = [construct EXCEPT ![e].resend = resend] /\ ack' = ack /\ got' = got
      BY <2>4 DEF FetchChunk
    <3>3. unpacker[e] # <<>> /\ unpacker' = [unpacker EXCEPT ![e] = Tail(@)]
          /\ UNCHANGED <<line, state, sequence, peerAck, buffer, wire, queued, spilled>>
      BY DEF FetchChunk
    <3> HIDE DEF resend
    <3> QED BY <3>1, <3>2, <3>3
  <2> QED BY <2>3, <2>4
<1>3. /\ chunk \in Chunks(e) /\ chunk = unpacker[e][1] /\ 1 \in 1 .. Len(unpacker[e])
      /\ Tail(unpacker[e]) \in Seq(Chunks(e)) /\ Len(unpacker[e]) \in Nat
      /\ Len(Tail(unpacker[e])) = Len(unpacker[e]) - 1
      /\ \A i \in 1 .. Len(unpacker[e]) - 1 : Tail(unpacker[e])[i] = unpacker[e][i + 1]
  BY <1>1, <1>2
<1>4. /\ chunk \in Chunk /\ chunk.seq \in Seqs /\ chunk.id \in Ends \X Nat /\ chunk.id[1] = e
      /\ chunk.id[2] \in 1 .. queued[e] /\ chunk.seq = Sq(chunk.id[2])
  BY <1>3 DEF Chunks, Chunk
<1>5. \A b : Chunks(b)' = Chunks(b)
  BY <1>2 DEF Chunks
<1> HIDE DEF chunk
<1>6. /\ taken \in Seq(Ends \X Nat) /\ Len(taken) \in n .. n + 1
      /\ state[e] # "offline" => Len(taken) = n + 1 /\ taken[n + 1] = chunk.id
      /\ \A k \in 1 .. n : taken[k] = got[e][k]
  <2>1. CASE state[e] = "offline"
    BY <1>1, <2>1
  <2>2. CASE state[e] # "offline"
    <3>1. taken = Append(got[e], chunk.id)
      BY <2>2
    <3> HIDE DEF taken
    <3> QED BY <1>1, <1>4, <2>2, <3>1
  <2> QED BY <2>1, <2>2
<1>7. \A b \in Ends : got'[b] = got[b] \/ (b = e /\ got'[b] = taken /\ InSequence(e, chunk.seq))
  <2> HIDE DEF taken
  <2>1. \/ InSequence(e, chunk.seq) /\ got' = [got EXCEPT ![e] = taken]
        \/ got' = got
    BY <1>2
  <2>2. DOMAIN got = Ends
    BY <1>1 DEF Scalars
  <2>3. CASE got' = got
    BY <2>3
  <2>4. CASE InSequence(e, chunk.seq) /\ got' = [got EXCEPT ![e] = taken]
    <3>1. ASSUME NEW b \in Ends PROVE got'[b] = got[b] \/ (b = e /\ got'[b] = taken)
      <4>1. CASE b = e
        BY <2>2, <2>4, <4>1
      <4>2. CASE b # e
        BY <2>2, <2>4, <4>2
      <4> QED BY <4>1, <4>2
    <3> QED BY <2>4, <3>1
  <2> QED BY <2>1, <2>3, <2>4
<1> HIDE DEF taken
<1>8. \A b \in Ends : Len(got'[b]) \in Nat /\ Len(got'[b]) \in Len(got[b]) .. Len(got[b]) + 1
  <2>1. \A b \in Ends : Len(got[b]) \in Nat
    BY <1>1 DEF Scalars
  <2>2. Len(taken) \in Nat
    BY <1>6
  <2>3. ASSUME NEW b \in Ends, got'[b] = got[b]
        PROVE  Len(got'[b]) \in Nat /\ Len(got'[b]) \in Len(got[b]) .. Len(got[b]) + 1
    BY <2>1, <2>3
  <2>4. ASSUME NEW b \in Ends, b = e, got'[b] = taken
        PROVE  Len(got'[b]) \in Nat /\ Len(got'[b]) \in Len(got[b]) .. Len(got[b]) + 1
    BY <1>6, <2>2, <2>4
  <2> QED BY <1>7, <2>3, <2>4
<1>9. Scalars'
  <2>1. ack' \in [Ends -> Seqs]
    BY <1>1, <1>2, <1>4 DEF Scalars
  <2>2. got' \in [Ends -> Seq(Ends \X Nat)]
    BY <1>1, <1>2, <1>6 DEF Scalars
  <2> QED BY <1>1, <1>2, <2>1, <2>2 DEF Scalars, Wired
<1>10. Stores'
  <2>1. construct' \in [Ends -> Constructs] /\ \A b \in Ends : construct'[b].chunks = construct[b].chunks
    <3>1. CASE construct' = construct
      BY <1>1, <3>1 DEF Stores
    <3>2. ASSUME NEW resend \in BOOLEAN, construct' = [construct EXCEPT ![e].resend = resend]
          PROVE  /\ construct' \in [Ends -> Constructs]
                 /\ \A b \in Ends : construct'[b].chunks = construct[b].chunks
      <4>1. construct \in [Ends -> Constructs]
        BY <1>1 DEF Stores
      <4>2. construct[e] \in Constructs
        BY <4>1
      <4>3. [construct[e] EXCEPT !.resend = resend] \in Constructs
        BY <4>2 DEF Constructs
      <4>4. [construct[e] EXCEPT !.resend = resend].chunks = construct[e].chunks
        BY <4>2 DEF Constructs
      <4>5. construct' = [construct EXCEPT ![e] = [construct[e] EXCEPT !.resend = resend]]
        BY <3>2
      <4> QED BY <4>1, <4>3, <4>4, <4>5
    <3> QED BY <1>2, <3>1, <3>2
  <2>2. unpacker' \in [Ends -> Seq(Chunk)] /\ Tail(unpacker[e]) \in Seq(Chunk)
    <3>1. Tail(unpacker[e]) \in Seq(Chunk)
      BY <1>3, SeqOfMore, ChunksAreChunks
    <3> QED BY <1>1, <1>2, <3>1 DEF Stores
  <2>3. \A b \in Ends : unpacker'[b] \in Seq(Chunks(b)) /\ Len(unpacker'[b]) <= PacketChunks
    <3>1. Len(Tail(unpacker[e])) <= PacketChunks
      BY <1>1, <1>3, SpaceFacts
    <3> QED BY <1>1, <1>2, <1>3, <3>1 DEF Stores
  <2> QED BY <1>1, <1>2, <1>5, <2>1, <2>2, <2>3 DEF Stores
<1>11. Wires'
  <2>1. \A b \in Ends : Peer(b) \in Ends
    BY PeerFacts
  <2>2. ASSUME NEW b \in Ends, NEW p \in wire[b] PROVE PacketTo(b, p)'
    <3>1. PacketTo(b, p) /\ p.upto \in Nat
      BY <1>1 DEF Wires, PacketTo, IsPacket
    <3>2. Len(got[Peer(b)]) \in Nat /\ Len(got[Peer(b)]) <= Len(got'[Peer(b)]) /\ Len(got'[Peer(b)]) \in Nat
      BY <1>1, <1>8, <2>1 DEF Scalars
    <3>3. p.upto <= Len(got'[Peer(b)])
      BY <3>1, <3>2 DEF PacketTo
    <3> QED BY <1>5, <3>1, <3>3 DEF PacketTo
  <2> QED BY <1>1, <1>2, <2>2 DEF Wires
<1>12. Numbers'
  <2>1. ASSUME state[e] # "offline", InSequence(e, chunk.seq) PROVE chunk.seq = Sq(n + 1)
    BY <1>1, <2>1, NextSq DEF Numbers, InSequence
  <2>2. ASSUME NEW b \in Ends, state[b] # "offline" PROVE ack'[b] = Sq(Len(got'[b]))
    <3>1. ack[b] = Sq(Len(got[b]))
      BY <1>1, <2>2 DEF Numbers
    <3>2. CASE b = e /\ InSequence(e, chunk.seq) /\ ack'[b] = chunk.seq /\ got'[b] = taken
      BY <1>1, <1>6, <2>1, <2>2, <3>2
    <3>3. CASE ack'[b] = ack[b] /\ got'[b] = got[b]
      BY <3>1, <3>3
    <3>4. \/ b = e /\ InSequence(e, chunk.seq) /\ ack'[b] = chunk.seq /\ got'[b] = taken
          \/ ack'[b] = ack[b] /\ got'[b] = got[b]
      BY <1>1, <1>2 DEF Scalars
    <3> QED BY <3>2, <3>3, <3>4
  <2> QED BY <1>1, <1>2, <2>2 DEF Numbers
<1>13. Gapless'
  <2>1. \A b \in Ends : Peer(b) \in Ends /\ Len(got[Peer(b)]) \in Nat /\ queued[Peer(b)] \in Nat
                      /\ Len(buffer[b]) \in Nat
    BY <1>1, PeerFacts DEF Scalars, Stores
  <2>2. ASSUME NEW b \in Ends, queued[Peer(b)] - Len(buffer[b]) <= Len(got[Peer(b)])
        PROVE  queued[Peer(b)] - Len(buffer[b]) <= Len(got'[Peer(b)])
    BY <1>8, <2>1, <2>2
  <2> QED BY <1>1, <1>2, <2>2 DEF Gapless
<1>14. ASSUME e \notin spilled, state[e] # "offline", InSequence(e, chunk.seq)
       PROVE  chunk.id = <<e, n + 1>>
  <2>1. Sq(chunk.id[2]) = Sq(n + 1)
    BY <1>1, <1>4, <1>14, NextSq DEF Numbers, InSequence
  <2>2. chunk.id[2] \in Nat /\ chunk.id[2] <= queued[e]
    BY <1>1, <1>4
  <2>3. queued[e] <= n + Capacity
    BY <1>1, <1>14 DEF InOrder
  <2>4. chunk.id[2] + Half + (PacketChunks - Len(unpacker[e])) > n
    BY <1>1, <1>3 DEF NotTooOld
  <2>5. chunk.id[2] - (n + 1) < Modulus
    BY <1>1, <2>2, <2>3, SpaceFacts
  <2>6. (n + 1) - chunk.id[2] < Modulus
    <3>1. \A x, h, k, m \in Nat : \A l \in 1 .. k : x + h + (k - l) > m /\ k <= h => (m + 1) - x < 2 * h
      OBVIOUS
    <3>2. Len(unpacker[e]) \in 1 .. PacketChunks
      BY <1>1, <1>3, SpaceFacts
    <3>3. (n + 1) - chunk.id[2] < 2 * Half
      BY <1>1, <2>2, <2>4, <3>1, <3>2, SpaceFacts, Zenon
    <3> QED BY <3>3, SpaceFacts
  <2>7. chunk.id[2] = n + 1
    BY <1>1, <2>1, <2>2, <2>5, <2>6, SameSq
  <2> QED BY <1>4, <2>7
<1>15. InOrder'
  <2>1. ASSUME NEW b \in Ends, b \notin spilled, got'[b] = got[b]
        PROVE  /\ \A k \in 1 .. Len(got'[b]) : got'[b][k] = <<b, k>>
               /\ Len(got'[b]) <= queued[b] /\ queued[b] <= Len(got'[b]) + Capacity
    BY <1>1, <2>1 DEF InOrder
  <2>2. ASSUME e \notin spilled, got'[e] = taken, InSequence(e, chunk.seq), state[e] # "offline"
        PROVE  /\ \A k \in 1 .. Len(got'[e]) : got'[e][k] = <<e, k>>
               /\ Len(got'[e]) <= queued[e] /\ queued[e] <= Len(got'[e]) + Capacity
    <3>1. chunk.id = <<e, n + 1>> /\ n + 1 \in 1 .. queued[e]
      BY <1>4, <1>14, <2>2
    <3>2. /\ \A k \in 1 .. n : got[e][k] = <<e, k>>
          /\ n <= queued[e] /\ queued[e] <= n + Capacity
      BY <1>1, <2>2 DEF InOrder
    <3>3. Len(taken) = n + 1 /\ taken[n + 1] = <<e, n + 1>> /\ \A k \in 1 .. n : taken[k] = got[e][k]
      BY <1>6, <2>2, <3>1
    <3>4. ASSUME NEW k \in 1 .. n + 1 PROVE taken[k] = <<e, k>>
      <4>1. CASE k = n + 1
        BY <3>3, <4>1
      <4>2. CASE k # n + 1
        <5>1. k \in 1 .. n
          BY <1>1, <4>2
        <5> QED BY <3>2, <3>3, <5>1
      <4> QED BY <4>1, <4>2
    <3>5. n + 1 <= queued[e] /\ queued[e] <= n + 1 + Capacity
      BY <1>1, <3>1, <3>2, SpaceFacts
    <3> QED BY <2>2, <3>3, <3>4, <3>5
  <2>3. state[e] = "offline" => taken = got[e]
    BY DEF taken
  <2>4. \A b \in Ends : \/ got'[b] = got[b]
                      \/ /\ b = e /\ got'[e] = taken /\ InSequence(e, chunk.seq)
                         /\ state[e] # "offline"
    BY <1>7, <2>3
  <2> QED BY <1>2, <2>1, <2>2, <2>4 DEF InOrder
<1>16. NotTooOld'
  <2>1. ASSUME NEW i \in 1 .. Len(Tail(unpacker[e]))
        PROVE  Tail(unpacker[e])[i].id[2] + Half + (PacketChunks - Len(Tail(unpacker[e]))) > Len(got'[e])
    <3>1. i \in 1 .. Len(unpacker[e]) - 1 /\ i + 1 \in 1 .. Len(unpacker[e])
      BY <1>3
    <3>2. unpacker[e][i + 1].id[2] + Half + (PacketChunks - Len(unpacker[e])) > n
      BY <1>1, <3>1 DEF NotTooOld
    <3>3. unpacker[e][i + 1] \in Chunk /\ Tail(unpacker[e])[i] = unpacker[e][i + 1]
      BY <1>1, <1>3, <3>1 DEF Stores
    <3>4. unpacker[e][i + 1].id[2] \in Nat
      BY <3>3 DEF Chunk
    <3>5. Len(got'[e]) \in Nat /\ Len(got'[e]) <= n + 1
      BY <1>1, <1>8
    <3>6. \A x, h, k, m, g \in Nat : \A l \in 1 .. k :
            x + h + (k - l) > m /\ g <= m + 1 => x + h + (k - (l - 1)) > g
      OBVIOUS
    <3>7. Len(unpacker[e]) \in 1 .. PacketChunks /\ Half \in Nat /\ PacketChunks \in Nat
      BY <1>1, <1>3, SpaceFacts
    <3>8. unpacker[e][i + 1].id[2] + Half + (PacketChunks - (Len(unpacker[e]) - 1)) > Len(got'[e])
      BY <1>1, <3>2, <3>4, <3>5, <3>6, <3>7, Zenon
    <3> QED BY <1>3, <3>3, <3>8
  <2>2. unpacker'[e] = Tail(unpacker[e]) /\ \A b \in Ends : b # e => unpacker'[b] = unpacker[b] /\ got'[b] = got[b]
    BY <1>1, <1>2 DEF Stores, Scalars
  <2> QED BY <1>1, <2>1, <2>2 DEF NotTooOld
<1> QED BY <1>9, <1>10, <1>11, <1>12, <1>13, <1>15, <1>16 DEF Inv

----------------------------------------------------------------------------
LEMMA InvNext == Inv /\ [Next]_vars => Inv'
<1> SUFFICES ASSUME Inv, [Next]_vars PROVE Inv'
  OBVIOUS
<1>1. CASE UNCHANGED vars
  <2>1. \A d : Chunks(d)' = Chunks(d)
    BY <1>1 DEF Chunks, vars, history
  <2>2. \A d, p : PacketTo(d, p)' <=> PacketTo(d, p)
    BY <1>1, <2>1 DEF PacketTo, vars, history
  <2>3. Scalars' /\ Numbers' /\ Gapless' /\ InOrder' /\ NotTooOld'
    BY <1>1 DEF Inv, vars, window, stores, history, Scalars, Wired, Numbers, Gapless, InOrder, NotTooOld
  <2>4. Stores' /\ Wires'
    BY <1>1, <2>1, <2>2 DEF Inv, vars, window, stores, history, Stores, Wires
  <2> QED BY <2>3, <2>4 DEF Inv
<1>2. ASSUME NEW e \in Ends, Application(e) PROVE Inv'
  BY <1>2, QueueChunkKeeps, FlushKeeps, DisconnectKeeps, FetchChunkKeeps DEF Application
<1>3. ASSUME NEW e \in Ends, Timers(e) PROVE Inv'
  BY <1>3, TimeOutKeeps, UpdateKeeps DEF Timers
<1>4. ASSUME NEW e \in Ends, Recv(e) PROVE Inv'
  BY <1>4, FeedKeeps DEF Recv
<1> QED BY <1>1, <1>2, <1>3, <1>4 DEF Next

LEMMA AlwaysInv == Spec => []Inv
BY InvInit, InvNext, PTL DEF Spec

(* Every variable has its type: the sequence numbers never leave their space, *)
(* the resend buffer never exceeds its capacity, and QueueChunkEx never lets  *)
(* a packet grow past what fits.                                              *)
THEOREM TypeCorrect == Spec => []TypeOK
BY AlwaysInv, InvIsTyped, PTL

(* A vital chunk stays in m_Buffer until the other end has taken it, whatever *)
(* becomes of the acknowledgements: AckChunks and Feed's range check never    *)
(* take an old number for a new one.                                          *)
THEOREM TakenBeforePopped == Spec => []KeptUntilTaken
<1>1. Inv => KeptUntilTaken
  <2> SUFFICES ASSUME Inv, NEW e \in Ends, state[e] = "online", Out(e) \notin spilled,
                      NEW n \in Len(got[Peer(e)]) + 1 .. queued[Out(e)]
               PROVE  \E i \in DOMAIN buffer[e] : buffer[e][i].id = <<Out(e), n>>
    BY DEF KeptUntilTaken
  <2> DEFINE d == Peer(e)
             i == n - (queued[d] - Len(buffer[e]))
  <2>1. /\ Out(e) = d /\ d \in Ends /\ queued[d] \in Nat /\ Len(got[d]) \in Nat
        /\ buffer[e] \in Seq(Chunks(d)) /\ Len(buffer[e]) \in Nat
    BY PeerFacts DEF Inv, Scalars, Stores
  <2>2. /\ \A j \in 1 .. Len(buffer[e]) : buffer[e][j].id[2] = queued[d] - Len(buffer[e]) + j
        /\ queued[d] - Len(buffer[e]) <= Len(got[d])
    BY <2>1 DEF Inv, Gapless
  <2>3. i \in 1 .. Len(buffer[e]) /\ queued[d] - Len(buffer[e]) + i = n
    BY <2>1, <2>2
  <2>4. buffer[e][i].id[2] = n /\ buffer[e][i] \in Chunks(d)
    BY <2>1, <2>2, <2>3
  <2>5. buffer[e][i].id \in Ends \X Nat /\ buffer[e][i].id[1] = d
    BY <2>4 DEF Chunks, Chunk
  <2>6. \A t \in Ends \X Nat : t = <<t[1], t[2]>>
    OBVIOUS
  <2>7. buffer[e][i].id = <<d, n>>
    BY <2>4, <2>5, <2>6, Zenon
  <2>8. i \in DOMAIN buffer[e]
    BY <2>1, <2>3
  <2> HIDE DEF d, i
  <2> QED BY <2>1, <2>7, <2>8
<1> QED BY <1>1, AlwaysInv, PTL

----------------------------------------------------------------------------
(* A connection does nothing its channels do not allow.                       *)
Taken == [e \in Ends |-> [k \in DOMAIN got[e] |-> got[e][k][2]]]

LEMMA TakenIsTyped ==
  ASSUME Inv, NEW e \in Ends
  PROVE  /\ Taken[e] = [k \in 1 .. Len(got[e]) |-> got[e][k][2]]
         /\ Taken[e] \in Seq(Nat) /\ Len(Taken[e]) = Len(got[e]) /\ Len(got[e]) \in Nat
<1>1. got[e] \in Seq(Ends \X Nat)
  BY DEF Inv, Scalars
<1>2. Taken[e] = [k \in 1 .. Len(got[e]) |-> got[e][k][2]]
  BY <1>1 DEF Taken
<1>3. \A k \in 1 .. Len(got[e]) : got[e][k][2] \in Nat
  BY <1>1
<1>4. Len(got[e]) \in Nat
  BY <1>1
<1> HIDE DEF Taken
<1> QED BY <1>2, <1>3, <1>4

LEMMA QueueIsQueue == ASSUME Inv, NEW e \in Ends, QueueChunk(e) PROVE Stream!Next
<1>1. Out(e) \in Ends
  BY PeerFacts DEF Inv, Scalars
<1>2. /\ queued' = [queued EXCEPT ![Out(e)] = @ + 1] /\ got' = got /\ state' = state
      /\ spilled' \in {spilled, spilled \cup {Out(e)}}
  BY DEF QueueChunk
<1>3. Up' = Up
  BY <1>2 DEF Up
<1>4. Stream!Queue(Out(e))
  BY <1>2, <1>3 DEF Stream!Queue
<1> QED BY <1>1, <1>4 DEF Stream!Next

(* The end that takes a chunk is given the next of its direction, or, once    *)
(* the sender's buffer has overflowed, some chunk of it.                      *)
LEMMA FetchIsDeliver ==
  ASSUME Inv, NEW e \in Ends, FetchChunk(e)
  PROVE  Stream!Next \/ UNCHANGED Stream!chan
<1> DEFINE chunk == Head(unpacker[e])
           n == Len(got[e])
<1>1. queued' = queued /\ spilled' = spilled /\ Up' = Up
  BY DEF FetchChunk, Up
<1>2. CASE got' = got
  BY <1>1, <1>2 DEF Stream!chan
<1>3. CASE got' # got
  <2>1. got \in [Ends -> Seq(Ends \X Nat)]
    BY DEF Inv, Scalars
  <2>2. got' = [got EXCEPT ![e] = Append(got[e], chunk.id)]
    BY <1>3, <2>1 DEF FetchChunk
  <2>3. chunk \in Chunks(e)
    <3>1. unpacker[e] \in Seq(Chunks(e)) /\ unpacker[e] # <<>>
      BY DEF Inv, Stores, FetchChunk
    <3> QED BY <3>1
  <2>4. chunk.id \in Ends \X Nat /\ chunk.id[2] \in 1 .. queued[e]
    BY <2>3 DEF Chunks, Chunk
  <2> HIDE DEF chunk
  <2>5. Taken' = [Taken EXCEPT ![e] = Append(@, chunk.id[2])]
    <3>1. ASSUME NEW b \in Ends, b # e PROVE Taken'[b] = Taken[b]
      <4>1. got'[b] = got[b]
        BY <2>1, <2>2, <3>1
      <4> QED BY <4>1 DEF Taken
    <3>2. Taken'[e] = Append(Taken[e], chunk.id[2])
      <4>1. got[e] \in Seq(Ends \X Nat) /\ got'[e] = Append(got[e], chunk.id) /\ n \in Nat
        BY <2>1, <2>2
      <4>2. /\ DOMAIN got'[e] = 1 .. n + 1 /\ got'[e][n + 1] = chunk.id
            /\ \A k \in 1 .. n : got'[e][k] = got[e][k]
        BY <2>4, <4>1
      <4>3. Taken'[e] = [k \in 1 .. n + 1 |-> got'[e][k][2]]
        BY <4>2 DEF Taken
      <4>4. Taken[e] = [k \in 1 .. n |-> got[e][k][2]] /\ Taken[e] \in Seq(Nat) /\ Len(Taken[e]) = n
        BY TakenIsTyped
      <4>5. Append(Taken[e], chunk.id[2]) =
              [k \in 1 .. n + 1 |-> IF k = n + 1 THEN chunk.id[2] ELSE Taken[e][k]]
        BY <4>1, <4>4
      <4>6. \A k \in 1 .. n + 1 : got'[e][k][2] = IF k = n + 1 THEN chunk.id[2] ELSE Taken[e][k]
        <5>1. ASSUME NEW k \in 1 .. n + 1, k # n + 1 PROVE got'[e][k][2] = Taken[e][k]
          <6>1. k \in 1 .. n
            BY <4>1, <5>1
          <6> QED BY <4>2, <4>4, <6>1
        <5> QED BY <4>2, <5>1
      <4> HIDE DEF n
      <4> QED BY <4>3, <4>5, <4>6
    <3>3. DOMAIN Taken = Ends /\ Taken = [b \in Ends |-> Taken[b]] /\ Taken' = [b \in Ends |-> Taken'[b]]
      BY DEF Taken
    <3> HIDE DEF Taken
    <3> QED BY <3>1, <3>2, <3>3
  <2>6. Len(Taken[e]) = n /\ n \in Nat
    BY TakenIsTyped
  <2>7. CASE e \in spilled
    <3>1. Stream!Garble(e)
      BY <1>1, <2>4, <2>5, <2>7 DEF Stream!Garble, Taken
    <3> QED BY <3>1 DEF Stream!Next
  <2>8. CASE e \notin spilled
    <3>1. InOrder'
      BY FetchChunkKeeps DEF Inv
    <3>2. got'[e][n + 1] = chunk.id /\ Len(got'[e]) = n + 1
      <4>1. got[e] \in Seq(Ends \X Nat) /\ got'[e] = Append(got[e], chunk.id)
        BY <2>1, <2>2
      <4> QED BY <2>4, <4>1
    <3>3. /\ \A k \in 1 .. n + 1 : got'[e][k] = <<e, k>>
          /\ n + 1 <= queued[e]
      BY <1>1, <2>8, <3>1, <3>2 DEF InOrder
    <3>4. n + 1 \in 1 .. n + 1
      BY <2>6
    <3>5. chunk.id[2] = n + 1
      BY <3>2, <3>3, <3>4
    <3>6. n < queued[e]
      BY <2>6, <3>3 DEF Inv, Scalars
    <3>7. Stream!Deliver(e)
      BY <1>1, <2>5, <2>6, <2>8, <3>5, <3>6 DEF Stream!Deliver, Taken
    <3> QED BY <3>7 DEF Stream!Next
  <2> QED BY <2>7, <2>8
<1> QED BY <1>2, <1>3

(* Nothing else is seen of an end but that it goes.                           *)
LEMMA GoingIsBreak ==
  ASSUME Inv, UNCHANGED history, \A b \in Ends : state'[b] = "online" => state[b] = "online"
  PROVE  Stream!Next
<1>1. Up' \in SUBSET Up
  BY DEF Up
<1>2. queued' = queued /\ got' = got /\ spilled' = spilled
  BY DEF history
<1> QED BY <1>1, <1>2 DEF Stream!Next, Stream!Break

(* The safety half of ReliableStream: vital chunks are taken in order, none   *)
(* twice and none that was not queued, over a network that loses, repeats and *)
(* reorders the packets of CNetConnection.                                    *)
THEOREM StreamIsInOrder == Spec => Stream!Init /\ [][Stream!Next]_(Stream!chan)
<1>1. Init => Stream!Init
  <2> SUFFICES ASSUME Init PROVE Stream!Init
    OBVIOUS
  <2>1. Up = Ends
    BY DEF Init, Up
  <2>2. \A b \in Ends : got[b] = <<>> /\ DOMAIN got[b] = {}
    BY DEF Init
  <2>3. \A b \in Ends : [k \in DOMAIN got[b] |-> got[b][k][2]] = <<>>
    BY <2>2
  <2>4. [b \in Ends |-> [k \in DOMAIN got[b] |-> got[b][k][2]]] = [b \in Ends |-> <<>>]
    BY <2>3
  <2> QED BY <2>1, <2>4 DEF Init, Stream!Init
<1>2. Inv /\ [Next]_vars => [Stream!Next]_(Stream!chan)
  <2> SUFFICES ASSUME Inv, [Next]_vars PROVE Stream!Next \/ UNCHANGED Stream!chan
    OBVIOUS
  <2>1. CASE UNCHANGED vars
    BY <2>1 DEF vars, history, Stream!chan, Up
  <2>2. ASSUME NEW e \in Ends, QueueChunk(e) \/ FetchChunk(e)
        PROVE  Stream!Next \/ UNCHANGED Stream!chan
    BY <2>2, QueueIsQueue, FetchIsDeliver
  <2>3. ASSUME NEW e \in Ends,
               \/ Flush(e) \/ Disconnect(e) \/ TimeOut(e)
               \/ \E resendDue, sendDue \in BOOLEAN : Update(e, resendDue, sendDue)
               \/ \E p \in wire[In(e)] : Feed(e, p)
        PROVE  Stream!Next
    <3>1. UNCHANGED history
      BY <2>3 DEF Flush, Disconnect, TimeOut, Update, Feed
    <3>2. state' = state \/ \E w \in {"error", "closed", "offline"} : state' = [state EXCEPT ![e] = w]
      BY <2>3 DEF Flush, Disconnect, TimeOut, Update, Feed
    <3>3. \A b \in Ends : state'[b] = "online" => state[b] = "online"
      BY <3>2 DEF Inv, Scalars
    <3> QED BY <3>1, <3>3, GoingIsBreak
  <2> QED BY <2>1, <2>2, <2>3 DEF Next, Application, Timers, Recv
<1> QED BY <1>1, <1>2, AlwaysInv, PTL DEF Spec
=============================================================================
