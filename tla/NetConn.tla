------------------------------ MODULE NetConn ------------------------------
(***************************************************************************)
(* Reliable connections over UDP: CNetConnection (network_conn.cpp), the   *)
(* unpacker and the sequence arithmetic of network.cpp, at both ends of    *)
(* every line between a server and its clients.  The network loses,        *)
(* repeats and reorders packets.                                           *)
(*                                                                         *)
(* Only vital chunks are modelled: the others carry no sequence number and *)
(* are passed on as they come.  A chunk keeps, beside its sequence number, *)
(* the identity of what was queued, which the code cannot see.  Times are  *)
(* left out: a timer of Update may be due whenever Update runs.            *)
(***************************************************************************)
EXTENDS Integers, Sequences, FiniteSets

CONSTANTS
  Lines,         \* pairs of addresses, one for each connection of a client
  Modulus,       \* NET_MAX_SEQUENCE
  First,         \* the sequence number both sides have reached at first
  Capacity,      \* the most chunks m_Buffer can hold
  PacketChunks,  \* chunks that fit into m_Construct
  MaxVital,      \* bound: vital chunks each side queues on a line
  MaxWire        \* bound: packets under way to each side of a line

ASSUME LinesAssumption == IsFiniteSet(Lines)
ASSUME WindowAssumption ==
  /\ Modulus \in Nat /\ Capacity \in Nat \ {0}
  /\ Modulus % 2 = 0 /\ 2 * Capacity < Modulus
  /\ First \in 0 .. Modulus - 1
ASSUME PacketAssumption == PacketChunks \in 1 .. Modulus \div 2
ASSUME BoundAssumption ==
  /\ MaxVital \in [{"server", "client"} -> Nat]
  /\ MaxWire \in [{"server", "client"} -> Nat \ {0}]

VARIABLES
  line,       \* the line an end is on: the slot's m_PeerAddr
  state,      \* m_State: "online" | "error" | "offline"; "closed" is an error with m_RemoteClosed
  sequence,   \* m_Sequence
  ack,        \* m_Ack
  peerAck,    \* m_PeerAck
  buffer,     \* m_Buffer, the chunks to resend, oldest first
  construct,  \* m_Construct: its chunks, and whether NET_PACKETFLAG_RESEND is set
  unpacker,   \* the chunks CNetRecvUnpacker has yet to fetch
  wire,       \* the packets under way, by where they go
  queued,     \* how many vital chunks were queued for a destination
  got,        \* what an end's application was given
  spilled     \* destinations for which a chunk found m_Buffer full

window == <<sequence, ack, peerAck>>
stores == <<buffer, construct, unpacker>>
history == <<queued, got, spilled>>
vars == <<line, state, window, stores, wire, history>>

Sides == {"server", "client"}
Other(side) == CHOOSE s \in Sides : s # side
Ends == Sides \X Lines
(* Where an end's packets go and where it gets its own from. *)
Out(e) == <<Other(e[1]), line[e]>>
In(e) == <<e[1], line[e]>>

(* m_Sequence and the number expected next: both wrap. *)
NextUnwrapped(seq) == seq + 1  \* mutant: forgets that the numbers wrap
NextSeq(seq) == (seq + 1) % Modulus

(* CNetBase::IsSeqInBackroom. *)
BackroomWithoutWrap(seq, a) ==  \* mutant: forgets that the numbers wrap
  seq <= a /\ seq >= a - Modulus \div 2
IsSeqInBackroom(seq, a) ==
  LET bottom == a - Modulus \div 2
  IN IF bottom < 0
       THEN seq <= a \/ seq >= bottom + Modulus
       ELSE seq <= a /\ seq >= bottom

(* The acknowledgements Feed takes, from m_PeerAck to m_Sequence. *)
ValidAck(e, a) ==
  IF sequence[e] >= peerAck[e]
    THEN peerAck[e] <= a /\ a <= sequence[e]
    ELSE ~(sequence[e] < a /\ a < peerAck[e])

----------------------------------------------------------------------------
Packet(e, resend, chunks) ==
  [ack |-> ack[e], resend |-> resend, close |-> FALSE, chunks |-> chunks, upto |-> Len(got[e])]
Control(e, close) == [Packet(e, FALSE, <<>>) EXCEPT !.close = close]

(* A wire that is full loses an older packet for every new one. *)
Send(e, packets) ==
  \E kept \in SUBSET wire[Out(e)] :
    LET under == kept \cup packets
    IN /\ \/ kept = wire[Out(e)] /\ Cardinality(under) <= MaxWire[Out(e)[1]]
          \/ kept # wire[Out(e)] /\ Cardinality(under) = MaxWire[Out(e)[1]]
       /\ wire' = [wire EXCEPT ![Out(e)] = under]

(* QueueChunkEx flushes m_Construct whenever the next chunk does not fit;    *)
(* only the first packet of a row carries the resend flag.                   *)
Cuts(all) == {k \in 1 .. Len(all) - 1 : k % PacketChunks = 0}
LastCut(all) == ((Len(all) - 1) \div PacketChunks) * PacketChunks
Flushed(e, all) ==
  {Packet(e, construct[e].resend /\ k = PacketChunks, SubSeq(all, k - PacketChunks + 1, k)) :
     k \in Cuts(all)}
Waiting(e, all) ==
  IF Cuts(all) = {}
    THEN [construct[e] EXCEPT !.chunks = all]
    ELSE [chunks |-> SubSeq(all, LastCut(all) + 1, Len(all)), resend |-> FALSE]
Empty == [chunks |-> <<>>, resend |-> FALSE]

----------------------------------------------------------------------------
Init ==
  /\ line = [e \in Ends |-> e[2]]
  /\ state = [e \in Ends |-> "online"]
  /\ sequence = [e \in Ends |-> First]
  /\ ack = [e \in Ends |-> First]
  /\ peerAck = [e \in Ends |-> First]
  /\ buffer = [e \in Ends |-> <<>>]
  /\ construct = [e \in Ends |-> Empty]
  /\ unpacker = [e \in Ends |-> <<>>]
  /\ wire = [w \in Ends |-> {}]
  /\ queued = [w \in Ends |-> 0]
  /\ got = [e \in Ends |-> <<>>]
  /\ spilled = {}

(* QueueChunk with a vital chunk.  One that finds no room in the buffer,     *)
(* which holds bytes and not chunks, is sent all the same but never again.   *)
QueueChunk(e) ==
  /\ state[e] = "online" /\ queued[Out(e)] < MaxVital[e[1]]
  /\ sequence' = [sequence EXCEPT ![e] = NextSeq(@)]
  /\ queued' = [queued EXCEPT ![Out(e)] = @ + 1]
  /\ LET chunk == [seq |-> sequence'[e], id |-> <<Out(e), queued'[Out(e)]>>]
         all == Append(construct[e].chunks, chunk)
     IN /\ construct' = [construct EXCEPT ![e] = Waiting(e, all)]
        /\ Send(e, Flushed(e, all))
        /\ \/ /\ Len(buffer[e]) < Capacity
              /\ buffer' = [buffer EXCEPT ![e] = Append(@, chunk)]
              /\ UNCHANGED spilled
           \/ /\ buffer[e] # <<>>
              /\ spilled' = spilled \cup {Out(e)}
              /\ UNCHANGED buffer
  /\ UNCHANGED <<line, state, ack, peerAck, unpacker, got>>

(* Flush of what m_Construct would hold after all its chunks were queued. *)
FlushAll(e, all) ==
  /\ construct' = [construct EXCEPT ![e] = Empty]
  /\ Send(e, Flushed(e, all) \cup {Packet(e, Waiting(e, all).resend, Waiting(e, all).chunks)})

(* CNetServer::Send with NETSENDFLAG_FLUSH. *)
Flush(e) ==
  /\ state[e] = "online" /\ construct[e] # Empty
  /\ FlushAll(e, construct[e].chunks)
  /\ UNCHANGED <<line, state, window, buffer, unpacker, history>>

(* Update while no time limit has passed: the oldest chunk is queued again   *)
(* after a second, and after a silence the construct is flushed or, if there *)
(* is nothing to flush, a control message keeps the connection alive.        *)
Update(e, resendDue, sendDue) ==
  LET all == IF resendDue /\ buffer[e] # <<>>
               THEN Append(construct[e].chunks, Head(buffer[e]))
               ELSE construct[e].chunks
  IN /\ state[e] = "online"
     /\ IF ~sendDue
          THEN construct' = [construct EXCEPT ![e] = Waiting(e, all)] /\ Send(e, Flushed(e, all))
          ELSE IF all # <<>> \/ construct[e].resend
            THEN FlushAll(e, all)
            ELSE Send(e, {Control(e, FALSE)}) /\ UNCHANGED construct
     /\ UNCHANGED <<line, state, window, buffer, unpacker, history>>

(* Update after a limit: nothing was received for conn_timeout seconds, or   *)
(* the oldest chunk was not acknowledged for as long.                        *)
TimeOut(e) ==
  /\ state[e] = "online"
  /\ state' = [state EXCEPT ![e] = "error"]
  /\ UNCHANGED <<line, window, stores, wire, history>>

(* Disconnect; Reset forgets everything.  The other end is told of it unless *)
(* it has closed the connection itself or, as long as m_TimeoutSituation is  *)
(* set, does not answer: for a slot of the server that /timeout protects     *)
(* Update clears it in the end.                                              *)
MayTell(e) == state[e] = "online" \/ (state[e] = "error" /\ e[1] = "server")
Disconnect(e) ==
  /\ state[e] # "offline"
  /\ \/ MayTell(e) /\ Send(e, {Control(e, TRUE)})
     \/ state[e] \in {"error", "closed"} /\ UNCHANGED wire
  /\ state' = [state EXCEPT ![e] = "offline"]
  /\ sequence' = [sequence EXCEPT ![e] = 0]
  /\ ack' = [ack EXCEPT ![e] = 0]
  /\ peerAck' = [peerAck EXCEPT ![e] = 0]
  /\ buffer' = [buffer EXCEPT ![e] = <<>>]
  /\ construct' = [construct EXCEPT ![e] = Empty]
  /\ UNCHANGED <<line, unpacker, history>>

----------------------------------------------------------------------------
(* The network's part: nothing arrives that is half the sequence space old.  *)
Fresh(e, p) ==
  /\ \A i \in DOMAIN p.chunks : p.chunks[i].id[2] + Modulus \div 2 > Len(got[e])
  /\ \A i \in DOMAIN buffer[e] : p.upto + Modulus \div 2 > buffer[e][i].id[2]

(* AckChunks pops the oldest chunks as long as they are acknowledged. *)
Acked(chunks, a) ==
  {i \in DOMAIN chunks : \A j \in 1 .. i : IsSeqInBackroom(chunks[j].seq, a)}
AckOne(chunks, a) ==  \* mutant: pops the first whatever is acknowledged
  IF chunks = <<>> THEN <<>> ELSE Tail(chunks)
AckChunks(chunks, a) == SubSeq(chunks, Cardinality(Acked(chunks, a)) + 1, Len(chunks))

(* Feed.  A packet with an acknowledgement out of range is ignored; the      *)
(* chunks are resent before they are acknowledged; a packet stays on its     *)
(* wire, to be received again.                                               *)
Feed(e, p) ==
  /\ state[e] = "online" /\ unpacker[e] = <<>>
  /\ Fresh(e, p) /\ ValidAck(e, p.ack)
  /\ peerAck' = [peerAck EXCEPT ![e] = p.ack]
  /\ LET all == IF p.resend THEN construct[e].chunks \o buffer[e] ELSE construct[e].chunks
     IN construct' = [construct EXCEPT ![e] = Waiting(e, all)] /\ Send(e, Flushed(e, all))
  /\ IF p.close
       THEN state' = [state EXCEPT ![e] = "closed"] /\ UNCHANGED <<buffer, unpacker>>
       ELSE /\ buffer' = [buffer EXCEPT ![e] = AckChunks(@, p.ack)]
            /\ unpacker' = [unpacker EXCEPT ![e] = p.chunks]
            /\ UNCHANGED state
  /\ UNCHANGED <<line, sequence, ack, history>>

(* CNetRecvUnpacker::FetchChunk, one chunk of the packet; of a connection    *)
(* that was closed in between the application takes no more chunks.          *)
NotSeen(e, seq) == ~IsSeqInBackroom(seq, ack[e])  \* mutant: takes whatever is new
InSequence(e, seq) == seq = NextSeq(ack[e])
FetchChunk(e) ==
  /\ unpacker[e] # <<>>
  /\ unpacker' = [unpacker EXCEPT ![e] = Tail(@)]
  /\ LET chunk == Head(unpacker[e])
     IN IF InSequence(e, chunk.seq)
          THEN /\ ack' = [ack EXCEPT ![e] = chunk.seq]
               /\ got' = [got EXCEPT ![e] = IF state[e] = "offline" THEN @ ELSE Append(@, chunk.id)]
               /\ UNCHANGED construct
          ELSE /\ construct' = [construct EXCEPT ![e].resend =
                    @ \/ ~IsSeqInBackroom(chunk.seq, ack[e])]
               /\ UNCHANGED <<ack, got>>
  /\ UNCHANGED <<line, state, sequence, peerAck, buffer, wire, queued, spilled>>

(* Each end is one thread.  Between two chunks of a packet its application   *)
(* may send or close, and nothing else happens there; what the other end     *)
(* does meanwhile it might as well have done before.                         *)
Undisturbed(e) == \A d \in Ends \ {e} : unpacker[d] = <<>>
Idle == \A d \in Ends : unpacker[d] = <<>>

Application(e) ==
  Undisturbed(e) /\ (QueueChunk(e) \/ Flush(e) \/ Disconnect(e) \/ FetchChunk(e))
Timers(e) ==
  Idle /\ (TimeOut(e) \/ \E resendDue, sendDue \in BOOLEAN : Update(e, resendDue, sendDue))
Recv(e) == Idle /\ \E p \in wire[In(e)] : Feed(e, p)

Next == \E e \in Ends : Application(e) \/ Timers(e) \/ Recv(e)

Spec == Init /\ [][Next]_vars

(* Both programs keep calling Update and emptying their unpacker.  Of the    *)
(* network it is assumed that a packet with the chunk an end waits for, and  *)
(* one that acknowledges something, gets through if enough of them are sent. *)
Brings(e, p) == \E i \in DOMAIN p.chunks : p.chunks[i].id[2] = Len(got[e]) + 1
Settles(e, p) == ValidAck(e, p.ack) /\ AckChunks(buffer[e], p.ack) # buffer[e]
Fairness ==
  \A e \in Ends :
    /\ SF_vars(Idle /\ Update(e, TRUE, TRUE))
    /\ WF_vars(FetchChunk(e))
    /\ SF_vars(Idle /\ \E p \in wire[In(e)] : Brings(e, p) /\ Feed(e, p))
    /\ SF_vars(Idle /\ \E p \in wire[In(e)] : Settles(e, p) /\ Feed(e, p))
FairSpec == Spec /\ Fairness

----------------------------------------------------------------------------
Seqs == 0 .. Modulus - 1
Chunk == [seq : Seqs, id : Ends \X Nat]
Constructs == {c \in [chunks : Seq(Chunk), resend : BOOLEAN] : Len(c.chunks) <= PacketChunks}
IsPacket(p) ==
  /\ p \in [ack : Seqs, resend : BOOLEAN, close : BOOLEAN, chunks : Seq(Chunk), upto : Nat]
  /\ Len(p.chunks) <= PacketChunks

(* Every variable has its type; the sequence numbers stay below Modulus, the *)
(* buffer within its capacity, and no packet holds more than its share.      *)
TypeOK ==
  /\ line \in [Ends -> Lines]
  /\ state \in [Ends -> {"online", "error", "closed", "offline"}]
  /\ sequence \in [Ends -> Seqs] /\ ack \in [Ends -> Seqs] /\ peerAck \in [Ends -> Seqs]
  /\ buffer \in [Ends -> Seq(Chunk)] /\ unpacker \in [Ends -> Seq(Chunk)]
  /\ \A e \in Ends : Len(buffer[e]) <= Capacity /\ Len(unpacker[e]) <= PacketChunks
  /\ construct \in [Ends -> Constructs]
  /\ DOMAIN wire = Ends /\ \A w \in Ends : \A p \in wire[w] : IsPacket(p)
  /\ queued \in [Ends -> Nat] /\ got \in [Ends -> Seq(Ends \X Nat)]
  /\ spilled \in SUBSET Ends

(* A vital chunk stays in the resend buffer until the other end has taken    *)
(* it, whatever acknowledgements are lost, repeated or late: what is missing *)
(* at the receiver can still be asked for.                                   *)
Peer(e) == <<Other(e[1]), e[2]>>
KeptUntilTaken ==
  \A e \in Ends :
    state[e] = "online" /\ Out(e) \notin spilled =>
      \A n \in Len(got[Peer(e)]) + 1 .. queued[Out(e)] :
        \E i \in DOMAIN buffer[e] : buffer[e][i].id = <<Out(e), n>>

(* Each direction of a connection is a reliable channel: in order, nothing   *)
(* twice, and every chunk queued arrives while both ends are online.         *)
Up == {w \in Ends : \A e \in Ends : e[2] = w[2] => state[e] = "online"}
Stream == INSTANCE Channel WITH
  Directions <- Ends,
  sent <- queued,
  got <- [e \in Ends |-> [k \in DOMAIN got[e] |-> got[e][k][2]]],
  up <- Up
ReliableStream == Stream!Spec

(* The resend buffer empties again while the connection is up: lost and      *)
(* late acknowledgements are made good.                                      *)
BufferDrains ==
  \A e \in Ends :
    buffer[e] # <<>> ~> buffer[e] = <<>> \/ Out(e) \notin Up \/ Out(e) \in spilled

=============================================================================
