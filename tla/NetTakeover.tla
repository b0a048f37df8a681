---------------------------- MODULE NetTakeover ----------------------------
(***************************************************************************)
(* Timeout protection over the connections of NetConn: a player whose      *)
(* connection timed out comes back on a new one, gives the code of its old *)
(* player with /timeout, and the old slot carries on with the new line     *)
(* (CNetConnection::SetTimedOut).  The slot of the new connection is not   *)
(* used again here, so the memory that the copied chunks still point into  *)
(* keeps its contents.                                                     *)
(***************************************************************************)
EXTENDS NetConn

(* CNetServer::SetTimedOut(s, o).  m_Construct and m_PeerAck of the old slot *)
(* are left as they were.                                                    *)
Takeover(s, o) ==
  /\ state[s] \in {"error", "closed"} /\ state[o] = "online" /\ Undisturbed(o)
  /\ line' = [line EXCEPT ![s] = line[o]]
  /\ state' = [state EXCEPT ![s] = "online", ![o] = "offline"]
  /\ sequence' = [sequence EXCEPT ![s] = sequence[o], ![o] = 0]
  /\ ack' = [ack EXCEPT ![s] = ack[o], ![o] = 0]
  /\ peerAck' = [peerAck EXCEPT ![o] = 0]
  /\ buffer' = [buffer EXCEPT ![s] = buffer[o], ![o] = <<>>]
  /\ construct' = [construct EXCEPT ![o] = Empty]
  /\ got' = [got EXCEPT ![s] = got[o], ![o] = <<>>]
  /\ UNCHANGED <<unpacker, wire, queued, spilled>>

TakeoverNext ==
  Next \/ \E s, o \in {"server"} \X Lines : s # o /\ Takeover(s, o)

TakeoverSpec == Init /\ [][TakeoverNext]_vars

(* "guaranteed to be delivered, resent on packet loss" (protocol.h): a place *)
(* in the sequence that the receiver has passed was filled with the chunk    *)
(* that was queued for it; any other would never be delivered, since the     *)
(* receiver takes its number for one it has already seen.                    *)
GuaranteedDelivery ==
  \A e \in Ends :
    state[e] = "online" /\ In(e) \notin spilled =>
      \A n \in DOMAIN got[e] : n <= queued[In(e)] => got[e][n] = <<In(e), n>>

=============================================================================
