------------------------------ MODULE Channel ------------------------------
(***************************************************************************)
(* What a set of connections promises for vital chunks: in each direction  *)
(* the receiver takes the chunks in the order in which they were queued,   *)
(* every one once, and gets them all while the connection is up.  The      *)
(* promise for a direction ends when the sender's resend buffer overflows. *)
(***************************************************************************)
EXTENDS Naturals, Sequences

CONSTANT Directions

VARIABLES
  sent,     \* how many vital chunks were queued, by direction
  got,      \* the chunks the receiver was given, by their place in the queue
  spilled,  \* the directions for which a chunk found the resend buffer full
  up        \* the directions both ends of which are online

chan == <<sent, got, spilled, up>>

Init ==
  /\ sent = [d \in Directions |-> 0]
  /\ got = [d \in Directions |-> <<>>]
  /\ spilled = {} /\ up = Directions

Queue(d) ==
  /\ sent' = [sent EXCEPT ![d] = @ + 1]
  /\ spilled' \in {spilled, spilled \cup {d}}
  /\ UNCHANGED <<got, up>>

Deliver(d) ==
  /\ d \notin spilled /\ Len(got[d]) < sent[d]
  /\ got' = [got EXCEPT ![d] = Append(@, Len(@) + 1)]
  /\ UNCHANGED <<sent, spilled, up>>

(* After an overflow nothing is promised of what the receiver is given. *)
Garble(d) ==
  /\ d \in spilled
  /\ \E k \in 1 .. sent[d] : got' = [got EXCEPT ![d] = Append(@, k)]
  /\ UNCHANGED <<sent, spilled, up>>

Break == up' \in SUBSET up /\ UNCHANGED <<sent, got, spilled>>

Next == Break \/ \E d \in Directions : Queue(d) \/ Deliver(d) \/ Garble(d)

Spec == Init /\ [][Next]_chan /\ \A d \in Directions : WF_chan(d \in up /\ Deliver(d))

=============================================================================
