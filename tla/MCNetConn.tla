----------------------------- MODULE MCNetConn -----------------------------
(* Instances of NetConn for TLC. *)
EXTENDS NetTakeover

(* The server sends, the client only acknowledges. *)
ServerSends == [side \in {"server", "client"} |-> IF side = "server" THEN 2 ELSE 0]
ServerSendsOne == [side \in {"server", "client"} |-> IF side = "server" THEN 1 ELSE 0]
BothSend == [side \in {"server", "client"} |-> IF side = "server" THEN 2 ELSE 1]

(* Packets are reordered on the way to the client. *)
Wires == [side \in {"server", "client"} |-> IF side = "client" THEN 2 ELSE 1]
OneEach == [side \in {"server", "client"} |-> 1]

=============================================================================
