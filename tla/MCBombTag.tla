----------------------------- MODULE MCBombTag -----------------------------
(* Instances of BombTag for TLC, and a statement of the repository that the *)
(* code does not keep.                                                     *)
EXTENDS BombTag

(* What the team buttons of a client send. *)
ButtonTeams == {-1, 0}
(* What datasrc/network.py lets a client send. *)
AllTeams == {-1, 0, 1}

AllCommands == {"set_team", "pause", "restart", "enqueue_map"}

(* README.md: "Bombtag is a Teeworlds mod where one or more players are      *)
(* bombs": while a round is played there is again and again a bomb in the    *)
(* hands of a player.  StartBombRound may pick a client that has not entered *)
(* yet or has not respawned; when it leaves, no character dies, nothing      *)
(* clears m_Bomb, and AmountOfBombs counts the empty slot from then on.      *)
RoundsHaveABomb == []<>(~roundActive \/ \E c \in Bombs : Player(c))

=============================================================================
