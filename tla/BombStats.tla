----------------------------- MODULE BombStats -----------------------------
(***************************************************************************)
(* The three counters of a slot that go into the statistics,               *)
(* m_HammerKills, m_CollateralKills and m_RoundsSurvived, over the rounds  *)
(* of BombTag.  SaveStats adds them to what the database has under the     *)
(* client's name; only OnReset puts them back to zero, and not everywhere. *)
(***************************************************************************)
EXTENDS BombTag

VARIABLE earned  \* what the counters of a slot hold, all three together:
                 \* nothing, the client's own since its last record, something
                 \* that was recorded or whose client has left, or something
                 \* that no reset comes for; "again" when what was recorded
                 \* is recorded another time

statsVars == <<vars, earned>>

(* Without a round there are only bombs that clients have left behind. *)
Gained(K, e) ==
  [c \in Clients |->
     IF c \in K /\ e[c] = "nothing"
       THEN IF roundActive THEN "own" ELSE "kept"
       ELSE e[c]]

(* SaveStats for the slots K. *)
Recorded(K, e) ==
  [c \in Clients |->
     CASE c \in K /\ e[c] = "own" -> "spent"
       [] c \in K /\ e[c] = "spent" -> "again"
       [] OTHER -> e[c]]

(* The next client in the slot finds what this one has left. *)
LeftBehind(c, e) == [e EXCEPT ![c] = IF @ = "own" THEN "spent" ELSE @]

ZeroedAlive ==  \* mutant: OnReset clears only the players of the round
  [c \in Clients |-> IF state[c] = "ALIVE" THEN "nothing" ELSE earned[c]]

(* OnReset skips the spectators and the empty slots. *)
Zeroed ==
  [c \in Clients |->
     CASE state[c] \in {"ACTIVE", "ALIVE"} -> "nothing"
       [] earned[c] = "nothing" -> "nothing"
       [] OTHER -> "kept"]

----------------------------------------------------------------------------
StatsInit == Init /\ earned = [c \in Clients |-> "nothing"]

(* The blow that takes a fuse to its end counts for the hammer. *)
HitCounts(c, d) ==
  /\ Hit(c, d)
  /\ LET kills == fuse[d] # NoBomb /\ fuse'[d] # NoBomb /\ fuse'[d] <= 0
     IN earned' = Gained(IF kills THEN {c} ELSE {}, earned)

FallCounts(c) ==
  LET fallen == {d \in {c} : Falls(d)}
  IN \/ Die(c) /\ earned' = Recorded(fallen, earned)
     \/ Drop(c) /\ earned' = LeftBehind(c, Recorded(fallen, earned))

(* Both DoTeamChange and DoAfkLogic eliminate the ALIVE they send off. *)
SentOffCounts ==
  /\ AfkLogic \/ \E c \in Clients, t \in WantedTeams : ConSetTeam(c, t)
  /\ earned' = Recorded({c \in InState("ALIVE") : state'[c] = "SPECTATING"}, earned)

(* EndBombRound, of both kinds: the ALIVE without a bomb survived. *)
EndCounts ==
  /\ WinCheck \/ Refill
  /\ LET ended  == roundActive /\ ~roundActive'
         picked == pc = "refill" /\ fuse' # fuse
         winner == {c \in Clients : award'[c] > award[c]}
     IN earned' =
          IF ended \/ picked
            THEN Recorded(winner, Gained({c \in InState("ALIVE") : fuse[c] = NoBomb}, earned))
            ELSE earned

(* ExplodeBomb: the bomb has whoever it caught on its account when it goes. *)
BlastCounts(caught) ==
  /\ Burn /\ Explode(idx, caught)
  /\ earned' = Recorded({idx} \cup caught, Gained(IF caught = {} THEN {} ELSE {idx}, earned))
BurnCounts ==
  LET explodes == fuse[idx] # NoBomb /\ fuse[idx] <= 0 /\ Player(idx)
  IN \/ ~explodes /\ Burn /\ UNCHANGED earned
     \/ explodes /\ \E caught \in SUBSET InBlast(idx) : BlastCounts(caught)

ResetCounts == BeginTick /\ earned' = IF resetRequested THEN Zeroed ELSE earned

(* The controller of the new map begins with zeroes. *)
NewMapCounts == NewMap /\ earned' = [c \in Clients |-> "nothing"]

Uncounted ==
  \/ \E c \in Clients :
       Connect(c) \/ Enter(c) \/ \E t \in WantedTeams : SetTeamMessage(c, t)
  \/ Console \/ MapMissing
  \/ BaseTick \/ ChangeToEnqueuedMap \/ StartBombRound \/ NoStart \/ Bench \/ PlayerTicks

StatsNext ==
  \/ \E c \in Clients : FallCounts(c) \/ \E d \in Clients : HitCounts(c, d)
  \/ SentOffCounts \/ EndCounts \/ BurnCounts \/ ResetCounts \/ NewMapCounts
  \/ Uncounted /\ UNCHANGED earned

StatsSpec == StatsInit /\ [][StatsNext]_statsVars
StatsFairSpec == StatsSpec /\ Fairness

----------------------------------------------------------------------------
(* A bomb somebody sits on without playing, nor recorded in this round: the  *)
(* client before had it and left before it had a tee to die with.            *)
Inherited(c) == fuse[c] # NoBomb /\ state[c] # "ALIVE" /\ saves[c] = 0

(* What was earned in one round is not recorded another time, for the same   *)
(* client or for the next one in its slot, though the counters outlive both  *)
(* the record and the client: the reset comes before the next record.        *)
(* Four ways around it are left in the code.  A slot that was empty or on    *)
(* the spectators' side at the reset keeps what it has; whoever dies between *)
(* the end of a warmup and its reset, in the round begun there, is recorded  *)
(* with the counters of the round before; a bomb left in an empty slot can   *)
(* be hammered between two rounds; and who inherits a bomb inherits what the *)
(* client before has survived, and both are on record when it explodes.      *)
CreditedOnce ==
  [][\A c \in Clients :
       earned'[c] = "again" => earned[c] = "again" \/ resetRequested \/ Inherited(c)]_statsVars

=============================================================================
