------------------------------ MODULE BombTag ------------------------------
(***************************************************************************)
(* The Bombtag round as the server plays it: CGameControllerBomb           *)
(* (game/server/gamemodes/Bomb.cpp) together with the parts of             *)
(* IGameController, CGameWorld, CPlayer, CCharacter, CGameContext and      *)
(* CServer that read or write the same state.                              *)
(*                                                                         *)
(* The server is one thread.  Between two ticks (pc = "net") it handles    *)
(* messages, console commands and early inputs in any order; a tick then  *)
(* runs the phases of CGameContext::OnTick in a fixed order, and pc names  *)
(* the phase.  The loop of DoWinCheck over the slots is unrolled with idx, *)
(* because what it does to one slot changes what it finds at the next.     *)
(***************************************************************************)
EXTENDS Integers, FiniteSets

CONSTANTS
  NumClients,          \* MAX_CLIENTS
  TickSpeed,           \* SERVER_TICK_SPEED
  SecondsToExplosion,  \* bombtag_seconds_to_explosion
  MinSeconds,          \* bombtag_minimum_seconds_to_explosion
  BombDamage,          \* bombtag_bomb_damage
  BombsPerPlayer,      \* bombtag_bombs_per_player
  CollateralDamage,    \* bombtag_collateral_damage
  WarmupSeconds,       \* the 3 of every DoWarmup(3) of Bomb.cpp
  GameOverSeconds,     \* the 10 of IGameController::Tick
  WantedTeams,         \* teams a Cl_SetTeam message may ask for
  Rcon,                \* console commands the admin uses
  NoBomb               \* the fuse of a slot whose m_Bomb is false

ASSUME ClientsAssumption == NumClients \in Nat \ {0}
ASSUME TimingAssumption ==
  /\ TickSpeed \in Nat \ {0}
  /\ SecondsToExplosion \in Nat
  /\ MinSeconds \in Nat
  /\ BombDamage \in Nat
  /\ WarmupSeconds \in Nat \ {0}
  /\ GameOverSeconds \in Nat
ASSUME BombsAssumption == BombsPerPlayer \in Nat \ {0} /\ CollateralDamage \in BOOLEAN
ASSUME TeamsAssumption == WantedTeams \subseteq -1 .. 1
ASSUME NoBombAssumption == NoBomb \notin Int

VARIABLES
  seat,            \* the client's state in CServer: "empty" | "loading" | "ready" | "ingame"
  team,            \* CPlayer::m_Team, SPEC when the slot has no player
  chr,             \* CPlayer::GetCharacter() is not null
  state,           \* m_aPlayers[i].m_State
  fuse,            \* m_aPlayers[i].m_Tick, or NoBomb when m_Bomb is false
  saves,           \* SaveStats calls made for the slot's player since the round began
  award,           \* what the round added to the slot's m_Score
  roundActive, warmup, gameOver, paused, resetRequested,
  enqueued,        \* m_aEnqueuedMap is not empty
  mapReload,       \* CServer::m_MapReload
  rejoin,          \* slots whose client reloads the map with m_IsSpectator persisted
  pc, idx

seats  == <<seat, team>>
ledger == <<saves, award>>
clock  == <<warmup, gameOver, paused, resetRequested>>
maps   == <<enqueued, mapReload, rejoin>>
turn   == <<pc, idx>>
vars   == <<seats, chr, state, fuse, ledger, roundActive, clock, maps, turn>>

Clients == 0 .. NumClients - 1
SPEC  == -1
FLOCK == 0
States == {"NONE", "SPECTATING", "ACTIVE", "ALIVE"}

Ticks(seconds) == seconds * TickSpeed
FuseTicks == Ticks(SecondsToExplosion)
MinTicks  == Ticks(MinSeconds)
LongestFuse == IF FuseTicks > MinTicks THEN FuseTicks ELSE MinTicks

(* A fuse is cut off at -1: the code never tells two negative timers apart. *)
Shorten(f, n) == IF f - n < -1 THEN -1 ELSE f - n

(* A slot has a CPlayer from OnClientConnected to OnClientDrop. *)
Player(c) == seat[c] \in {"ready", "ingame"}
InState(s) == {c \in Clients : state[c] = s}
Bombs == {c \in Clients : fuse[c] # NoBomb}

(* The number of bombs picked among n players, StartBombRound and EndBombRound. *)
FloorPlusOne(n, d) == n \div d + 1  \* mutant: rounds an even share up as well
CeilDiv(n, d) == (n + d - 1) \div d
BombCount(n) == CeilDiv(n, BombsPerPlayer) - (IF BombsPerPlayer = 1 THEN 1 ELSE 0)

(* KillCharacter on c runs OnCharacterDeath, which eliminates c when ALIVE. *)
Falls(c) == chr[c] /\ state[c] = "ALIVE"

(* The ledger counts SaveStats calls up to two: one too many is enough to see. *)
SaveStats(K) ==
  saves' = [c \in Clients |-> IF c \in K /\ saves[c] < 2 THEN saves[c] + 1 ELSE saves[c]]

(* What EliminatePlayer and the ends of a round do to m_Bomb and to m_State. *)
ArmedStill(K) == fuse  \* mutant: EliminatePlayer forgets m_Bomb = false
Disarmed(K) == [c \in Clients |-> IF c \in K THEN NoBomb ELSE fuse[c]]
Out(K) == [c \in Clients |-> IF c \in K THEN "ACTIVE" ELSE state[c]]
AliveStill == state  \* mutant: the end of a round leaves its winner ALIVE
Retired == Out(InState("ALIVE"))

----------------------------------------------------------------------------
Init ==
  /\ seat = [c \in Clients |-> "empty"]
  /\ team = [c \in Clients |-> SPEC]
  /\ chr = [c \in Clients |-> FALSE]
  /\ state = [c \in Clients |-> "NONE"]
  /\ fuse = [c \in Clients |-> NoBomb]
  /\ saves = [c \in Clients |-> 0]
  /\ award = [c \in Clients |-> 0]
  /\ roundActive = FALSE
  /\ warmup = 0 /\ gameOver = -1 /\ paused = FALSE /\ resetRequested = FALSE
  /\ enqueued = FALSE /\ mapReload = FALSE /\ rejoin = {}
  /\ pc = "net" /\ idx = 0

----------------------------------------------------------------------------
(* Between ticks: clients come, enter and leave. *)

Connect(c) ==
  /\ pc = "net" /\ seat[c] \in {"empty", "loading"}
  /\ seat' = [seat EXCEPT ![c] = "ready"]
  /\ IF c \in rejoin
       THEN UNCHANGED <<team, state>>
       ELSE /\ team' = [team EXCEPT ![c] = FLOCK]
            /\ state' = [state EXCEPT ![c] = "ACTIVE"]
  /\ rejoin' = rejoin \ {c}
  /\ UNCHANGED <<chr, fuse, ledger, roundActive, clock, enqueued, mapReload, turn>>

Enter(c) ==
  /\ pc = "net" /\ seat[c] = "ready"
  /\ seat' = [seat EXCEPT ![c] = "ingame"]
  /\ state' = [state EXCEPT ![c] =
       IF team[c] = SPEC /\ @ # "ACTIVE" THEN "SPECTATING" ELSE @]
  /\ UNCHANGED <<team, chr, fuse, ledger, roundActive, clock, maps, turn>>

SeatKept(c) == state  \* mutant: OnPlayerDisconnect forgets m_State = STATE_NONE
SeatGivenUp(c) == [state EXCEPT ![c] = "NONE"]

(* OnPlayerDisconnect kills the character, then forgets the state only; a   *)
(* client still loading the map has no player.                              *)
Drop(c) ==
  /\ pc = "net" /\ seat[c] # "empty"
  /\ seat' = [seat EXCEPT ![c] = "empty"]
  /\ team' = [team EXCEPT ![c] = SPEC]
  /\ chr' = [chr EXCEPT ![c] = FALSE]
  /\ state' = SeatGivenUp(c)
  /\ fuse' = Disarmed({d \in {c} : Falls(d)})
  /\ saves' = [saves EXCEPT ![c] = 0]
  /\ award' = [award EXCEPT ![c] = 0]
  /\ rejoin' = rejoin \ {c}
  /\ UNCHANGED <<roundActive, clock, enqueued, mapReload, turn>>

(* CPlayer::SetTeam on a player that OnCharacterDeath does not eliminate. *)
SetTeam(c, t) ==
  /\ team' = [team EXCEPT ![c] = t]
  /\ chr' = [chr EXCEPT ![c] = FALSE]

ClampTeam(t) == IF t < 0 THEN SPEC ELSE FLOCK

(* CanJoinTeam refuses while a round is played, and writes m_State itself,   *)
(* whatever it answers and before DoTeamChange looks at it.                  *)
CanJoinTeam(t) == t = SPEC \/ ~roundActive
Judge(c, t) ==
  /\ state' = [state EXCEPT ![c] = IF t = SPEC THEN "SPECTATING" ELSE "ACTIVE"]
  /\ fuse' = [fuse EXCEPT ![c] = IF t = SPEC THEN NoBomb ELSE @]

(* OnSetTeamNetMessage. *)
SetTeamMessage(c, t) ==
  /\ pc = "net" /\ ~paused
  /\ seat[c] = "ingame" /\ team[c] # t
  /\ Judge(c, t)
  /\ IF CanJoinTeam(t) /\ ClampTeam(t) # team[c]
       THEN SetTeam(c, ClampTeam(t))
       ELSE UNCHANGED <<team, chr>>
  /\ UNCHANGED <<seat, ledger, roundActive, clock, maps, turn>>

----------------------------------------------------------------------------
(* Characters, between ticks (early input, the kill message) or as the world ticks. *)

InPlay == pc \in {"net", "world"} /\ ~paused

AtLeastMin(f) == IF MinSeconds # 0 /\ f < MinTicks THEN MinTicks ELSE f

Pass(from, to) ==
  /\ fuse[from] # NoBomb /\ fuse[to] = NoBomb
  /\ fuse' = [fuse EXCEPT ![from] = NoBomb, ![to] = AtLeastMin(fuse[from])]

Damage(from, to) ==
  /\ fuse[from] = NoBomb /\ fuse[to] # NoBomb /\ fuse[to] > 0
  /\ fuse' = [fuse EXCEPT ![to] = Shorten(@, Ticks(BombDamage))]

(* OnTakeDamage with the hammer; the blow that only freezes changes nothing here. *)
Hit(from, to) ==
  /\ InPlay /\ from # to /\ chr[from] /\ chr[to]
  /\ Pass(from, to) \/ Damage(from, to)
  /\ UNCHANGED <<seats, chr, state, ledger, roundActive, clock, maps, turn>>

Die(c) ==
  /\ InPlay /\ chr[c]
  /\ chr' = [chr EXCEPT ![c] = FALSE]
  /\ LET fallen == {d \in {c} : Falls(d)}
     IN state' = Out(fallen) /\ fuse' = Disarmed(fallen) /\ SaveStats(fallen)
  /\ UNCHANGED <<seats, award, roundActive, clock, maps, turn>>

----------------------------------------------------------------------------
(* Console commands. *)

SentTo(c, t) == IF t = SPEC THEN "SPECTATING" ELSE state[c]

(* DoTeamChange, which eliminates the ALIVE it makes spectators. *)
ConSetTeam(c, t) ==
  /\ "set_team" \in Rcon /\ pc = "net"
  /\ Player(c) /\ ClampTeam(t) # team[c]
  /\ state' = [state EXCEPT ![c] = SentTo(c, t)]
  /\ LET out == {d \in {c} : t = SPEC /\ state[d] = "ALIVE"}
     IN SaveStats(out) /\ fuse' = Disarmed(out)
  /\ SetTeam(c, ClampTeam(t))
  /\ UNCHANGED <<seat, award, roundActive, clock, maps, turn>>

ConPause ==
  /\ "pause" \in Rcon /\ pc = "net"
  /\ paused' = ~paused
  /\ UNCHANGED <<seats, chr, state, fuse, ledger, roundActive,
                 warmup, gameOver, resetRequested, maps, turn>>

(* restart n: DoWarmup(n), which may also cut a running warmup short. *)
ConRestartIn(n) ==
  /\ "restart" \in Rcon /\ pc = "net"
  /\ warmup' = Ticks(n)
  /\ UNCHANGED <<seats, chr, state, fuse, ledger, roundActive,
                 gameOver, paused, resetRequested, maps, turn>>

StartPaused ==  \* mutant: leaves the pause on
  resetRequested' = TRUE /\ gameOver' = -1 /\ UNCHANGED paused
StartOver ==  \* mutant: leaves the game over
  resetRequested' = TRUE /\ paused' = FALSE /\ UNCHANGED gameOver
StartRound == resetRequested' = TRUE /\ gameOver' = -1 /\ paused' = FALSE

ConRestart ==
  /\ "restart" \in Rcon /\ pc = "net"
  /\ StartRound
  /\ UNCHANGED <<seats, chr, state, fuse, ledger, roundActive, warmup, maps, turn>>

ConEnqueueMap ==
  /\ "enqueue_map" \in Rcon /\ pc = "net" /\ ~enqueued
  /\ enqueued' = TRUE
  /\ UNCHANGED <<seats, chr, state, fuse, ledger, roundActive, clock, mapReload, rejoin, turn>>

PersistIngame ==  \* mutant: CClient::Reset loses what was persisted
  {c \in Clients : seat[c] = "ingame" /\ state[c] = "SPECTATING"}
Persisted == {c \in Clients : \/ seat[c] = "ingame" /\ state[c] = "SPECTATING"
                              \/ seat[c] = "loading" /\ c \in rejoin}

(* The server's main loop loads the map, drops the game context and sends   *)
(* every client back to loading; only clients INGAME are asked for the data *)
(* to persist, and one still loading keeps what it had.                     *)
NewMap ==
  /\ pc = "net" /\ mapReload
  /\ rejoin' = Persisted
  /\ seat' = [c \in Clients |-> IF seat[c] = "empty" THEN "empty" ELSE "loading"]
  /\ team' = [c \in Clients |-> SPEC]
  /\ chr' = [c \in Clients |-> FALSE]
  /\ state' = [c \in Clients |-> "NONE"]
  /\ fuse' = [c \in Clients |-> NoBomb]
  /\ saves' = [c \in Clients |-> 0]
  /\ award' = [c \in Clients |-> 0]
  /\ roundActive' = FALSE
  /\ warmup' = 0 /\ gameOver' = -1 /\ paused' = FALSE /\ resetRequested' = FALSE
  /\ enqueued' = FALSE /\ mapReload' = FALSE
  /\ UNCHANGED turn

(* LoadMap did not find the map: the server stays on the one it has. *)
MapMissing ==
  /\ pc = "net" /\ mapReload
  /\ mapReload' = FALSE
  /\ UNCHANGED <<seats, chr, state, fuse, ledger, roundActive, clock, enqueued, rejoin, turn>>

LoadMap == NewMap \/ MapMissing

----------------------------------------------------------------------------
(* One tick: CGameContext::OnTick. *)

Goto(phase) == pc' = phase /\ UNCHANGED idx

(* CGameControllerBomb::OnReset, and what CGameWorld::Reset did before it:   *)
(* the characters go without OnCharacterDeath.                               *)
OnReset ==
  /\ chr' = [c \in Clients |-> FALSE]
  /\ state' = Retired
  /\ fuse' = Disarmed(InState("ACTIVE") \cup InState("ALIVE"))
  /\ roundActive' = FALSE

(* The tick counter moves, and World.Tick resets the world first if asked. *)
BeginTick ==
  /\ pc = "net"
  /\ gameOver' = IF gameOver = -1 THEN -1 ELSE gameOver + 1
  /\ IF resetRequested
       THEN OnReset /\ resetRequested' = FALSE
       ELSE UNCHANGED <<chr, state, fuse, roundActive, resetRequested>>
  /\ Goto("world")
  /\ UNCHANGED <<seats, ledger, warmup, paused, maps>>

(* IGameController::Tick: the end of a warmup or of a game over restarts. *)
BaseTick ==
  /\ pc = "world"
  /\ warmup' = IF warmup > 0 THEN warmup - 1 ELSE 0
  /\ IF warmup = 1 \/ gameOver > Ticks(GameOverSeconds)
       THEN StartRound
       ELSE UNCHANGED <<resetRequested, gameOver, paused>>
  /\ Goto("afk")
  /\ UNCHANGED <<seats, chr, state, fuse, ledger, roundActive, maps>>

(* DoAfkLogic: whoever did nothing for 20 seconds is made a spectator. *)
AfkLogic ==
  /\ pc = "afk"
  /\ \E K \in SUBSET {c \in Clients : roundActive /\ chr[c] /\ state[c] # "SPECTATING"} :
       /\ team' = [c \in Clients |-> IF c \in K THEN SPEC ELSE team[c]]
       /\ chr' = [c \in Clients |-> chr[c] /\ c \notin K]
       /\ state' = [c \in Clients |-> IF c \in K THEN "SPECTATING" ELSE state[c]]
       /\ fuse' = Disarmed({c \in K : Falls(c)})
       /\ SaveStats({c \in K : Falls(c)})
  /\ Goto("start")
  /\ UNCHANGED <<seat, award, roundActive, clock, maps>>

MapDueInWarmup == enqueued /\ ~roundActive /\ warmup # 0  \* mutant: waits for a warmup
MapDue == enqueued /\ ~roundActive /\ warmup = 0

ChangeToEnqueuedMap ==
  /\ pc = "start" /\ MapDue
  /\ enqueued' = FALSE
  /\ mapReload' \in BOOLEAN  \* the map may be the one already running
  /\ Goto("players")
  /\ UNCHANGED <<seats, chr, state, fuse, ledger, roundActive, clock, rejoin>>

Called == Cardinality(InState("ACTIVE")) + Cardinality(InState("ALIVE"))
StartAnytime == warmup = 0 /\ Called > 1  \* mutant: forgets that a round is active
StartInWarmup == ~roundActive /\ Called > 1  \* mutant: forgets the warmup
StartWithThree == ~roundActive /\ warmup = 0 /\ Called > 2  \* mutant: off by one
CanStart == ~roundActive /\ warmup = 0 /\ Called > 1

(* SetTeam(TEAM_FLOCK) kills the tees the players still have; the bombs are *)
(* picked among the ALIVE before anybody has respawned.                     *)
StartBombRound ==
  /\ pc = "start" /\ ~MapDue /\ CanStart
  /\ LET called == InState("ACTIVE")
         alive  == called \cup InState("ALIVE")
     IN /\ team' = [c \in Clients |-> IF c \in called THEN FLOCK ELSE team[c]]
        /\ chr' = [c \in Clients |-> chr[c] /\ c \notin called]
        /\ state' = [c \in Clients |-> IF c \in called THEN "ALIVE" ELSE state[c]]
        /\ \E B \in SUBSET alive :
             /\ Cardinality(B) = BombCount(Cardinality(called))
             /\ fuse' = [c \in Clients |-> IF c \in B THEN FuseTicks ELSE fuse[c]]
  /\ saves' = [c \in Clients |-> 0]
  /\ award' = [c \in Clients |-> 0]
  /\ roundActive' = TRUE
  /\ Goto("wincheck")
  /\ UNCHANGED <<seat, clock, maps>>

NoStart ==
  /\ pc = "start" /\ ~MapDue /\ ~CanStart
  /\ Goto("wincheck")
  /\ UNCHANGED <<seats, chr, state, fuse, ledger, roundActive, clock, maps>>

(* EndBombRound(true): the first slot found ALIVE wins the point, and nobody *)
(* stays ALIVE.                                                              *)
EndBombRound ==
  /\ LET winner == {c \in InState("ALIVE") : \A d \in InState("ALIVE") : c <= d}
     IN /\ award' = [c \in Clients |-> IF c \in winner THEN 1 ELSE award[c]]
        /\ SaveStats(winner)
  /\ state' = Retired
  /\ fuse' = Disarmed(InState("ALIVE"))
  /\ roundActive' = FALSE
  /\ warmup' = Ticks(WarmupSeconds)

DecidedAtTwo == Cardinality(InState("ALIVE")) <= 2  \* mutant: off by one
Decided == Cardinality(InState("ALIVE")) <= 1

(* The head of DoWinCheck. *)
WinCheck ==
  /\ pc = "wincheck"
  /\ IF ~roundActive
       THEN /\ Goto("players")
            /\ UNCHANGED <<state, fuse, ledger, roundActive, warmup, paused, gameOver>>
       ELSE /\ pc' = "refill" /\ idx' = 0
            /\ IF Decided
                 THEN EndBombRound /\ paused' = TRUE /\ gameOver' = 0
                 ELSE UNCHANGED <<state, fuse, ledger, roundActive, warmup, paused, gameOver>>
  /\ UNCHANGED <<seats, chr, resetRequested, maps>>

(* Each turn of DoWinCheck's loop first asks whether there is a bomb at all: *)
(* if not, new bombs are picked among two or more, or the round ends.        *)
(* EndRound pauses only when no warmup runs.                                 *)
Refill ==
  /\ pc = "refill"
  /\ IF Bombs # {} \/ ~roundActive
       THEN UNCHANGED <<state, fuse, ledger, roundActive, warmup, paused, gameOver>>
       ELSE IF Cardinality(InState("ALIVE")) >= 2
         THEN /\ \E B \in SUBSET InState("ALIVE") :
                   /\ Cardinality(B) = BombCount(Cardinality(InState("ALIVE")))
                   /\ fuse' = [c \in Clients |-> IF c \in B THEN FuseTicks ELSE fuse[c]]
              /\ UNCHANGED <<state, ledger, roundActive, warmup, paused, gameOver>>
         ELSE /\ EndBombRound
              /\ IF warmup = 0
                   THEN paused' = TRUE /\ gameOver' = 0
                   ELSE UNCHANGED <<paused, gameOver>>
  /\ Goto("fuse")
  /\ UNCHANGED <<seats, chr, resetRequested, maps>>

NextSlot ==
  IF idx = NumClients - 1
    THEN pc' = "bench" /\ idx' = 0
    ELSE pc' = "refill" /\ idx' = idx + 1

(* ExplodeBomb.  The tees caught in the blast are eliminated without dying. *)
Explode(i, caught) ==
  /\ state' = Out(caught \cup {i})
  /\ fuse' = Disarmed(caught \cup {i})
  /\ chr' = [chr EXCEPT ![i] = FALSE]
  /\ SaveStats(caught \cup {i})

InBlast(i) == IF CollateralDamage THEN {c \in Clients \ {i} : chr[c]} ELSE {}

BurntInHand(i) ==  \* mutant: the timer waits for a tee
  IF chr[i] THEN Shorten(fuse[i], 1) ELSE fuse[i]
Burnt(i) == Shorten(fuse[i], 1)

(* The rest of the turn: a fuse at its end explodes, if its slot has a player, *)
(* and every fuse gets shorter.                                                *)
Burn ==
  /\ pc = "fuse"
  /\ IF fuse[idx] # NoBomb /\ fuse[idx] <= 0 /\ Player(idx)
       THEN \E caught \in SUBSET InBlast(idx) : Explode(idx, caught)
       ELSE /\ fuse' = [fuse EXCEPT ![idx] = IF @ = NoBomb THEN NoBomb ELSE Burnt(idx)]
            /\ UNCHANGED <<state, chr, saves>>
  /\ NextSlot
  /\ UNCHANGED <<seats, award, roundActive, clock, maps>>

BenchedInWarmup ==  \* mutant: the test turned round
  {c \in InState("ACTIVE") : Player(c) /\ warmup # 0}
Benched == {c \in InState("ACTIVE") : Player(c) /\ warmup = 0}

(* The tail of DoWinCheck: who is not ALIVE watches. *)
Bench ==
  /\ pc = "bench"
  /\ team' = [c \in Clients |-> IF c \in Benched THEN SPEC ELSE team[c]]
  /\ chr' = [c \in Clients |-> chr[c] /\ c \notin Benched]
  /\ Goto("players")
  /\ UNCHANGED <<seat, state, fuse, ledger, roundActive, clock, maps>>

(* Every CPlayer::Tick: some of those waiting respawn, the others' respawn  *)
(* timer has not run out or no fire key was pressed.                        *)
PlayerTicks ==
  /\ pc = "players"
  /\ \E S \in SUBSET {c \in Clients : ~paused /\ seat[c] = "ingame" /\ team[c] = FLOCK} :
       chr' = [c \in Clients |-> chr[c] \/ c \in S]
  /\ Goto("net")
  /\ UNCHANGED <<seats, state, fuse, ledger, roundActive, clock, maps>>

----------------------------------------------------------------------------
Clientele ==
  \E c \in Clients :
    \/ Connect(c) \/ Enter(c) \/ Drop(c) \/ Die(c)
    \/ \E t \in WantedTeams : SetTeamMessage(c, t) \/ ConSetTeam(c, t)
    \/ \E d \in Clients : Hit(c, d)

Console ==
  \/ ConPause \/ ConRestart \/ ConEnqueueMap
  \/ \E n \in 0 .. WarmupSeconds : ConRestartIn(n)

ServerTick ==
  \/ BeginTick \/ BaseTick \/ AfkLogic
  \/ ChangeToEnqueuedMap \/ StartBombRound \/ NoStart
  \/ WinCheck \/ Refill \/ Burn \/ Bench \/ PlayerTicks

Next == Clientele \/ Console \/ ServerTick \/ LoadMap

Spec == Init /\ [][Next]_vars

(* The thread keeps ticking, and its main loop looks at m_MapReload between  *)
(* any two batches of ticks; nothing is assumed of clients and admins.       *)
Fairness == WF_vars(ServerTick) /\ SF_vars(LoadMap)
FairSpec == Spec /\ Fairness

----------------------------------------------------------------------------
(* The types of all variables.  m_Tick has no bound in the code: what keeps *)
(* it in range is that only MakeBomb, a pass and the minimum lengthen it.   *)
SlotTypes ==
  /\ seat \in [Clients -> {"empty", "loading", "ready", "ingame"}]
  /\ team \in [Clients -> {SPEC, FLOCK}]
  /\ chr \in [Clients -> BOOLEAN]
  /\ state \in [Clients -> States]
  /\ fuse \in [Clients -> (-1 .. LongestFuse) \cup {NoBomb}]
  /\ saves \in [Clients -> 0 .. 2]
  /\ award \in [Clients -> 0 .. 1]
FlagTypes ==
  /\ roundActive \in BOOLEAN /\ paused \in BOOLEAN /\ resetRequested \in BOOLEAN
  /\ enqueued \in BOOLEAN /\ mapReload \in BOOLEAN
ClockTypes ==
  /\ warmup \in 0 .. Ticks(WarmupSeconds)
  /\ gameOver \in -1 .. Ticks(GameOverSeconds) + 1
TurnTypes ==
  /\ rejoin \in SUBSET Clients
  /\ pc \in {"net", "world", "afk", "start", "wincheck", "refill", "fuse", "bench", "players"}
  /\ idx \in Clients
TypeOK == SlotTypes /\ FlagTypes /\ ClockTypes /\ TurnTypes

(* A slot the mode counts as playing or waiting has a player behind it, who  *)
(* is on the game's team while ALIVE, and only such a player has a tee.      *)
(* StartBombRound, MakeBomb and OnTakeDamage dereference m_apPlayers[i] on   *)
(* the strength of m_State alone.                                            *)
SlotsInOrder ==
  \A c \in Clients :
    /\ state[c] # "NONE" => Player(c)
    /\ state[c] = "ALIVE" => team[c] = FLOCK
    /\ chr[c] => seat[c] = "ingame" /\ team[c] = FLOCK

(* Nobody is ALIVE outside a round: the guard of Tick adds the ALIVE to the  *)
(* ACTIVE, and would otherwise pick more bombs than it has called players.   *)
AliveOnlyInRound == ~roundActive => InState("ALIVE") = {}

(* With no admin interfering, a round is never played during a warmup, a     *)
(* game over or a pause: DoWinCheck benches the eliminated only then.        *)
RoundRunsFree == roundActive => warmup = 0 /\ gameOver = -1 /\ ~paused

(* SaveStats adds a game played, so a player is recorded once a round: the   *)
(* winner as a winner, anybody else as eliminated.  EliminatePlayer does not *)
(* look at m_State; what protects the ledger is who can still get a bomb.    *)
RecordedOnce ==
  \A c \in Clients :
    /\ saves[c] <= 1
    /\ award[c] = 1 => saves[c] = 1

(* The part of it that also holds with collateral damage: whoever is ALIVE   *)
(* has not been recorded yet, so the blast that eliminates a player takes it *)
(* out of the contest for the point.                                         *)
AliveUnrecorded == \A c \in InState("ALIVE") : saves[c] = 0 /\ award[c] = 0

(* While a round is played, every tee that can hit or be hit is ALIVE:       *)
(* OnTakeDamage hands a bomb to whomever is hit without asking for m_State.  *)
ArenaIsForTheLiving ==
  roundActive /\ pc \in {"net", "world"} => \A c \in Clients : chr[c] => state[c] = "ALIVE"

(* A point goes to the only one left ALIVE, whichever of the two ways the    *)
(* round ends: EndBombRound itself gives it to the first slot it finds.      *)
SoleSurvivorWins ==
  [][\A c \in Clients : award'[c] > award[c] => InState("ALIVE") = {c}]_vars

(* Whoever is out stays out until the round is over, though messages,        *)
(* console commands and new clients write m_State at any time.               *)
NobodyRejoins ==
  [][roundActive /\ roundActive' =>
       \A c \in Clients : state'[c] = "ALIVE" => state[c] = "ALIVE"]_vars

(* Bombs are picked so that somebody is spared and, if none was left over    *)
(* in an empty slot, so that there is one: ceil(n / BombsPerPlayer), or all  *)
(* but one, of the n ALIVE.                                                  *)
Picked == {c \in Clients : fuse[c] = NoBomb /\ fuse'[c] # NoBomb}
SomebodySpared == Picked # {} => \E c \in Clients \ Picked : state'[c] = "ALIVE"
SomeBomb ==
  roundActive' /\ (pc = "refill" \/ ~roundActive) => \E c \in Clients : fuse'[c] # NoBomb
PickSparesSomebody ==
  [][(pc \in {"start", "refill"}) => SomebodySpared /\ SomeBomb]_vars

(* A bomb in a slot nobody sits in: it explodes never. *)
OrphanBomb == \E c \in Bombs : ~Player(c)

(* With no minimum on the timer every round ends, however often the bombs    *)
(* are passed on, unless a bomb is left in an empty slot.                     *)
RoundEnds == roundActive ~> (~roundActive \/ OrphanBomb)

(* The pause that shows the winner is lifted by the warmup it comes with.    *)
PauseLifts == paused ~> ~paused

(* Two players who keep waiting get a round.                                 *)
RoundStarts ==
  (Cardinality(InState("ACTIVE")) > 1 /\ ~roundActive)
    ~> (roundActive \/ Cardinality(InState("ACTIVE")) <= 1)

(* A client on the spectators' side, also on its way back after a new map.   *)
Withdrawn(c) ==
  state[c] = "SPECTATING" \/ c \in rejoin \/ (seat[c] = "ready" /\ state[c] = "NONE")

(* A spectator is drawn into the game only by asking for it or by leaving:   *)
(* not by a round, a blast, a reset of the world or a new map.               *)
(* The one exception is a second new map that finds the client between its   *)
(* connection and its entry: it is not asked for its data, and what it had   *)
(* persisted from the map before was used up.                                *)
Asked(c) == (\E t \in WantedTeams : SetTeamMessage(c, t)) \/ seat'[c] = "empty"
CaughtByNewMap(c) == NewMap /\ seat[c] = "ready"
SpectatorsStay ==
  [][\A c \in Clients :
       Withdrawn(c) => Withdrawn(c)' \/ Asked(c) \/ CaughtByNewMap(c)]_vars

(* enqueue_map: the enqueued map is asked for once the round has finished,   *)
(* and a map change asked for is attempted, however busy the clients and the *)
(* admin keep the server.                                                    *)
EnqueuedMapLoads ==
  /\ enqueued ~> (~enqueued \/ OrphanBomb)
  /\ mapReload ~> ~mapReload

=============================================================================
