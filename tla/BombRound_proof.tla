--------------------------- MODULE BombRound_proof ---------------------------
(* Theorems of BombTag about the course of a round, for every number of slots *)
(* and for the configurations they name: what an admin may do to a round is a *)
(* part of what its code promises.                                            *)
EXTENDS BombTag_proof

----------------------------------------------------------------------------
(* The ledger of those who still play is empty: whatever records somebody     *)
(* also takes the slot out of the ALIVE.                                      *)
LEMMA UnrecordedInit == Init => AliveUnrecorded
BY DEF Init, AliveUnrecorded, InState

LEMMA UnrecordedNext == TypeOK /\ AliveUnrecorded /\ [Next]_vars => AliveUnrecorded'
<1> SUFFICES ASSUME TypeOK, AliveUnrecorded, [Next]_vars PROVE AliveUnrecorded'
  OBVIOUS
<1> SlotTypes /\ TurnTypes
  BY DEF TypeOK
<1> USE DEF SlotTypes, AliveUnrecorded, InState
<1>1. ASSUME NEW d \in Clients, Connect(d) PROVE AliveUnrecorded'
  BY <1>1 DEF Connect, ledger
<1>2. ASSUME NEW d \in Clients, Enter(d) PROVE AliveUnrecorded'
  BY <1>2 DEF Enter, ledger
<1>3. ASSUME NEW d \in Clients, Drop(d) PROVE AliveUnrecorded'
  BY <1>3 DEF Drop, SeatGivenUp
<1>4. ASSUME NEW d \in Clients, NEW t \in WantedTeams, SetTeamMessage(d, t)
      PROVE  AliveUnrecorded'
  BY <1>4 DEF SetTeamMessage, Judge, ledger
<1>5. ASSUME NEW d \in Clients, NEW e \in Clients, Hit(d, e) PROVE AliveUnrecorded'
  BY <1>5 DEF Hit, ledger
<1>6. ASSUME NEW d \in Clients, Die(d) PROVE AliveUnrecorded'
  BY <1>6 DEF Die, Out, Falls, SaveStats
<1>7. ASSUME NEW d \in Clients, NEW t \in WantedTeams, ConSetTeam(d, t) PROVE AliveUnrecorded'
  BY <1>7 DEF ConSetTeam, SentTo, SaveStats
<1>8. ASSUME Console PROVE AliveUnrecorded'
  BY <1>8 DEF Console, ConPause, ConRestart, ConRestartIn, ConEnqueueMap, ledger
<1>9. ASSUME LoadMap PROVE AliveUnrecorded'
  BY <1>9 DEF LoadMap, NewMap, MapMissing, ledger
<1>10. ASSUME BeginTick PROVE AliveUnrecorded'
  BY <1>10 DEF BeginTick, OnReset, Retired, Out, ledger
<1>11. ASSUME BaseTick \/ ChangeToEnqueuedMap \/ NoStart \/ Bench \/ PlayerTicks
       PROVE  AliveUnrecorded'
  BY <1>11 DEF BaseTick, ChangeToEnqueuedMap, NoStart, Bench, PlayerTicks, ledger
<1>12. ASSUME AfkLogic PROVE AliveUnrecorded'
  BY <1>12 DEF AfkLogic, Falls, SaveStats
<1>13. ASSUME StartBombRound PROVE AliveUnrecorded'
  BY <1>13 DEF StartBombRound
<1>14. ASSUME WinCheck PROVE AliveUnrecorded'
  BY <1>14 DEF WinCheck, EndBombRound, Retired, Out, ledger
<1>15. ASSUME Refill PROVE AliveUnrecorded'
  BY <1>15 DEF Refill, EndBombRound, Retired, Out, ledger
<1>16. ASSUME Burn PROVE AliveUnrecorded'
  BY <1>16 DEF Burn, Explode, Out, SaveStats
<1>17. CASE UNCHANGED vars
  BY <1>17 DEF vars, ledger
<1> QED
  BY <1>1, <1>2, <1>3, <1>4, <1>5, <1>6, <1>7, <1>8, <1>9, <1>10, <1>11, <1>12,
     <1>13, <1>14, <1>15, <1>16, <1>17
     DEF Next, Clientele, ServerTick

(* Nobody competes for the point of a round with the round already recorded,  *)
(* with every configuration and whatever the admin does.                      *)
THEOREM TheLivingAreUnrecorded == Spec => []AliveUnrecorded
BY UnrecordedInit, UnrecordedNext, TypeCorrect, PTL DEF Spec

----------------------------------------------------------------------------
(* The clocks of a round.                                                     *)
LEMMA WarmupIsLonger == Ticks(WarmupSeconds) > 0
<1>1. \A a, b \in Nat \ {0} : a * b > 0
  OBVIOUS
<1> QED BY <1>1, TimingAssumption DEF Ticks

(* Only the restart command sets a warmup during a round.                     *)
NoWarmupInRound == roundActive => warmup = 0

LEMMA NoWarmupNext ==
  ASSUME "restart" \notin Rcon
  PROVE  TypeOK /\ NoWarmupInRound /\ [Next]_vars => NoWarmupInRound'
<1> SUFFICES ASSUME TypeOK, NoWarmupInRound, [Next]_vars PROVE NoWarmupInRound'
  OBVIOUS
<1> ClockTypes /\ FlagTypes
  BY DEF TypeOK
<1> USE DEF NoWarmupInRound
<1>1. ASSUME Clientele PROVE NoWarmupInRound'
  BY <1>1 DEF Clientele, Connect, Enter, Drop, Die, SetTeamMessage, ConSetTeam, Hit, clock
<1>2. ASSUME Console PROVE NoWarmupInRound'
  BY <1>2 DEF Console, ConPause, ConRestart, ConRestartIn, ConEnqueueMap, clock
<1>3. ASSUME LoadMap PROVE NoWarmupInRound'
  BY <1>3 DEF LoadMap, NewMap, MapMissing, clock
<1>4. ASSUME BeginTick PROVE NoWarmupInRound'
  BY <1>4 DEF BeginTick, OnReset
<1>5. ASSUME BaseTick PROVE NoWarmupInRound'
  BY <1>5 DEF BaseTick
<1>6. ASSUME AfkLogic \/ ChangeToEnqueuedMap \/ NoStart \/ Burn \/ Bench \/ PlayerTicks
      PROVE  NoWarmupInRound'
  BY <1>6 DEF AfkLogic, ChangeToEnqueuedMap, NoStart, Burn, Bench, PlayerTicks, clock
<1>7. ASSUME StartBombRound PROVE NoWarmupInRound'
  BY <1>7 DEF StartBombRound, CanStart, clock
<1>8. ASSUME WinCheck \/ Refill PROVE NoWarmupInRound'
  BY <1>8 DEF WinCheck, Refill, EndBombRound
<1>9. CASE UNCHANGED vars
  BY <1>9 DEF vars, clock
<1> QED BY <1>1, <1>2, <1>3, <1>4, <1>5, <1>6, <1>7, <1>8, <1>9 DEF Next, ServerTick

LEMMA NoWarmupAlways == ASSUME "restart" \notin Rcon PROVE Spec => []NoWarmupInRound
<1>1. Init => NoWarmupInRound
  BY DEF Init, NoWarmupInRound
<1>2. TypeOK /\ NoWarmupInRound /\ [Next]_vars => NoWarmupInRound'
  BY NoWarmupNext
<1> QED BY <1>1, <1>2, TypeCorrect, PTL DEF Spec

(* What holds a game up is never without the warmup that will end it.         *)
HoldsEnd == paused \/ gameOver # -1 => warmup > 0

LEMMA HoldsEndNext ==
  ASSUME Rcon \cap {"pause", "restart"} = {}
  PROVE  TypeOK /\ HoldsEnd /\ [Next]_vars => HoldsEnd'
<1> SUFFICES ASSUME TypeOK, HoldsEnd, [Next]_vars PROVE HoldsEnd'
  OBVIOUS
<1> ClockTypes /\ FlagTypes
  BY DEF TypeOK
<1> USE DEF HoldsEnd
<1>1. ASSUME Clientele PROVE HoldsEnd'
  BY <1>1 DEF Clientele, Connect, Enter, Drop, Die, SetTeamMessage, ConSetTeam, Hit, clock
<1>2. ASSUME Console PROVE HoldsEnd'
  BY <1>2 DEF Console, ConPause, ConRestart, ConRestartIn, ConEnqueueMap, clock
<1>3. ASSUME LoadMap PROVE HoldsEnd'
  BY <1>3 DEF LoadMap, NewMap, MapMissing, clock
<1>4. ASSUME BeginTick PROVE HoldsEnd'
  BY <1>4 DEF BeginTick
<1>5. ASSUME BaseTick PROVE HoldsEnd'
  BY <1>5, TimingAssumption, TicksType DEF BaseTick, StartRound, ClockTypes
<1>6. ASSUME \/ AfkLogic \/ ChangeToEnqueuedMap \/ StartBombRound \/ NoStart \/ Burn \/ Bench
             \/ PlayerTicks
      PROVE  HoldsEnd'
  BY <1>6 DEF AfkLogic, ChangeToEnqueuedMap, StartBombRound, NoStart, Burn, Bench, PlayerTicks,
              clock
<1>7. ASSUME WinCheck \/ Refill PROVE HoldsEnd'
  BY <1>7, WarmupIsLonger DEF WinCheck, Refill, EndBombRound
<1>8. CASE UNCHANGED vars
  BY <1>8 DEF vars, clock
<1> QED BY <1>1, <1>2, <1>3, <1>4, <1>5, <1>6, <1>7, <1>8 DEF Next, ServerTick

(* A pause is never without the warmup that will lift it, as long as the      *)
(* admin sets neither: what PauseLifts rests on.                              *)
THEOREM HoldsAlwaysEnd ==
  ASSUME Rcon \cap {"pause", "restart"} = {}
  PROVE  Spec => []HoldsEnd
<1>1. Init => HoldsEnd
  BY DEF Init, HoldsEnd
<1>2. TypeOK /\ HoldsEnd /\ [Next]_vars => HoldsEnd'
  BY HoldsEndNext
<1> QED BY <1>1, <1>2, TypeCorrect, PTL DEF Spec

(* A round is never played during a warmup, a game over or a pause, as long   *)
(* as the admin neither pauses nor restarts the game.                         *)
THEOREM RoundsRunFree ==
  ASSUME Rcon \cap {"pause", "restart"} = {}
  PROVE  Spec => []RoundRunsFree
<1>1. Spec => []NoWarmupInRound
  BY NoWarmupAlways
<1>2. NoWarmupInRound /\ HoldsEnd => RoundRunsFree
  BY DEF NoWarmupInRound, HoldsEnd, RoundRunsFree
<1> QED BY <1>1, <1>2, HoldsAlwaysEnd, PTL

----------------------------------------------------------------------------
(* Who has a tee while a round is played.  An admin may send a spectator to   *)
(* the game's team without a new m_State (set_team), and a warmup keeps       *)
(* DoWinCheck from benching (restart); the team buttons ask for -1 or 0.      *)
FairArena == Rcon \cap {"set_team", "restart"} = {} /\ WantedTeams \subseteq {SPEC, FLOCK}

(* Spectators are on the spectators' side.                                    *)
WatchersSit == \A c \in Clients : state[c] \in {"NONE", "SPECTATING"} => team[c] = SPEC

(* Outside of DoWinCheck's loop the tees are the ALIVE ...                    *)
TeesLive ==
  roundActive /\ pc \notin {"refill", "fuse", "bench"} =>
    \A c \in Clients : chr[c] => state[c] = "ALIVE"

(* ... and after its tail nobody else is left to respawn.                     *)
OthersBenched ==
  roundActive /\ pc = "players" => \A c \in Clients : team[c] = FLOCK => state[c] = "ALIVE"

ArenaInv == WatchersSit /\ TeesLive /\ OthersBenched

LEMMA ArenaInit == Init => ArenaInv
BY DEF Init, ArenaInv, WatchersSit, TeesLive, OthersBenched

LEMMA ArenaNext ==
  ASSUME FairArena
  PROVE  TypeOK /\ SlotsInOrder /\ NoWarmupInRound /\ ArenaInv /\ [Next]_vars => ArenaInv'
<1> SUFFICES ASSUME TypeOK, SlotsInOrder, NoWarmupInRound, ArenaInv, [Next]_vars PROVE ArenaInv'
  OBVIOUS
<1> SlotTypes /\ TurnTypes /\ FlagTypes
  BY DEF TypeOK
<1> USE DEF SlotTypes, SPEC, FLOCK, WatchersSit, TeesLive, OthersBenched
<1>1. ASSUME NEW d \in Clients, Connect(d) PROVE ArenaInv'
  BY <1>1 DEF Connect, ArenaInv, SlotsInOrder, turn
<1>2. ASSUME NEW d \in Clients, Enter(d) PROVE ArenaInv'
  BY <1>2 DEF Enter, ArenaInv, SlotsInOrder, turn
<1>3. ASSUME NEW d \in Clients, Drop(d) PROVE ArenaInv'
  BY <1>3 DEF Drop, SeatGivenUp, ArenaInv, turn
<1>4. ASSUME NEW d \in Clients, NEW t \in WantedTeams, SetTeamMessage(d, t) PROVE ArenaInv'
  <2>1. t \in {-1, 0} /\ team[d] \in {-1, 0}
    BY DEF FairArena
  <2>2. WatchersSit'
    BY <1>4, <2>1 DEF SetTeamMessage, Judge, SetTeam, CanJoinTeam, ClampTeam, ArenaInv
  <2>3. TeesLive' /\ OthersBenched'
    BY <1>4, <2>1 DEF SetTeamMessage, Judge, SetTeam, CanJoinTeam, ClampTeam, ArenaInv,
                      SlotsInOrder, turn
  <2> QED BY <2>2, <2>3 DEF ArenaInv
<1>5. ASSUME NEW d \in Clients, NEW e \in Clients, Hit(d, e) PROVE ArenaInv'
  BY <1>5 DEF Hit, ArenaInv, seats, turn
<1>6. ASSUME NEW d \in Clients, Die(d) PROVE ArenaInv'
  <2>1. state' = Out({x \in {d} : Falls(x)}) /\ chr' = [chr EXCEPT ![d] = FALSE]
    BY <1>6 DEF Die
  <2>2. WatchersSit' /\ TeesLive'
    BY <1>6, <2>1 DEF Die, Out, Falls, ArenaInv, seats, turn
  <2>3. OthersBenched'
    BY <1>6 DEF Die, InPlay, turn
  <2> QED BY <2>2, <2>3 DEF ArenaInv
<1>7. ASSUME NEW d \in Clients, NEW t \in WantedTeams, ConSetTeam(d, t) PROVE ArenaInv'
  BY <1>7 DEF ConSetTeam, FairArena
<1>8. ASSUME Console PROVE ArenaInv'
  BY <1>8 DEF Console, ConPause, ConRestart, ConRestartIn, ConEnqueueMap, ArenaInv, seats, turn
<1>9. ASSUME LoadMap PROVE ArenaInv'
  BY <1>9 DEF LoadMap, NewMap, MapMissing, ArenaInv, seats, turn
<1>10. ASSUME BeginTick PROVE ArenaInv'
  BY <1>10 DEF BeginTick, OnReset, Retired, Out, InState, Goto, ArenaInv, seats
<1>11. ASSUME BaseTick \/ ChangeToEnqueuedMap \/ NoStart PROVE ArenaInv'
  BY <1>11 DEF BaseTick, ChangeToEnqueuedMap, NoStart, MapDue, Goto, ArenaInv, seats
<1>12. ASSUME AfkLogic PROVE ArenaInv'
  BY <1>12 DEF AfkLogic, Goto, ArenaInv
<1>13. ASSUME StartBombRound PROVE ArenaInv'
  BY <1>13 DEF StartBombRound, InState, Goto, ArenaInv, SlotsInOrder, States
<1>14. ASSUME WinCheck PROVE ArenaInv'
  BY <1>14 DEF WinCheck, EndBombRound, Retired, Out, InState, Goto, ArenaInv, seats
<1>15. ASSUME Refill PROVE ArenaInv'
  BY <1>15 DEF Refill, EndBombRound, Retired, Out, InState, Goto, ArenaInv, seats
<1>16. ASSUME Burn PROVE ArenaInv'
  <2>1. pc' \in {"refill", "bench"}
    BY <1>16 DEF Burn, NextSlot
  <2>2. state' = state \/ \E K : state' = Out(K)
    BY <1>16 DEF Burn, Explode
  <2>3. WatchersSit'
    BY <1>16, <2>2 DEF Burn, Out, seats, ArenaInv
  <2> QED BY <2>1, <2>3 DEF ArenaInv
<1>17. ASSUME Bench PROVE ArenaInv'
  <2>1. WatchersSit'
    BY <1>17 DEF Bench, ArenaInv
  <2>2. roundActive => \A c \in Clients : state[c] = "ACTIVE" => c \in Benched
    BY DEF Benched, InState, SlotsInOrder, NoWarmupInRound
  <2>3. \A c \in Clients : team[c] = FLOCK => state[c] \in {"ACTIVE", "ALIVE"}
    BY DEF ArenaInv, States
  <2>4. roundActive => \A c \in Clients : team'[c] = FLOCK => state[c] = "ALIVE"
    BY <1>17, <2>2, <2>3 DEF Bench
  <2>5. \A c \in Clients : chr'[c] => team'[c] = FLOCK
    BY <1>17 DEF Bench, SlotsInOrder
  <2>6. TeesLive' /\ OthersBenched'
    BY <1>17, <2>4, <2>5 DEF Bench
  <2> QED BY <2>1, <2>6 DEF ArenaInv
<1>18. ASSUME PlayerTicks PROVE ArenaInv'
  BY <1>18 DEF PlayerTicks, Goto, ArenaInv, seats
<1>19. CASE UNCHANGED vars
  BY <1>19 DEF vars, ArenaInv, seats, turn
<1> QED
  BY <1>1, <1>2, <1>3, <1>4, <1>5, <1>6, <1>7, <1>8, <1>9, <1>10, <1>11, <1>12,
     <1>13, <1>14, <1>15, <1>16, <1>17, <1>18, <1>19
     DEF Next, Clientele, ServerTick

LEMMA ArenaAlways == ASSUME FairArena PROVE Spec => []ArenaInv
<1>1. TypeOK /\ SlotsInOrder /\ NoWarmupInRound /\ ArenaInv /\ [Next]_vars => ArenaInv'
  BY ArenaNext
<1>2. Spec => []NoWarmupInRound
  BY NoWarmupAlways DEF FairArena
<1> QED BY <1>1, <1>2, ArenaInit, TypeCorrect, SlotsAlwaysInOrder, PTL DEF Spec

(* OnTakeDamage can hand a bomb to whoever is hit: during a round every tee   *)
(* that can hit or be hit is ALIVE.                                           *)
THEOREM OnlyTheLivingInTheArena == ASSUME FairArena PROVE Spec => []ArenaIsForTheLiving
<1>1. ArenaInv => ArenaIsForTheLiving
  BY DEF ArenaInv, TeesLive, ArenaIsForTheLiving
<1> QED BY <1>1, ArenaAlways, PTL

----------------------------------------------------------------------------
(* The ledger of a round.                                                     *)

(* A bomb that can still go off sits with somebody who is not recorded yet.   *)
BombsUnrecorded ==
  roundActive \/ pc \in {"refill", "fuse"} => \A c \in Bombs : saves[c] = 0

LedgerInv == RecordedOnce /\ BombsUnrecorded

(* SaveStats of slots that are not recorded leaves the ledger in order.       *)
LEMMA SaveOnce ==
  ASSUME SlotTypes, RecordedOnce, NEW K, SaveStats(K), UNCHANGED award,
         \A c \in K \cap Clients : saves[c] = 0 /\ award[c] = 0
  PROVE  RecordedOnce'
BY DEF SlotTypes, RecordedOnce, SaveStats

LEMMA LedgerInit == Init => LedgerInv
BY DEF Init, LedgerInv, RecordedOnce, BombsUnrecorded, Bombs

LEMMA LedgerNext ==
  ASSUME FairArena, ~CollateralDamage
  PROVE  TypeOK /\ AliveUnrecorded /\ ArenaInv /\ LedgerInv /\ [Next]_vars => LedgerInv'
<1> SUFFICES ASSUME TypeOK, AliveUnrecorded, ArenaInv, LedgerInv, [Next]_vars PROVE LedgerInv'
  OBVIOUS
<1> SlotTypes /\ TurnTypes /\ FlagTypes /\ RecordedOnce /\ BombsUnrecorded
  BY DEF TypeOK, LedgerInv
<1> USE DEF SlotTypes, RecordedOnce, BombsUnrecorded, Bombs, InState
<1>1. ASSUME NEW d \in Clients, Connect(d) \/ Enter(d) PROVE LedgerInv'
  BY <1>1 DEF Connect, Enter, LedgerInv, ledger, turn
<1>2. ASSUME NEW d \in Clients, Drop(d) PROVE LedgerInv'
  BY <1>2 DEF Drop, Disarmed, LedgerInv, turn
<1>3. ASSUME NEW d \in Clients, NEW t \in WantedTeams, SetTeamMessage(d, t) PROVE LedgerInv'
  BY <1>3 DEF SetTeamMessage, Judge, LedgerInv, ledger, turn
<1>4. ASSUME NEW d \in Clients, NEW e \in Clients, Hit(d, e) PROVE LedgerInv'
  <2>1. roundActive => saves[e] = 0
    BY <1>4 DEF Hit, InPlay, ArenaInv, TeesLive, AliveUnrecorded
  <2>2. \A c \in Clients \ {e} : fuse'[c] # NoBomb => fuse[c] # NoBomb
    BY <1>4 DEF Hit, Pass, Damage
  <2> QED BY <1>4, <2>1, <2>2 DEF Hit, InPlay, LedgerInv, ledger, turn
<1>5. ASSUME NEW d \in Clients, Die(d) PROVE LedgerInv'
  <2>1. \A c \in {x \in {d} : Falls(x)} : saves[c] = 0 /\ award[c] = 0
    BY DEF Falls, AliveUnrecorded
  <2>2. RecordedOnce'
    BY <1>5, <2>1, SaveOnce DEF Die
  <2>3. BombsUnrecorded'
    BY <1>5 DEF Die, Disarmed, SaveStats, turn
  <2> QED BY <2>2, <2>3 DEF LedgerInv
<1>6. ASSUME NEW d \in Clients, NEW t \in WantedTeams, ConSetTeam(d, t) PROVE LedgerInv'
  BY <1>6 DEF ConSetTeam, FairArena
<1>7. ASSUME Console PROVE LedgerInv'
  BY <1>7 DEF Console, ConPause, ConRestart, ConRestartIn, ConEnqueueMap, LedgerInv, ledger, turn
<1>8. ASSUME LoadMap PROVE LedgerInv'
  BY <1>8 DEF LoadMap, NewMap, MapMissing, LedgerInv, ledger, turn
<1>9. ASSUME BeginTick PROVE LedgerInv'
  BY <1>9 DEF BeginTick, OnReset, Disarmed, Goto, LedgerInv, ledger
<1>10. ASSUME BaseTick \/ ChangeToEnqueuedMap \/ NoStart \/ Bench \/ PlayerTicks
       PROVE  LedgerInv'
  BY <1>10 DEF BaseTick, ChangeToEnqueuedMap, NoStart, Bench, PlayerTicks, Goto, LedgerInv, ledger
<1>11. ASSUME AfkLogic PROVE LedgerInv'
  <2>1. PICK K \in SUBSET Clients : fuse' = Disarmed({c \in K : Falls(c)})
                                    /\ SaveStats({c \in K : Falls(c)})
    BY <1>11 DEF AfkLogic
  <2>2. \A c \in {x \in K : Falls(x)} : saves[c] = 0 /\ award[c] = 0
    BY DEF Falls, AliveUnrecorded
  <2>3. RecordedOnce'
    BY <1>11, <2>1, <2>2, SaveOnce DEF AfkLogic
  <2>4. BombsUnrecorded'
    BY <1>11, <2>1 DEF AfkLogic, Disarmed, SaveStats, Goto
  <2> QED BY <2>3, <2>4 DEF LedgerInv
<1>12. ASSUME StartBombRound PROVE LedgerInv'
  BY <1>12 DEF StartBombRound, LedgerInv
<1>13. ASSUME EndBombRound, roundActive PROVE LedgerInv'
  <2> DEFINE winner == {c \in InState("ALIVE") : \A d \in InState("ALIVE") : c <= d}
  <2>1. /\ award' = [c \in Clients |-> IF c \in winner THEN 1 ELSE award[c]]
        /\ SaveStats(winner) /\ fuse' = Disarmed(InState("ALIVE"))
    BY <1>13 DEF EndBombRound
  <2>2. \A c \in winner : state[c] = "ALIVE" /\ saves[c] = 0
    BY DEF AliveUnrecorded
  <2> HIDE DEF winner
  <2>3. RecordedOnce'
    BY <2>1, <2>2 DEF SaveStats
  <2>4. BombsUnrecorded'
    BY <1>13, <2>1, <2>2 DEF SaveStats, Disarmed
  <2> QED BY <2>3, <2>4 DEF LedgerInv
<1>14. ASSUME WinCheck PROVE LedgerInv'
  <2>1. CASE roundActive /\ Decided
    BY <1>13, <1>14, <2>1 DEF WinCheck
  <2>2. CASE ~(roundActive /\ Decided)
    BY <1>14, <2>2 DEF WinCheck, Goto, LedgerInv, ledger
  <2> QED BY <2>1, <2>2
<1>15. ASSUME Refill PROVE LedgerInv'
  <2>1. CASE EndBombRound /\ roundActive
    BY <1>13, <2>1
  <2>2. CASE ~(EndBombRound /\ roundActive)
    <3>1. UNCHANGED ledger /\ pc' = "fuse"
      BY <1>15, <2>2 DEF Refill, Goto
    <3>2. RecordedOnce'
      BY <3>1 DEF ledger
    <3>3. \A c \in Clients : fuse'[c] # NoBomb => fuse[c] # NoBomb \/ state[c] = "ALIVE"
      BY <1>15, <2>2 DEF Refill
    <3>4. BombsUnrecorded'
      BY <1>15, <3>1, <3>3 DEF Refill, ledger, AliveUnrecorded
    <3> QED BY <3>2, <3>4 DEF LedgerInv
  <2> QED BY <2>1, <2>2
<1>16. ASSUME Burn PROVE LedgerInv'
  <2>1. CASE fuse[idx] # NoBomb /\ fuse[idx] <= 0 /\ Player(idx)
    <3>1. fuse' = Disarmed({idx}) /\ SaveStats({idx}) /\ UNCHANGED award
      BY <1>16, <2>1 DEF Burn, Explode, InBlast
    <3>2. idx \in Clients /\ saves[idx] = 0 /\ award[idx] = 0
      BY <1>16, <2>1 DEF Burn, TurnTypes
    <3>3. RecordedOnce'
      BY <3>1, <3>2, SaveOnce
    <3>4. BombsUnrecorded'
      BY <1>16, <3>1 DEF Burn, Disarmed, SaveStats
    <3> QED BY <3>3, <3>4 DEF LedgerInv
  <2>2. CASE ~(fuse[idx] # NoBomb /\ fuse[idx] <= 0 /\ Player(idx))
    <3>1. UNCHANGED ledger
      BY <1>16, <2>2 DEF Burn, ledger
    <3>2. \A c \in Clients : fuse'[c] # NoBomb => fuse[c] # NoBomb
      BY <1>16, <2>2 DEF Burn
    <3> QED BY <1>16, <3>1, <3>2 DEF Burn, LedgerInv, ledger
  <2> QED BY <2>1, <2>2
<1>17. CASE UNCHANGED vars
  BY <1>17 DEF vars, LedgerInv, ledger, turn
<1> QED
  BY <1>1, <1>2, <1>3, <1>4, <1>5, <1>6, <1>7, <1>8, <1>9, <1>10, <1>11, <1>12,
     <1>14, <1>15, <1>16, <1>17
     DEF Next, Clientele, ServerTick

LEMMA LedgerAlways == ASSUME FairArena, ~CollateralDamage PROVE Spec => []LedgerInv
<1>1. TypeOK /\ AliveUnrecorded /\ ArenaInv /\ LedgerInv /\ [Next]_vars => LedgerInv'
  BY LedgerNext
<1>2. Spec => []ArenaInv
  BY ArenaAlways
<1> QED BY <1>1, <1>2, LedgerInit, TheLivingAreUnrecorded, TypeCorrect, PTL DEF Spec

(* Every player is recorded at most once a round, and whoever got the point   *)
(* has been recorded, though EliminatePlayer does not look at m_State: in a   *)
(* fair arena and without collateral damage nobody who is out gets a bomb.    *)
THEOREM EverybodyRecordedOnce ==
  ASSUME FairArena, ~CollateralDamage
  PROVE  Spec => []RecordedOnce
<1>1. LedgerInv => RecordedOnce
  BY DEF LedgerInv
<1> QED BY <1>1, LedgerAlways, PTL

----------------------------------------------------------------------------
(* Spectators, here and on their way to the next map.                         *)

(* What was persisted waits for a client that loads the map ...               *)
RejoinersLoad == \A c \in rejoin : seat[c] = "loading"

(* ... and a spectator has no bomb: it would be put back into the game by the *)
(* explosion.                                                                 *)
WithdrawnUnarmed == \A c \in Clients : Withdrawn(c) => fuse[c] = NoBomb

SidesInv == RejoinersLoad /\ WithdrawnUnarmed

LEMMA SidesInit == Init => SidesInv
BY DEF Init, SidesInv, RejoinersLoad, WithdrawnUnarmed

LEMMA RejoinersNext == TypeOK /\ SlotsInOrder /\ RejoinersLoad /\ [Next]_vars => RejoinersLoad'
<1> SUFFICES ASSUME TypeOK, SlotsInOrder, RejoinersLoad, [Next]_vars PROVE RejoinersLoad'
  OBVIOUS
<1> SlotTypes /\ TurnTypes
  BY DEF TypeOK
<1> USE DEF SlotTypes, TurnTypes, RejoinersLoad
<1>1. ASSUME NEW d \in Clients, Connect(d) \/ Enter(d) \/ Drop(d) PROVE RejoinersLoad'
  BY <1>1 DEF Connect, Enter, Drop, maps
<1>2. ASSUME NEW d \in Clients, NEW t \in WantedTeams, SetTeamMessage(d, t) \/ ConSetTeam(d, t)
      PROVE  RejoinersLoad'
  BY <1>2 DEF SetTeamMessage, ConSetTeam, maps
<1>3. ASSUME NEW d \in Clients, NEW e \in Clients, Hit(d, e) \/ Die(d) PROVE RejoinersLoad'
  BY <1>3 DEF Hit, Die, seats, maps
<1>4. ASSUME Console PROVE RejoinersLoad'
  BY <1>4 DEF Console, ConPause, ConRestart, ConRestartIn, ConEnqueueMap, seats, maps
<1>5. ASSUME LoadMap PROVE RejoinersLoad'
  BY <1>5 DEF LoadMap, NewMap, MapMissing, Persisted, seats
<1>6. ASSUME ServerTick PROVE RejoinersLoad'
  BY <1>6 DEF ServerTick, BeginTick, BaseTick, AfkLogic, ChangeToEnqueuedMap, StartBombRound,
              NoStart, WinCheck, Refill, Burn, Bench, PlayerTicks, seats, maps
<1>7. CASE UNCHANGED vars
  BY <1>7 DEF vars, seats, maps
<1> QED BY <1>1, <1>2, <1>3, <1>4, <1>5, <1>6, <1>7 DEF Next, Clientele

(* A spectator has neither a tee nor a share in a round.                      *)
LEMMA WithdrawnApart ==
  ASSUME TypeOK, SlotsInOrder, ArenaInv, RejoinersLoad, NEW c \in Clients, Withdrawn(c)
  PROVE  ~chr[c] /\ state[c] \in {"NONE", "SPECTATING"}
<1>1. state[c] \in {"NONE", "SPECTATING"}
  BY DEF Withdrawn, RejoinersLoad, SlotsInOrder, Player
<1>2. team[c] = SPEC
  BY <1>1 DEF ArenaInv, WatchersSit
<1> QED BY <1>1, <1>2 DEF SlotsInOrder, SPEC, FLOCK, TypeOK, SlotTypes


LEMMA SidesNext ==
  ASSUME FairArena
  PROVE  TypeOK /\ SlotsInOrder /\ ArenaInv /\ SidesInv /\ [Next]_vars => SidesInv'
<1> SUFFICES ASSUME TypeOK, SlotsInOrder, ArenaInv, SidesInv, [Next]_vars,
                    NEW c \in Clients, Withdrawn(c)'
             PROVE  fuse'[c] = NoBomb
  BY RejoinersNext DEF SidesInv, WithdrawnUnarmed
<1> SlotTypes /\ TurnTypes /\ RejoinersLoad /\ (Withdrawn(c) => fuse[c] = NoBomb)
  BY DEF TypeOK, SidesInv, WithdrawnUnarmed
<1> Withdrawn(c) => ~chr[c] /\ state[c] \in {"NONE", "SPECTATING"}
  BY WithdrawnApart
<1> USE DEF SlotTypes
<1>1. ASSUME NEW d \in Clients, Connect(d) PROVE fuse'[c] = NoBomb
  <2>1. Withdrawn(c)
    BY <1>1 DEF Connect, Withdrawn
  <2> QED BY <1>1, <2>1 DEF Connect
<1>2. ASSUME NEW d \in Clients, Enter(d) PROVE fuse'[c] = NoBomb
  <2>1. Withdrawn(c)
    BY <1>2 DEF Enter, Withdrawn, maps, SlotsInOrder, SPEC, FLOCK, States
  <2> QED BY <1>2, <2>1 DEF Enter
<1>3. ASSUME NEW d \in Clients, Drop(d) PROVE fuse'[c] = NoBomb
  <2>1. Withdrawn(c)
    BY <1>3 DEF Drop, SeatGivenUp, Withdrawn, TurnTypes
  <2> QED BY <1>3, <2>1 DEF Drop, Disarmed
<1>4. ASSUME NEW d \in Clients, NEW t \in WantedTeams, SetTeamMessage(d, t)
      PROVE  fuse'[c] = NoBomb
  <2>1. CASE c = d
    BY <1>4, <2>1 DEF SetTeamMessage, Judge, Withdrawn, maps, RejoinersLoad
  <2>2. CASE c # d
    BY <1>4, <2>2 DEF SetTeamMessage, Judge, Withdrawn, maps
  <2> QED BY <2>1, <2>2
<1>5. ASSUME NEW d \in Clients, NEW e \in Clients, Hit(d, e) PROVE fuse'[c] = NoBomb
  <2>1. Withdrawn(c) /\ c # e
    BY <1>5 DEF Hit, Withdrawn, seats, maps
  <2>2. fuse'[c] = NoBomb \/ fuse'[c] = fuse[c]
    BY <1>5, <2>1 DEF Hit, Pass, Damage
  <2> QED BY <2>1, <2>2
<1>6. ASSUME NEW d \in Clients, Die(d) PROVE fuse'[c] = NoBomb
  <2>1. Withdrawn(c)
    BY <1>6 DEF Die, Out, Falls, Withdrawn, seats, maps
  <2> QED BY <1>6, <2>1 DEF Die, Disarmed
<1>7. ASSUME NEW d \in Clients, NEW t \in WantedTeams, ConSetTeam(d, t) PROVE FALSE
  BY <1>7 DEF ConSetTeam, FairArena
<1>8. ASSUME Console PROVE fuse'[c] = NoBomb
  <2>1. Withdrawn(c)
    BY <1>8 DEF Console, ConPause, ConRestart, ConRestartIn, ConEnqueueMap, Withdrawn, seats, maps
  <2> QED BY <1>8, <2>1 DEF Console, ConPause, ConRestart, ConRestartIn, ConEnqueueMap
<1>9. ASSUME LoadMap PROVE fuse'[c] = NoBomb
  BY <1>9 DEF LoadMap, NewMap, MapMissing, Withdrawn, seats
<1>10. ASSUME BeginTick PROVE fuse'[c] = NoBomb
  <2>1. Withdrawn(c)
    BY <1>10 DEF BeginTick, OnReset, Retired, Out, InState, Withdrawn, seats, maps
  <2> QED BY <1>10, <2>1 DEF BeginTick, OnReset, Disarmed
<1>11. ASSUME BaseTick \/ ChangeToEnqueuedMap \/ NoStart \/ Bench \/ PlayerTicks
       PROVE  fuse'[c] = NoBomb
  <2>1. Withdrawn(c)
    BY <1>11 DEF BaseTick, ChangeToEnqueuedMap, NoStart, Bench, PlayerTicks, Withdrawn, seats, maps
  <2> QED BY <1>11, <2>1 DEF BaseTick, ChangeToEnqueuedMap, NoStart, Bench, PlayerTicks
<1>12. ASSUME AfkLogic PROVE fuse'[c] = NoBomb
  <2>1. PICK K \in SUBSET {d \in Clients : roundActive /\ chr[d] /\ state[d] # "SPECTATING"} :
          /\ state' = [d \in Clients |-> IF d \in K THEN "SPECTATING" ELSE state[d]]
          /\ fuse' = Disarmed({d \in K : Falls(d)})
    BY <1>12 DEF AfkLogic
  <2>2. CASE c \in K
    <3>1. Falls(c)
      BY <1>12, <2>2 DEF AfkLogic, ArenaInv, TeesLive, Falls
    <3> QED BY <2>1, <2>2, <3>1 DEF Disarmed
  <2>3. CASE c \notin K
    <3>1. Withdrawn(c)
      BY <1>12, <2>1, <2>3 DEF AfkLogic, Withdrawn, maps
    <3> QED BY <2>1, <3>1 DEF Disarmed
  <2> QED BY <2>2, <2>3
<1>13. ASSUME StartBombRound PROVE fuse'[c] = NoBomb
  <2>1. Withdrawn(c)
    BY <1>13 DEF StartBombRound, InState, Withdrawn, maps
  <2> QED BY <1>13, <2>1 DEF StartBombRound, InState
<1>14. ASSUME WinCheck PROVE fuse'[c] = NoBomb
  <2>1. Withdrawn(c)
    BY <1>14 DEF WinCheck, EndBombRound, Retired, Out, InState, Withdrawn, seats, maps
  <2> QED BY <1>14, <2>1 DEF WinCheck, EndBombRound, Disarmed
<1>15. ASSUME Refill PROVE fuse'[c] = NoBomb
  <2>1. Withdrawn(c)
    BY <1>15 DEF Refill, EndBombRound, Retired, Out, InState, Withdrawn, seats, maps
  <2> QED BY <1>15, <2>1 DEF Refill, EndBombRound, Disarmed, InState
<1>16. ASSUME Burn PROVE fuse'[c] = NoBomb
  <2>1. Withdrawn(c)
    BY <1>16 DEF Burn, Explode, Out, Withdrawn, seats, maps
  <2> QED BY <1>16, <2>1 DEF Burn, Explode, Disarmed
<1>17. ASSUME UNCHANGED vars PROVE fuse'[c] = NoBomb
  BY <1>17 DEF vars, Withdrawn, seats, maps
<1> QED
  BY <1>1, <1>2, <1>3, <1>4, <1>5, <1>6, <1>7, <1>8, <1>9, <1>10, <1>11, <1>12,
     <1>13, <1>14, <1>15, <1>16, <1>17
     DEF Next, Clientele, ServerTick

(* Whom a step finds on the spectators' side it leaves there.                 *)
LEMMA StaysNext ==
  ASSUME FairArena, TypeOK, SlotsInOrder, ArenaInv, SidesInv, [Next]_vars,
         NEW c \in Clients, Withdrawn(c)
  PROVE  Withdrawn(c)' \/ Asked(c) \/ CaughtByNewMap(c)
<1> SlotTypes /\ TurnTypes /\ RejoinersLoad /\ fuse[c] = NoBomb
  BY DEF TypeOK, SidesInv, WithdrawnUnarmed
<1> ~chr[c] /\ state[c] \in {"NONE", "SPECTATING"}
  BY WithdrawnApart
<1> USE DEF SlotTypes
<1>1. ASSUME NEW d \in Clients, Connect(d) PROVE Withdrawn(c)'
  <2>1. seat[d] \notin {"ready", "ingame"}
    BY <1>1 DEF Connect
  <2>2. state[d] = "NONE"
    BY <2>1 DEF SlotsInOrder, Player
  <2>3. CASE c = d
    <3>1. c \in rejoin
      BY <2>1, <2>2, <2>3 DEF Withdrawn
    <3> QED BY <1>1, <2>2, <2>3, <3>1 DEF Connect, Withdrawn
  <2>4. CASE c # d
    BY <1>1, <2>4 DEF Connect, Withdrawn
  <2> QED BY <2>3, <2>4
<1>2. ASSUME NEW d \in Clients, Enter(d) PROVE Withdrawn(c)'
  <2>1. team[c] = SPEC
    BY DEF ArenaInv, WatchersSit
  <2> QED BY <1>2, <2>1 DEF Enter, Withdrawn, maps, RejoinersLoad
<1>3. ASSUME NEW d \in Clients, Drop(d) PROVE Withdrawn(c)' \/ Asked(c)
  BY <1>3 DEF Drop, SeatGivenUp, Withdrawn, Asked
<1>4. ASSUME NEW d \in Clients, NEW t \in WantedTeams, SetTeamMessage(d, t)
      PROVE  Withdrawn(c)' \/ Asked(c)
  <2>1. CASE c = d
    BY <1>4, <2>1 DEF Asked
  <2>2. CASE c # d
    BY <1>4, <2>2 DEF SetTeamMessage, Judge, Withdrawn, maps
  <2> QED BY <2>1, <2>2
<1>5. ASSUME NEW d \in Clients, NEW e \in Clients, Hit(d, e) PROVE Withdrawn(c)'
  BY <1>5 DEF Hit, Withdrawn, seats, maps
<1>6. ASSUME NEW d \in Clients, Die(d) PROVE Withdrawn(c)'
  BY <1>6 DEF Die, Out, Falls, Withdrawn, seats, maps
<1>7. ASSUME NEW d \in Clients, NEW t \in WantedTeams, ConSetTeam(d, t) PROVE FALSE
  BY <1>7 DEF ConSetTeam, FairArena
<1>8. ASSUME Console PROVE Withdrawn(c)'
  BY <1>8 DEF Console, ConPause, ConRestart, ConRestartIn, ConEnqueueMap, Withdrawn, seats, maps
<1>9. ASSUME MapMissing PROVE Withdrawn(c)'
  BY <1>9 DEF MapMissing, Withdrawn, seats
<1>10. ASSUME NewMap PROVE Withdrawn(c)' \/ CaughtByNewMap(c)
  <2>1. CASE seat[c] = "ready"
    BY <1>10, <2>1 DEF CaughtByNewMap
  <2>2. CASE seat[c] # "ready"
    <3>1. c \in Persisted
      BY <2>2 DEF Persisted, Withdrawn, RejoinersLoad, SlotsInOrder, Player
    <3> QED BY <1>10, <3>1 DEF NewMap, Withdrawn
  <2> QED BY <2>1, <2>2
<1>11. ASSUME BeginTick PROVE Withdrawn(c)'
  BY <1>11 DEF BeginTick, OnReset, Retired, Out, InState, Withdrawn, seats, maps
<1>12. ASSUME BaseTick \/ ChangeToEnqueuedMap \/ NoStart \/ Bench \/ PlayerTicks
       PROVE  Withdrawn(c)'
  BY <1>12 DEF BaseTick, ChangeToEnqueuedMap, NoStart, Bench, PlayerTicks, Withdrawn, seats, maps
<1>13. ASSUME AfkLogic PROVE Withdrawn(c)'
  BY <1>13 DEF AfkLogic, Withdrawn, maps
<1>14. ASSUME StartBombRound PROVE Withdrawn(c)'
  BY <1>14 DEF StartBombRound, InState, Withdrawn, maps
<1>15. ASSUME WinCheck \/ Refill PROVE Withdrawn(c)'
  BY <1>15 DEF WinCheck, Refill, EndBombRound, Retired, Out, InState, Withdrawn, seats, maps
<1>16. ASSUME Burn PROVE Withdrawn(c)'
  <2>1. CASE fuse[idx] # NoBomb /\ fuse[idx] <= 0 /\ Player(idx)
    <3>1. PICK caught \in SUBSET InBlast(idx) : Explode(idx, caught)
      BY <1>16, <2>1 DEF Burn
    <3>2. c # idx /\ c \notin caught
      BY <2>1 DEF InBlast
    <3> QED BY <1>16, <3>1, <3>2 DEF Burn, Explode, Out, Withdrawn, seats, maps
  <2>2. CASE ~(fuse[idx] # NoBomb /\ fuse[idx] <= 0 /\ Player(idx))
    BY <1>16, <2>2 DEF Burn, Withdrawn, seats, maps
  <2> QED BY <2>1, <2>2
<1>17. CASE UNCHANGED vars
  BY <1>17 DEF vars, Withdrawn, seats, maps
<1> QED
  BY <1>1, <1>2, <1>3, <1>4, <1>5, <1>6, <1>7, <1>8, <1>9, <1>10, <1>11, <1>12,
     <1>13, <1>14, <1>15, <1>16, <1>17
     DEF Next, Clientele, ServerTick, LoadMap

(* Nobody is drawn into the game who watches, also over a change of the map,  *)
(* a blast or a bomb that somebody left behind: in a fair arena a spectator   *)
(* is never given a bomb, which alone would make a player of it.              *)
THEOREM SpectatorsAreLeftAlone == ASSUME FairArena PROVE Spec => SpectatorsStay
<1>1. TypeOK /\ SlotsInOrder /\ ArenaInv /\ SidesInv /\ [Next]_vars => SidesInv'
  BY SidesNext
<1>2. TypeOK /\ SlotsInOrder /\ ArenaInv /\ SidesInv /\ [Next]_vars =>
        [\A c \in Clients :
           Withdrawn(c) => Withdrawn(c)' \/ Asked(c) \/ CaughtByNewMap(c)]_vars
  BY StaysNext
<1>3. Spec => []ArenaInv
  BY ArenaAlways
<1> QED BY <1>1, <1>2, <1>3, SidesInit, TypeCorrect, SlotsAlwaysInOrder, PTL DEF Spec, SpectatorsStay

----------------------------------------------------------------------------
(* The fuses of a round.                                                      *)

(* Between two picks no bomb has longer than the longest one had before.      *)
FusesRunDown ==
  [][pc \notin {"start", "refill"} =>
       \A c \in Clients : fuse'[c] # NoBomb =>
         \E d \in Clients : fuse[d] # NoBomb /\ fuse'[c] <= fuse[d]]_vars

(* With a minimum on the timer a pass may give time back (AtLeastMin), and    *)
(* RoundEnds does not hold.                                                   *)
THEOREM PassesGiveNoTime == ASSUME MinSeconds = 0 PROVE Spec => FusesRunDown
<1>1. TypeOK /\ [Next]_vars =>
        [pc \notin {"start", "refill"} =>
           \A c \in Clients : fuse'[c] # NoBomb =>
             \E d \in Clients : fuse[d] # NoBomb /\ fuse'[c] <= fuse[d]]_vars
  <2> SUFFICES ASSUME TypeOK, Next, pc \notin {"start", "refill"},
                      NEW c \in Clients, fuse'[c] # NoBomb
               PROVE  \E d \in Clients : fuse[d] # NoBomb /\ fuse'[c] <= fuse[d]
    OBVIOUS
  <2> SlotTypes /\ TurnTypes /\ NoBomb \notin Int /\ LongestFuse \in Nat
    BY FuseTypes, NoBombAssumption DEF TypeOK
  <2>1. \A d \in Clients : fuse[d] # NoBomb => fuse[d] \in Int /\ fuse[d] >= -1
    BY DEF SlotTypes
  <2>2. ASSUME NEW d \in Clients, fuse'[c] = fuse[d]
        PROVE  \E e \in Clients : fuse[e] # NoBomb /\ fuse'[c] <= fuse[e]
    BY <2>1, <2>2
  <2>3. ASSUME NEW n \in Nat, fuse[c] # NoBomb, fuse'[c] = Shorten(fuse[c], n)
        PROVE  \E e \in Clients : fuse[e] # NoBomb /\ fuse'[c] <= fuse[e]
    BY <2>1, <2>3 DEF Shorten
  <2>4. ASSUME NEW K, fuse' = Disarmed(K) PROVE fuse'[c] = fuse[c]
    BY <2>4 DEF Disarmed
  <2>5. ASSUME NEW d \in Clients, NEW e \in Clients, Hit(d, e)
        PROVE  \E x \in Clients : fuse[x] # NoBomb /\ fuse'[c] <= fuse[x]
    <3>1. CASE Pass(d, e)
      <4>1. fuse' = [fuse EXCEPT ![d] = NoBomb, ![e] = fuse[d]]
        BY <3>1 DEF Pass, AtLeastMin
      <4>2. fuse'[c] = fuse[c] \/ fuse'[c] = fuse[d]
        BY <4>1 DEF SlotTypes
      <4> QED BY <2>2, <4>2
    <3>2. CASE Damage(d, e)
      <4>1. Ticks(BombDamage) \in Nat
        BY TicksType, TimingAssumption
      <4>2. CASE c = e
        BY <2>3, <3>2, <4>1, <4>2 DEF Damage, SlotTypes
      <4>3. CASE c # e
        BY <2>2, <3>2, <4>3 DEF Damage, SlotTypes
      <4> QED BY <4>2, <4>3
    <3> QED BY <2>5, <3>1, <3>2 DEF Hit
  <2>6. ASSUME NEW d \in Clients, NEW t \in WantedTeams, SetTeamMessage(d, t)
        PROVE  fuse'[c] = fuse[c]
    BY <2>6 DEF SetTeamMessage, Judge, SlotTypes
  <2>7. ASSUME NEW d \in Clients, Connect(d) \/ Enter(d) \/ Drop(d) \/ Die(d)
        PROVE  fuse'[c] = fuse[c]
    BY <2>4, <2>7 DEF Connect, Enter, Drop, Die
  <2>8. ASSUME NEW d \in Clients, NEW t \in WantedTeams, ConSetTeam(d, t)
        PROVE  fuse'[c] = fuse[c]
    BY <2>4, <2>8 DEF ConSetTeam
  <2>9. ASSUME Console PROVE fuse'[c] = fuse[c]
    BY <2>9 DEF Console, ConPause, ConRestart, ConRestartIn, ConEnqueueMap
  <2>10. ASSUME LoadMap PROVE fuse'[c] = fuse[c]
    BY <2>10 DEF LoadMap, NewMap, MapMissing
  <2>11. ASSUME BeginTick \/ BaseTick \/ AfkLogic \/ Bench \/ PlayerTicks \/ WinCheck
         PROVE  fuse'[c] = fuse[c]
    BY <2>4, <2>11
       DEF BeginTick, OnReset, BaseTick, AfkLogic, Bench, PlayerTicks, WinCheck, EndBombRound
  <2>12. ASSUME Burn PROVE \E d \in Clients : fuse[d] # NoBomb /\ fuse'[c] <= fuse[d]
    <3>1. CASE fuse[idx] # NoBomb /\ fuse[idx] <= 0 /\ Player(idx)
      BY <2>2, <2>4, <2>12, <3>1 DEF Burn, Explode
    <3>2. CASE ~(fuse[idx] # NoBomb /\ fuse[idx] <= 0 /\ Player(idx))
      <4>1. fuse' = [fuse EXCEPT ![idx] = IF @ = NoBomb THEN NoBomb ELSE Shorten(fuse[idx], 1)]
        BY <2>12, <3>2 DEF Burn, Burnt
      <4>2. CASE c = idx
        BY <2>3, <4>1, <4>2 DEF SlotTypes
      <4>3. CASE c # idx
        BY <2>2, <4>1, <4>3 DEF SlotTypes
      <4> QED BY <4>2, <4>3
    <3> QED BY <3>1, <3>2
  <2>13. ASSUME ChangeToEnqueuedMap \/ StartBombRound \/ NoStart \/ Refill PROVE FALSE
    BY <2>13 DEF ChangeToEnqueuedMap, StartBombRound, NoStart, Refill
  <2> QED
    BY <2>2, <2>5, <2>6, <2>7, <2>8, <2>9, <2>10, <2>11, <2>12, <2>13
       DEF Next, Clientele, ServerTick
<1> QED BY <1>1, TypeCorrect, PTL DEF Spec, FusesRunDown
=============================================================================
