---------------------------- MODULE BombTag_proof ----------------------------
(* Theorems of BombTag, for every number of slots and every configuration.  *)
EXTENDS BombTag, FiniteSetTheorems, TLAPS

(* A number of seconds is a number of ticks, and more seconds are more ticks. *)
LEMMA TicksType == ASSUME NEW s \in Nat PROVE Ticks(s) \in Nat
BY TimingAssumption DEF Ticks

LEMMA TicksMonotone ==
  ASSUME NEW s \in Nat, NEW r \in 0 .. s PROVE Ticks(r) \in 0 .. Ticks(s)
<1>1. PICK d \in Nat : s = r + d
  <2> s - r \in Nat /\ s = r + (s - r)
    OBVIOUS
  <2> QED OBVIOUS
<1>2. s * TickSpeed = r * TickSpeed + d * TickSpeed
  BY <1>1, TimingAssumption
<1> QED BY <1>1, <1>2, TicksType DEF Ticks

LEMMA FuseTypes ==
  /\ FuseTicks \in 0 .. LongestFuse
  /\ MinTicks \in 0 .. LongestFuse
  /\ LongestFuse \in Nat
BY TimingAssumption, TicksType DEF FuseTicks, MinTicks, LongestFuse

(* Operators that build the next value of a variable keep its type. *)
LEMMA HelperTypes ==
  ASSUME SlotTypes
  PROVE  /\ \A K : Disarmed(K) \in [Clients -> (-1 .. LongestFuse) \cup {NoBomb}]
         /\ \A K : Out(K) \in [Clients -> States]
         /\ Retired \in [Clients -> States]
         /\ \A K : SaveStats(K) => saves' \in [Clients -> 0 .. 2]
         /\ \A f \in -1 .. LongestFuse, n \in Nat : Shorten(f, n) \in -1 .. LongestFuse
<1>1. \A K : Disarmed(K) \in [Clients -> (-1 .. LongestFuse) \cup {NoBomb}]
  BY DEF SlotTypes, Disarmed
<1>2. \A K : Out(K) \in [Clients -> States]
  BY DEF SlotTypes, Out, States
<1>3. \A K : SaveStats(K) => saves' \in [Clients -> 0 .. 2]
  BY DEF SlotTypes, SaveStats
<1>4. \A f \in -1 .. LongestFuse, n \in Nat : Shorten(f, n) \in -1 .. LongestFuse
  BY FuseTypes DEF Shorten
<1> QED BY <1>1, <1>2, <1>3, <1>4 DEF Retired

(* The constants the actions assign have the types of their variables. *)
LEMMA ConstantTypes ==
  /\ 0 \in Clients /\ SPEC \in {SPEC, FLOCK} /\ FLOCK \in {SPEC, FLOCK}
  /\ Ticks(WarmupSeconds) \in Nat /\ Ticks(GameOverSeconds) \in Nat
  /\ "NONE" \in States /\ "SPECTATING" \in States
  /\ "ACTIVE" \in States /\ "ALIVE" \in States
BY ClientsAssumption, TimingAssumption, TicksType DEF Clients, States

(* gameOver is checked in every tick, so only the tick itself may find it one *)
(* past its limit.                                                            *)
GameOverChecked == pc # "world" => gameOver <= Ticks(GameOverSeconds)
TypeInv == TypeOK /\ GameOverChecked

LEMMA TypeInit == Init => TypeInv
<1> SUFFICES ASSUME Init PROVE TypeInv
  OBVIOUS
<1>1. SlotTypes
  BY ConstantTypes DEF Init, SlotTypes
<1>2. ClockTypes /\ GameOverChecked
  BY ConstantTypes DEF Init, ClockTypes, GameOverChecked
<1>3. TurnTypes
  BY ConstantTypes DEF Init, TurnTypes
<1>4. FlagTypes
  BY DEF Init, FlagTypes
<1> QED BY <1>1, <1>2, <1>3, <1>4 DEF TypeInv, TypeOK

LEMMA TypeNext == TypeInv /\ [Next]_vars => TypeInv'
<1> SUFFICES ASSUME TypeInv, [Next]_vars PROVE TypeInv'
  OBVIOUS
<1> SlotTypes /\ FlagTypes /\ ClockTypes /\ TurnTypes /\ GameOverChecked
  BY DEF TypeInv, TypeOK
<1> USE ConstantTypes
<1>1. ASSUME NEW c \in Clients, Connect(c) PROVE TypeInv'
  <2>1. SlotTypes'
    BY <1>1 DEF Connect, SlotTypes, seats, ledger
  <2>2. (ClockTypes /\ GameOverChecked)'
    BY <1>1 DEF Connect, ClockTypes, GameOverChecked, Goto, clock, turn
  <2>3. TurnTypes'
    BY <1>1 DEF Connect, TurnTypes, Goto, maps, turn
  <2>4. FlagTypes'
    BY <1>1 DEF Connect, FlagTypes, clock, maps
  <2> QED BY <2>1, <2>2, <2>3, <2>4 DEF TypeInv, TypeOK
<1>2. ASSUME NEW c \in Clients, Enter(c) PROVE TypeInv'
  <2>1. SlotTypes'
    BY <1>2 DEF Enter, SlotTypes, seats, ledger
  <2>2. (ClockTypes /\ GameOverChecked)'
    BY <1>2 DEF Enter, ClockTypes, GameOverChecked, Goto, clock, turn
  <2>3. TurnTypes'
    BY <1>2 DEF Enter, TurnTypes, Goto, maps, turn
  <2>4. FlagTypes'
    BY <1>2 DEF Enter, FlagTypes, clock, maps
  <2> QED BY <2>1, <2>2, <2>3, <2>4 DEF TypeInv, TypeOK
<1>3. ASSUME NEW c \in Clients, Drop(c) PROVE TypeInv'
  <2>1. SlotTypes'
    BY <1>3, HelperTypes DEF Drop, SeatGivenUp, SlotTypes, seats, ledger
  <2>2. (ClockTypes /\ GameOverChecked)'
    BY <1>3, HelperTypes DEF Drop, SeatGivenUp, ClockTypes, GameOverChecked, Goto, clock, turn
  <2>3. TurnTypes'
    BY <1>3, HelperTypes DEF Drop, SeatGivenUp, TurnTypes, Goto, maps, turn
  <2>4. FlagTypes'
    BY <1>3, HelperTypes DEF Drop, SeatGivenUp, FlagTypes, clock, maps
  <2> QED BY <2>1, <2>2, <2>3, <2>4 DEF TypeInv, TypeOK
<1>4. ASSUME NEW c \in Clients, NEW t \in WantedTeams, SetTeamMessage(c, t) PROVE TypeInv'
  <2>1. SlotTypes'
    BY <1>4 DEF SetTeamMessage, Judge, SetTeam, ClampTeam, SlotTypes, seats, ledger
  <2>2. (ClockTypes /\ GameOverChecked)'
    BY <1>4
    DEF SetTeamMessage, Judge, SetTeam, ClampTeam, ClockTypes, GameOverChecked, Goto, clock, turn
  <2>3. TurnTypes'
    BY <1>4 DEF SetTeamMessage, Judge, SetTeam, ClampTeam, TurnTypes, Goto, maps, turn
  <2>4. FlagTypes'
    BY <1>4 DEF SetTeamMessage, Judge, SetTeam, ClampTeam, FlagTypes, clock, maps
  <2> QED BY <2>1, <2>2, <2>3, <2>4 DEF TypeInv, TypeOK
<1>5. ASSUME NEW c \in Clients, NEW d \in Clients, Hit(c, d) PROVE TypeInv'
  <2>1. ASSUME Pass(c, d) PROVE SlotTypes'
    <3>1. AtLeastMin(fuse[c]) \in -1 .. LongestFuse
      BY <2>1, FuseTypes DEF AtLeastMin, Pass, SlotTypes
    <3>2. fuse' \in [Clients -> (-1 .. LongestFuse) \cup {NoBomb}]
      BY <2>1, <3>1 DEF Pass, SlotTypes
    <3> QED BY <1>5, <3>2 DEF Hit, SlotTypes, seats, ledger
  <2>2. ASSUME Damage(c, d) PROVE SlotTypes'
    <3>1. Shorten(fuse[d], Ticks(BombDamage)) \in -1 .. LongestFuse
      BY <2>2, HelperTypes, TicksType, TimingAssumption DEF Damage, SlotTypes
    <3>2. fuse' \in [Clients -> (-1 .. LongestFuse) \cup {NoBomb}]
      BY <2>2, <3>1 DEF Damage, SlotTypes
    <3> QED BY <1>5, <3>2 DEF Hit, SlotTypes, seats, ledger
  <2>3. (ClockTypes /\ GameOverChecked)'
    BY <1>5 DEF Hit, ClockTypes, GameOverChecked, clock, turn
  <2>4. TurnTypes'
    BY <1>5 DEF Hit, TurnTypes, maps, turn
  <2>5. FlagTypes'
    BY <1>5 DEF Hit, FlagTypes, clock, maps
  <2> QED BY <1>5, <2>1, <2>2, <2>3, <2>4, <2>5 DEF Hit, TypeInv, TypeOK
<1>6. ASSUME NEW c \in Clients, Die(c) PROVE TypeInv'
  <2>1. SlotTypes'
    BY <1>6, HelperTypes DEF Die, SlotTypes, seats, ledger
  <2>2. (ClockTypes /\ GameOverChecked)'
    BY <1>6, HelperTypes DEF Die, ClockTypes, GameOverChecked, Goto, clock, turn
  <2>3. TurnTypes'
    BY <1>6, HelperTypes DEF Die, TurnTypes, Goto, maps, turn
  <2>4. FlagTypes'
    BY <1>6, HelperTypes DEF Die, FlagTypes, clock, maps
  <2> QED BY <2>1, <2>2, <2>3, <2>4 DEF TypeInv, TypeOK
<1>7. ASSUME NEW c \in Clients, NEW t \in WantedTeams, ConSetTeam(c, t) PROVE TypeInv'
  <2>1. SlotTypes'
    BY <1>7, HelperTypes DEF ConSetTeam, SetTeam, ClampTeam, SentTo, SlotTypes, seats, ledger
  <2>2. (ClockTypes /\ GameOverChecked)'
    BY <1>7, HelperTypes
    DEF ConSetTeam, SetTeam, ClampTeam, SentTo, ClockTypes, GameOverChecked, Goto, clock, turn
  <2>3. TurnTypes'
    BY <1>7, HelperTypes DEF ConSetTeam, SetTeam, ClampTeam, SentTo, TurnTypes, Goto, maps, turn
  <2>4. FlagTypes'
    BY <1>7, HelperTypes DEF ConSetTeam, SetTeam, ClampTeam, SentTo, FlagTypes, clock, maps
  <2> QED BY <2>1, <2>2, <2>3, <2>4 DEF TypeInv, TypeOK
<1>8. CASE ConPause
  <2>1. SlotTypes'
    BY <1>8 DEF ConPause, SlotTypes, seats, ledger
  <2>2. (ClockTypes /\ GameOverChecked)'
    BY <1>8 DEF ConPause, ClockTypes, GameOverChecked, Goto, clock, turn
  <2>3. TurnTypes'
    BY <1>8 DEF ConPause, TurnTypes, Goto, maps, turn
  <2>4. FlagTypes'
    BY <1>8 DEF ConPause, FlagTypes, clock, maps
  <2> QED BY <2>1, <2>2, <2>3, <2>4 DEF TypeInv, TypeOK
<1>9. ASSUME NEW n \in 0 .. WarmupSeconds, ConRestartIn(n) PROVE TypeInv'
  <2>1. SlotTypes'
    BY <1>9, TicksMonotone, TimingAssumption DEF ConRestartIn, SlotTypes, seats, ledger
  <2>2. (ClockTypes /\ GameOverChecked)'
    BY <1>9, TicksMonotone, TimingAssumption
    DEF ConRestartIn, ClockTypes, GameOverChecked, Goto, clock, turn
  <2>3. TurnTypes'
    BY <1>9, TicksMonotone, TimingAssumption DEF ConRestartIn, TurnTypes, Goto, maps, turn
  <2>4. FlagTypes'
    BY <1>9, TicksMonotone, TimingAssumption DEF ConRestartIn, FlagTypes, clock, maps
  <2> QED BY <2>1, <2>2, <2>3, <2>4 DEF TypeInv, TypeOK
<1>10. CASE ConRestart
  <2>1. SlotTypes'
    BY <1>10 DEF ConRestart, StartRound, SlotTypes, seats, ledger
  <2>2. (ClockTypes /\ GameOverChecked)'
    BY <1>10 DEF ConRestart, StartRound, ClockTypes, GameOverChecked, Goto, clock, turn
  <2>3. TurnTypes'
    BY <1>10 DEF ConRestart, StartRound, TurnTypes, Goto, maps, turn
  <2>4. FlagTypes'
    BY <1>10 DEF ConRestart, StartRound, FlagTypes, clock, maps
  <2> QED BY <2>1, <2>2, <2>3, <2>4 DEF TypeInv, TypeOK
<1>11. CASE ConEnqueueMap
  <2>1. SlotTypes'
    BY <1>11 DEF ConEnqueueMap, SlotTypes, seats, ledger
  <2>2. (ClockTypes /\ GameOverChecked)'
    BY <1>11 DEF ConEnqueueMap, ClockTypes, GameOverChecked, Goto, clock, turn
  <2>3. TurnTypes'
    BY <1>11 DEF ConEnqueueMap, TurnTypes, Goto, maps, turn
  <2>4. FlagTypes'
    BY <1>11 DEF ConEnqueueMap, FlagTypes, clock, maps
  <2> QED BY <2>1, <2>2, <2>3, <2>4 DEF TypeInv, TypeOK
<1>12. CASE LoadMap
  <2>1. CASE NewMap
    <3>1. SlotTypes'
      BY <2>1 DEF NewMap, SlotTypes
    <3>2. (ClockTypes /\ GameOverChecked)'
      BY <2>1 DEF NewMap, ClockTypes, GameOverChecked
    <3>3. TurnTypes'
      BY <2>1 DEF NewMap, Persisted, TurnTypes, turn
    <3>4. FlagTypes'
      BY <2>1 DEF NewMap, FlagTypes
    <3> QED BY <3>1, <3>2, <3>3, <3>4 DEF TypeInv, TypeOK
  <2>2. CASE MapMissing
    BY <2>2 DEF MapMissing, TypeInv, TypeOK, SlotTypes, FlagTypes, ClockTypes, TurnTypes,
                GameOverChecked, seats, ledger, clock, turn
  <2> QED BY <1>12, <2>1, <2>2 DEF LoadMap
<1>13. CASE BeginTick
  <2>1. SlotTypes'
    BY <1>13, HelperTypes DEF BeginTick, OnReset, SlotTypes, seats, ledger
  <2>2. (ClockTypes /\ GameOverChecked)'
    BY <1>13, HelperTypes DEF BeginTick, OnReset, ClockTypes, GameOverChecked, Goto, clock, turn
  <2>3. TurnTypes'
    BY <1>13, HelperTypes DEF BeginTick, OnReset, TurnTypes, Goto, maps, turn
  <2>4. FlagTypes'
    BY <1>13, HelperTypes DEF BeginTick, OnReset, FlagTypes, clock, maps
  <2> QED BY <2>1, <2>2, <2>3, <2>4 DEF TypeInv, TypeOK
<1>14. CASE BaseTick
  <2>1. SlotTypes'
    BY <1>14 DEF BaseTick, StartRound, SlotTypes, seats, ledger
  <2>2. (ClockTypes /\ GameOverChecked)'
    BY <1>14 DEF BaseTick, StartRound, ClockTypes, GameOverChecked, Goto, clock, turn
  <2>3. TurnTypes'
    BY <1>14 DEF BaseTick, StartRound, TurnTypes, Goto, maps, turn
  <2>4. FlagTypes'
    BY <1>14 DEF BaseTick, StartRound, FlagTypes, clock, maps
  <2> QED BY <2>1, <2>2, <2>3, <2>4 DEF TypeInv, TypeOK
<1>15. CASE AfkLogic
  <2>1. SlotTypes'
    BY <1>15, HelperTypes DEF AfkLogic, SlotTypes, seats, ledger
  <2>2. (ClockTypes /\ GameOverChecked)'
    BY <1>15, HelperTypes DEF AfkLogic, ClockTypes, GameOverChecked, Goto, clock, turn
  <2>3. TurnTypes'
    BY <1>15, HelperTypes DEF AfkLogic, TurnTypes, Goto, maps, turn
  <2>4. FlagTypes'
    BY <1>15, HelperTypes DEF AfkLogic, FlagTypes, clock, maps
  <2> QED BY <2>1, <2>2, <2>3, <2>4 DEF TypeInv, TypeOK
<1>16. CASE ChangeToEnqueuedMap
  <2>1. SlotTypes'
    BY <1>16 DEF ChangeToEnqueuedMap, SlotTypes, seats, ledger
  <2>2. (ClockTypes /\ GameOverChecked)'
    BY <1>16 DEF ChangeToEnqueuedMap, ClockTypes, GameOverChecked, Goto, clock, turn
  <2>3. TurnTypes'
    BY <1>16 DEF ChangeToEnqueuedMap, TurnTypes, Goto, maps, turn
  <2>4. FlagTypes'
    BY <1>16 DEF ChangeToEnqueuedMap, FlagTypes, clock, maps
  <2> QED BY <2>1, <2>2, <2>3, <2>4 DEF TypeInv, TypeOK
<1>17. CASE StartBombRound
  <2>1. SlotTypes'
    BY <1>17, FuseTypes DEF StartBombRound, SlotTypes, seats, ledger
  <2>2. (ClockTypes /\ GameOverChecked)'
    BY <1>17, FuseTypes DEF StartBombRound, ClockTypes, GameOverChecked, Goto, clock, turn
  <2>3. TurnTypes'
    BY <1>17, FuseTypes DEF StartBombRound, TurnTypes, Goto, maps, turn
  <2>4. FlagTypes'
    BY <1>17, FuseTypes DEF StartBombRound, FlagTypes, clock, maps
  <2> QED BY <2>1, <2>2, <2>3, <2>4 DEF TypeInv, TypeOK
<1>18. CASE NoStart
  <2>1. SlotTypes'
    BY <1>18 DEF NoStart, SlotTypes, seats, ledger
  <2>2. (ClockTypes /\ GameOverChecked)'
    BY <1>18 DEF NoStart, ClockTypes, GameOverChecked, Goto, clock, turn
  <2>3. TurnTypes'
    BY <1>18 DEF NoStart, TurnTypes, Goto, maps, turn
  <2>4. FlagTypes'
    BY <1>18 DEF NoStart, FlagTypes, clock, maps
  <2> QED BY <2>1, <2>2, <2>3, <2>4 DEF TypeInv, TypeOK
<1>19. ASSUME EndBombRound
      PROVE  /\ state' \in [Clients -> States]
             /\ fuse' \in [Clients -> (-1 .. LongestFuse) \cup {NoBomb}]
             /\ saves' \in [Clients -> 0 .. 2]
             /\ award' \in [Clients -> 0 .. 1]
             /\ roundActive' = FALSE
             /\ warmup' \in 0 .. Ticks(WarmupSeconds)
  <2>1. warmup' \in 0 .. Ticks(WarmupSeconds)
    BY <1>19 DEF EndBombRound
  <2>2. award' \in [Clients -> 0 .. 1]
    BY <1>19 DEF EndBombRound, SlotTypes
  <2> QED BY <1>19, <2>1, <2>2, HelperTypes DEF EndBombRound
<1>20. CASE WinCheck
  <2>1. SlotTypes'
    BY <1>20, <1>19, FuseTypes DEF WinCheck, SlotTypes, seats, ledger
  <2>2. (ClockTypes /\ GameOverChecked)'
    <3>1. warmup' \in 0 .. Ticks(WarmupSeconds)
      BY <1>20, <1>19 DEF WinCheck, ClockTypes
    <3>2. gameOver' \in {gameOver, 0} /\ pc # "world"
      BY <1>20 DEF WinCheck
    <3>3. 0 \in -1 .. Ticks(GameOverSeconds) + 1 /\ 0 <= Ticks(GameOverSeconds)
      OBVIOUS
    <3> QED BY <3>1, <3>2, <3>3 DEF ClockTypes, GameOverChecked
  <2>3. TurnTypes'
    BY <1>20, <1>19, FuseTypes DEF WinCheck, TurnTypes, Goto, maps, turn
  <2>4. FlagTypes'
    BY <1>20, <1>19, FuseTypes DEF WinCheck, FlagTypes, clock, maps
  <2> QED BY <2>1, <2>2, <2>3, <2>4 DEF TypeInv, TypeOK
<1>21. CASE Refill
  <2>1. SlotTypes'
    <3>1. fuse' \in [Clients -> (-1 .. LongestFuse) \cup {NoBomb}]
      <4>1. \A B : [c \in Clients |-> IF c \in B THEN FuseTicks ELSE fuse[c]]
                     \in [Clients -> (-1 .. LongestFuse) \cup {NoBomb}]
        BY FuseTypes DEF SlotTypes
      <4>2. \/ EndBombRound \/ fuse' = fuse
            \/ \E B : fuse' = [c \in Clients |-> IF c \in B THEN FuseTicks ELSE fuse[c]]
        BY <1>21 DEF Refill
      <4>3. /\ EndBombRound => fuse' \in [Clients -> (-1 .. LongestFuse) \cup {NoBomb}]
            /\ fuse \in [Clients -> (-1 .. LongestFuse) \cup {NoBomb}]
        BY <1>19 DEF SlotTypes
      <4> QED BY <4>1, <4>2, <4>3
    <3>2. state' \in [Clients -> States]
      BY <1>21, <1>19 DEF Refill, SlotTypes
    <3>3. saves' \in [Clients -> 0 .. 2] /\ award' \in [Clients -> 0 .. 1]
      BY <1>21, <1>19 DEF Refill, SlotTypes, ledger
    <3> QED BY <1>21, <3>1, <3>2, <3>3 DEF Refill, SlotTypes, seats
  <2>2. (ClockTypes /\ GameOverChecked)'
    <3>1. warmup' \in 0 .. Ticks(WarmupSeconds)
      BY <1>21, <1>19 DEF Refill, ClockTypes
    <3>2. gameOver' \in {gameOver, 0} /\ pc # "world"
      BY <1>21 DEF Refill
    <3>3. 0 \in -1 .. Ticks(GameOverSeconds) + 1 /\ 0 <= Ticks(GameOverSeconds)
      OBVIOUS
    <3> QED BY <3>1, <3>2, <3>3 DEF ClockTypes, GameOverChecked
  <2>3. TurnTypes'
    BY <1>21, <1>19, FuseTypes DEF Refill, TurnTypes, Goto, maps, turn
  <2>4. FlagTypes'
    BY <1>21, <1>19, FuseTypes DEF Refill, FlagTypes, clock, maps
  <2> QED BY <2>1, <2>2, <2>3, <2>4 DEF TypeInv, TypeOK
<1>22. CASE Burn
  <2>1. ASSUME NEW K \in SUBSET Clients, Explode(idx, K) PROVE SlotTypes'
    BY <1>22, <2>1, HelperTypes DEF Burn, Explode, SlotTypes, seats, ledger
  <2>2. ASSUME fuse' = [fuse EXCEPT ![idx] = IF @ = NoBomb THEN NoBomb ELSE Burnt(idx)],
               UNCHANGED <<state, chr, saves>>
        PROVE  SlotTypes'
    <3>1. fuse[idx] # NoBomb => Burnt(idx) \in -1 .. LongestFuse
      BY HelperTypes DEF Burnt, SlotTypes, TurnTypes
    <3>2. fuse' \in [Clients -> (-1 .. LongestFuse) \cup {NoBomb}]
      BY <2>2, <3>1 DEF SlotTypes, TurnTypes
    <3> QED BY <1>22, <2>2, <3>2 DEF Burn, SlotTypes, seats
  <2>3. InBlast(idx) \subseteq Clients
    BY DEF InBlast
  <2>4. SlotTypes'
    BY <1>22, <2>1, <2>2, <2>3 DEF Burn
  <2>5. (ClockTypes /\ GameOverChecked)'
    BY <1>22 DEF Burn, NextSlot, ClockTypes, GameOverChecked, clock
  <2>6. TurnTypes'
    <3>1. idx' \in Clients
      BY <1>22, ClientsAssumption DEF Burn, NextSlot, TurnTypes, Clients
    <3>2. pc' \in {"bench", "refill"} /\ rejoin' = rejoin
      BY <1>22 DEF Burn, NextSlot, maps
    <3> QED BY <3>1, <3>2 DEF TurnTypes
  <2>7. FlagTypes'
    BY <1>22 DEF Burn, FlagTypes, clock, maps
  <2> QED BY <2>4, <2>5, <2>6, <2>7 DEF TypeInv, TypeOK
<1>23. CASE Bench
  <2>1. SlotTypes'
    BY <1>23 DEF Bench, SlotTypes, seats, ledger
  <2>2. (ClockTypes /\ GameOverChecked)'
    BY <1>23 DEF Bench, ClockTypes, GameOverChecked, Goto, clock, turn
  <2>3. TurnTypes'
    BY <1>23 DEF Bench, TurnTypes, Goto, maps, turn
  <2>4. FlagTypes'
    BY <1>23 DEF Bench, FlagTypes, clock, maps
  <2> QED BY <2>1, <2>2, <2>3, <2>4 DEF TypeInv, TypeOK
<1>24. CASE PlayerTicks
  <2>1. SlotTypes'
    BY <1>24 DEF PlayerTicks, SlotTypes, seats, ledger
  <2>2. (ClockTypes /\ GameOverChecked)'
    BY <1>24 DEF PlayerTicks, ClockTypes, GameOverChecked, Goto, clock, turn
  <2>3. TurnTypes'
    BY <1>24 DEF PlayerTicks, TurnTypes, Goto, maps, turn
  <2>4. FlagTypes'
    BY <1>24 DEF PlayerTicks, FlagTypes, clock, maps
  <2> QED BY <2>1, <2>2, <2>3, <2>4 DEF TypeInv, TypeOK
<1>25. CASE UNCHANGED vars
  BY <1>25 DEF vars, TypeInv, TypeOK, SlotTypes, FlagTypes, ClockTypes, TurnTypes, GameOverChecked,
             seats, ledger, clock, maps, turn
<1> QED
  BY <1>1, <1>2, <1>3, <1>4, <1>5, <1>6, <1>7, <1>8, <1>9, <1>10, <1>11, <1>12,
     <1>13, <1>14, <1>15, <1>16, <1>17, <1>18, <1>20, <1>21, <1>22, <1>23,
     <1>24, <1>25
     DEF Next, Clientele, Console, ServerTick

(* Every variable keeps its type: in particular no fuse is ever longer than  *)
(* the longer of the two configured times.                                   *)
THEOREM TypeCorrect == Spec => []TypeOK
<1>1. Spec => []TypeInv
  BY TypeInit, TypeNext, PTL DEF Spec
<1>2. TypeInv => TypeOK
  BY DEF TypeInv
<1> QED BY <1>1, <1>2, PTL

----------------------------------------------------------------------------
(* No action can make a player out of an empty slot, leave a tee on the       *)
(* spectators' side, or move an ALIVE player there: SlotsInOrder is inductive *)
(* once the types are known.                                                  *)
LEMMA SlotsInit == Init => SlotsInOrder
BY DEF Init, SlotsInOrder, Clients

LEMMA SlotsNext == TypeOK /\ SlotsInOrder /\ [Next]_vars => SlotsInOrder'
<1> SUFFICES ASSUME TypeOK, SlotsInOrder, [Next]_vars PROVE SlotsInOrder'
  OBVIOUS
<1> SlotTypes /\ FlagTypes /\ TurnTypes
  BY DEF TypeOK
<1> USE DEF SlotTypes, SlotsInOrder, Player, SPEC, FLOCK, seats
<1>1. ASSUME NEW d \in Clients, Connect(d) PROVE SlotsInOrder'
  BY <1>1 DEF Connect
<1>2. ASSUME NEW d \in Clients, Enter(d) PROVE SlotsInOrder'
  BY <1>2 DEF Enter
<1>3. ASSUME NEW d \in Clients, Drop(d) PROVE SlotsInOrder'
  BY <1>3 DEF Drop, SeatGivenUp
<1>4. ASSUME NEW d \in Clients, NEW t \in WantedTeams, SetTeamMessage(d, t) PROVE SlotsInOrder'
  BY <1>4 DEF SetTeamMessage, Judge, SetTeam, ClampTeam
<1>5. ASSUME NEW d \in Clients, NEW e \in Clients, Hit(d, e) PROVE SlotsInOrder'
  BY <1>5 DEF Hit
<1>6. ASSUME NEW d \in Clients, Die(d) PROVE SlotsInOrder'
  BY <1>6 DEF Die, Out, Falls
<1>7. ASSUME NEW d \in Clients, NEW t \in WantedTeams, ConSetTeam(d, t) PROVE SlotsInOrder'
  BY <1>7, TeamsAssumption DEF ConSetTeam, SetTeam, ClampTeam, SentTo
<1>8. CASE Console
  BY <1>8 DEF Console, ConPause, ConRestart, ConRestartIn, ConEnqueueMap
<1>9. CASE LoadMap
  BY <1>9 DEF LoadMap, NewMap, MapMissing
<1>10. CASE BeginTick
  BY <1>10 DEF BeginTick, OnReset, Retired, Out, InState
<1>11. CASE BaseTick
  BY <1>11 DEF BaseTick
<1>12. CASE AfkLogic
  BY <1>12 DEF AfkLogic
<1>13. CASE ChangeToEnqueuedMap
  BY <1>13 DEF ChangeToEnqueuedMap
<1>14. CASE StartBombRound
  BY <1>14 DEF StartBombRound, InState
<1>15. CASE NoStart
  BY <1>15 DEF NoStart
<1>16. CASE WinCheck
  BY <1>16 DEF WinCheck, EndBombRound, Retired, Out, InState
<1>17. CASE Refill
  BY <1>17 DEF Refill, EndBombRound, Retired, Out, InState
<1>18. CASE Burn
  BY <1>18 DEF Burn, Explode, InBlast, Out
<1>19. CASE Bench
  BY <1>19 DEF Bench, Benched, InState
<1>20. CASE PlayerTicks
  BY <1>20 DEF PlayerTicks
<1>21. CASE UNCHANGED vars
  BY <1>21 DEF vars
<1> QED
  BY <1>1, <1>2, <1>3, <1>4, <1>5, <1>6, <1>7, <1>8, <1>9, <1>10, <1>11, <1>12,
     <1>13, <1>14, <1>15, <1>16, <1>17, <1>18, <1>19, <1>20, <1>21
     DEF Next, Clientele, ServerTick

(* m_State tells the truth about the slot: whoever is counted as playing or   *)
(* waiting has a player, the ALIVE are on the game's team, and only a client  *)
(* that has entered has a tee.                                                *)
THEOREM SlotsAlwaysInOrder == Spec => []SlotsInOrder
BY SlotsInit, SlotsNext, TypeCorrect, PTL DEF Spec

----------------------------------------------------------------------------
(* Whatever makes a slot ALIVE is StartBombRound, and whatever ends a round   *)
(* also retires everybody who is ALIVE.                                       *)
LEMMA OnlyARoundEnlivens ==
  ASSUME SlotTypes, Next, NEW c \in Clients, state'[c] = "ALIVE"
  PROVE  StartBombRound \/ (state[c] = "ALIVE" /\ (roundActive' = roundActive))
<1> USE DEF SlotTypes
<1> DEFINE Kept == state[c] = "ALIVE" /\ (roundActive' = roundActive)
<1>1. ASSUME NEW d \in Clients, Connect(d) PROVE Kept
  BY <1>1 DEF Connect
<1>2. ASSUME NEW d \in Clients, Enter(d) PROVE Kept
  BY <1>2 DEF Enter
<1>3. ASSUME NEW d \in Clients, Drop(d) PROVE Kept
  BY <1>3 DEF Drop, SeatGivenUp
<1>4. ASSUME NEW d \in Clients, NEW t \in WantedTeams, SetTeamMessage(d, t) PROVE Kept
  BY <1>4 DEF SetTeamMessage, Judge
<1>5. ASSUME NEW d \in Clients, NEW e \in Clients, Hit(d, e) PROVE Kept
  BY <1>5 DEF Hit
<1>6. ASSUME NEW d \in Clients, Die(d) PROVE Kept
  BY <1>6 DEF Die, Out
<1>7. ASSUME NEW d \in Clients, NEW t \in WantedTeams, ConSetTeam(d, t) PROVE Kept
  BY <1>7 DEF ConSetTeam, SentTo
<1>8. ASSUME Console PROVE Kept
  BY <1>8 DEF Console, ConPause, ConRestart, ConRestartIn, ConEnqueueMap
<1>9. ASSUME LoadMap PROVE Kept
  BY <1>9 DEF LoadMap, NewMap, MapMissing
<1>10. ASSUME BeginTick PROVE Kept
  BY <1>10 DEF BeginTick, OnReset, Retired, Out, InState
<1>11. ASSUME BaseTick PROVE Kept
  BY <1>11 DEF BaseTick
<1>12. ASSUME AfkLogic PROVE Kept
  BY <1>12 DEF AfkLogic
<1>13. ASSUME ChangeToEnqueuedMap PROVE Kept
  BY <1>13 DEF ChangeToEnqueuedMap
<1>14. ASSUME NoStart PROVE Kept
  BY <1>14 DEF NoStart
<1>15. ASSUME WinCheck PROVE Kept
  BY <1>15 DEF WinCheck, EndBombRound, Retired, Out, InState
<1>16. ASSUME Refill PROVE Kept
  BY <1>16 DEF Refill, EndBombRound, Retired, Out, InState
<1>17. ASSUME Burn PROVE Kept
  <2>1. state' = state \/ \E K : state' = Out(K)
    BY <1>17 DEF Burn, Explode
  <2> QED BY <1>17, <2>1 DEF Burn, Out
<1>18. ASSUME Bench PROVE Kept
  BY <1>18 DEF Bench
<1>19. ASSUME PlayerTicks PROVE Kept
  BY <1>19 DEF PlayerTicks
<1> QED
  BY <1>1, <1>2, <1>3, <1>4, <1>5, <1>6, <1>7, <1>8, <1>9, <1>10, <1>11, <1>12,
     <1>13, <1>14, <1>15, <1>16, <1>17, <1>18, <1>19
     DEF Next, Clientele, ServerTick

LEMMA AliveInit == Init => AliveOnlyInRound
BY DEF Init, AliveOnlyInRound, InState

LEMMA AliveNext == TypeOK /\ AliveOnlyInRound /\ [Next]_vars => AliveOnlyInRound'
<1> SUFFICES ASSUME TypeOK, AliveOnlyInRound, [Next]_vars, NEW c \in Clients,
                    state'[c] = "ALIVE"
             PROVE  roundActive'
  BY DEF AliveOnlyInRound, InState
<1>1. CASE UNCHANGED vars
  BY <1>1 DEF vars, AliveOnlyInRound, InState
<1>2. CASE StartBombRound
  BY <1>2 DEF StartBombRound
<1>3. CASE state[c] = "ALIVE" /\ (roundActive' = roundActive)
  BY <1>3 DEF AliveOnlyInRound, InState
<1> QED BY <1>1, <1>2, <1>3, OnlyARoundEnlivens DEF TypeOK

(* Nobody is ALIVE outside a round, so a round never starts with players left *)
(* over from the one before.                                                  *)
THEOREM AliveOnlyInRounds == Spec => []AliveOnlyInRound
BY AliveInit, AliveNext, TypeCorrect, PTL DEF Spec

(* Whoever is out stays out until the round is over: of all the handlers that *)
(* write m_State only StartBombRound makes a slot ALIVE, and it never runs    *)
(* during a round.                                                            *)
THEOREM OutStaysOut == Spec => NobodyRejoins
<1> DEFINE Stays == roundActive /\ roundActive' =>
                      \A c \in Clients : state'[c] = "ALIVE" => state[c] = "ALIVE"
<1>1. TypeOK /\ [Next]_vars => [Stays]_vars
  BY OnlyARoundEnlivens DEF TypeOK, StartBombRound, CanStart
<1> QED BY <1>1, TypeCorrect, PTL DEF Spec, NobodyRejoins

----------------------------------------------------------------------------
(* Sets of slots are finite. *)
LEMMA SlotSetsFinite ==
  ASSUME NEW S \in SUBSET Clients
  PROVE  IsFiniteSet(S) /\ Cardinality(S) \in Nat
<1>1. IsFiniteSet(Clients)
  BY ClientsAssumption, FS_Interval DEF Clients
<1> QED BY <1>1, FS_Subset, FS_CardinalityType

(* A set with at most one element has only the one that is known to be in it. *)
LEMMA OnlyOne ==
  ASSUME NEW S \in SUBSET Clients, NEW c \in S, Cardinality(S) <= 1
  PROVE  S = {c}
<1>1. IsFiniteSet(S) /\ Cardinality(S) \in Nat
  BY SlotSetsFinite
<1>2. {c} \in SUBSET S /\ Cardinality({c}) = 1
  BY FS_Singleton
<1>3. Cardinality({c}) <= Cardinality(S)
  BY <1>1, <1>2, FS_Subset
<1> QED BY <1>1, <1>2, <1>3, FS_Subset

(* A point is given when one player is left ALIVE, and to that player:        *)
(* EndBombRound only takes the first ALIVE slot it finds, but both of its     *)
(* callers have counted the ALIVE before.                                     *)
THEOREM PointGoesToSoleSurvivor == Spec => SoleSurvivorWins
<1> DEFINE Earned == \A c \in Clients : award'[c] > award[c] => InState("ALIVE") = {c}
<1>1. ASSUME TypeOK, Next PROVE Earned
  <2> SUFFICES ASSUME NEW c \in Clients, award'[c] > award[c]
               PROVE  InState("ALIVE") = {c}
    OBVIOUS
  <2>1. award[c] \in 0 .. 1 /\ Cardinality(InState("ALIVE")) \in Nat
    BY <1>1, SlotSetsFinite DEF TypeOK, SlotTypes, InState
  <2>2. award' # award /\ award' # [d \in Clients |-> 0]
        /\ \A d \in Clients : award' # [award EXCEPT ![d] = 0]
    BY <1>1, <2>1 DEF TypeOK, SlotTypes
  <2>3. (WinCheck \/ Refill) /\ EndBombRound
    BY <1>1, <2>2
       DEF Next, Clientele, Console, ServerTick, ledger, Connect, Enter, Drop, SetTeamMessage,
           Hit, Die, ConSetTeam, ConPause, ConRestartIn, ConRestart, ConEnqueueMap, LoadMap, NewMap,
           MapMissing,
           BeginTick, BaseTick, AfkLogic, ChangeToEnqueuedMap, StartBombRound, NoStart,
           WinCheck, Refill, Burn, Bench, PlayerTicks
  <2>4. c \in InState("ALIVE")
    BY <2>1, <2>3 DEF EndBombRound
  <2>5. Cardinality(InState("ALIVE")) <= 1
    BY <2>1, <2>2, <2>3 DEF WinCheck, Refill, Decided, ledger
  <2> QED BY <2>4, <2>5, OnlyOne DEF InState
<1>2. TypeOK /\ [Next]_vars => [Earned]_vars
  BY <1>1
<1> QED BY <1>2, TypeCorrect, PTL DEF Spec, SoleSurvivorWins

----------------------------------------------------------------------------
(* Of two or more players at least one becomes a bomb and at least one does   *)
(* not, whatever bombtag_bombs_per_player is: one bomb for every started      *)
(* share of BombsPerPlayer, or all but one with a share of one.               *)
LEMMA BombCountInBounds ==
  ASSUME NEW n \in Nat, n >= 2
  PROVE  BombCount(n) \in 1 .. n - 1
<1> DEFINE d == BombsPerPlayer
           q == (n + d - 1) \div d
<1>1. d \in Nat \ {0}
  BY BombsAssumption
<1>2. CASE d = 1
  <2>1. (n + 1 - 1) \div 1 = n
    OBVIOUS
  <2> QED BY <1>2, <2>1 DEF BombCount, CeilDiv
<1>3. CASE d >= 2
  <2>1. q \in Int /\ d * q <= n + d - 1 /\ n + d - 1 < d * q + d
    BY <1>1
  <2>2. q >= 1
    <3>1. ASSUME q <= 0 PROVE d * q <= 0
      BY <1>1, <2>1, <3>1
    <3> QED BY <1>1, <2>1, <3>1
  <2>3. q <= n - 1
    <3>1. ASSUME q >= n PROVE FALSE
      <4>1. d * n <= d * q
        BY <1>1, <2>1, <3>1
      <4>2. (d - 1) * (n - 1) >= 1
        BY <1>3, <1>1
      <4>3. (d - 1) * (n - 1) = d * n - d - n + 1
        BY <1>1
      <4> QED BY <1>1, <2>1, <4>1, <4>2, <4>3
    <3> QED BY <2>1, <3>1
  <2>4. BombCount(n) = q
    BY <1>3, <2>1 DEF BombCount, CeilDiv
  <2> QED BY <2>1, <2>2, <2>3, <2>4
<1> QED BY <1>1, <1>2, <1>3

(* A pick that gives BombCount of the ALIVE a fuse leaves one of them without *)
(* and is not empty.                                                          *)
LEMMA PickIsProper ==
  ASSUME NEW A \in SUBSET Clients, Cardinality(A) >= 2,
         NEW B \in SUBSET A, Cardinality(B) = BombCount(Cardinality(A))
  PROVE  B # {} /\ \E c \in A : c \notin B
<1>1. IsFiniteSet(A) /\ Cardinality(A) \in Nat /\ Cardinality(B) \in Nat
  BY SlotSetsFinite
<1>2. Cardinality(B) >= 1 /\ Cardinality(B) < Cardinality(A)
  BY <1>1, BombCountInBounds
<1>3. B # {}
  BY <1>2, FS_EmptySet
<1>4. B # A
  BY <1>1, <1>2
<1> QED BY <1>3, <1>4

(* Whenever bombs are picked somebody is spared, and a round that starts or   *)
(* goes on has a bomb in some slot: the arithmetic of BombCount and the       *)
(* counts the guards make are enough for every number of slots.               *)
THEOREM PicksSpareSomebody == Spec => PickSparesSomebody
<1> DEFINE Fair == pc \in {"start", "refill"} => SomebodySpared /\ SomeBomb
<1>1. ASSUME TypeOK, AliveOnlyInRound, Next PROVE Fair
  <2> SUFFICES ASSUME pc \in {"start", "refill"} PROVE SomebodySpared /\ SomeBomb
    OBVIOUS
  <2>1. ASSUME NEW A \in SUBSET Clients, Cardinality(A) >= 2, NEW B \in SUBSET A,
               Cardinality(B) = BombCount(Cardinality(A)),
               fuse' = [c \in Clients |-> IF c \in B THEN FuseTicks ELSE fuse[c]],
               \A c \in A : state'[c] = "ALIVE"
        PROVE  SomebodySpared /\ SomeBomb
    <3>1. B # {} /\ \E c \in A : c \notin B
      BY <2>1, PickIsProper
    <3>2. Picked \subseteq B
      BY <2>1 DEF Picked
    <3>3. FuseTicks # NoBomb
      BY FuseTypes, NoBombAssumption
    <3> QED BY <2>1, <3>1, <3>2, <3>3 DEF SomebodySpared, SomeBomb
  <2>2. CASE StartBombRound
    <3>1. InState("ALIVE") = {}
      BY <1>1, <2>2 DEF AliveOnlyInRound, StartBombRound, CanStart
    <3>2. Cardinality(InState("ACTIVE")) >= 2
      <4>1. Cardinality(InState("ALIVE")) = 0
        BY <3>1, FS_EmptySet
      <4>2. Cardinality(InState("ACTIVE")) \in Nat
        BY SlotSetsFinite DEF InState
      <4> QED BY <2>2, <4>1, <4>2 DEF StartBombRound, CanStart, Called
    <3>3. \A c \in InState("ACTIVE") : state'[c] = "ALIVE"
      BY <2>2 DEF StartBombRound, InState
    <3>4. InState("ACTIVE") \in SUBSET Clients
      BY DEF InState
    <3>5. PICK B \in SUBSET InState("ACTIVE") :
            /\ Cardinality(B) = BombCount(Cardinality(InState("ACTIVE")))
            /\ fuse' = [c \in Clients |-> IF c \in B THEN FuseTicks ELSE fuse[c]]
      BY <2>2, <3>1 DEF StartBombRound
    <3> QED BY <2>1, <3>2, <3>3, <3>4, <3>5
  <2>3. CASE Refill
    <3>1. CASE Bombs # {} \/ ~roundActive
      BY <2>3, <3>1 DEF Refill, SomebodySpared, SomeBomb, Picked, Bombs
    <3>2. CASE EndBombRound
      BY <1>1, <3>2
         DEF EndBombRound, SomebodySpared, SomeBomb, Picked, Disarmed, TypeOK, SlotTypes
    <3>3. CASE Cardinality(InState("ALIVE")) >= 2 /\ ~(Bombs # {} \/ ~roundActive)
      <4>1. PICK B \in SUBSET InState("ALIVE") :
              /\ Cardinality(B) = BombCount(Cardinality(InState("ALIVE")))
              /\ fuse' = [c \in Clients |-> IF c \in B THEN FuseTicks ELSE fuse[c]]
        BY <2>3, <3>3 DEF Refill
      <4>2. \A c \in InState("ALIVE") : state'[c] = "ALIVE"
        BY <2>3, <3>3 DEF Refill, InState
      <4>3. InState("ALIVE") \in SUBSET Clients
        BY DEF InState
      <4> QED BY <2>1, <3>3, <4>1, <4>2, <4>3
    <3> QED BY <2>3, <3>1, <3>2, <3>3 DEF Refill
  <2>4. CASE fuse' = fuse /\ roundActive' = roundActive /\ pc = "start"
    BY <2>4 DEF SomebodySpared, SomeBomb, Picked
  <2> QED
    BY <1>1, <2>2, <2>3, <2>4
       DEF Next, Clientele, Console, ServerTick, Connect, Enter, Drop, SetTeamMessage,
           Hit, InPlay, Die, ConSetTeam, ConPause, ConRestartIn, ConRestart, ConEnqueueMap,
           LoadMap, NewMap, MapMissing, BeginTick, BaseTick, AfkLogic, ChangeToEnqueuedMap,
           NoStart, WinCheck,
           Burn, Bench, PlayerTicks
<1>2. TypeOK /\ AliveOnlyInRound /\ [Next]_vars => [Fair]_vars
  BY <1>1
<1> QED BY <1>2, TypeCorrect, AliveOnlyInRounds, PTL DEF Spec, PickSparesSomebody

=============================================================================
