--------------------------- MODULE BombStats_proof ---------------------------
(* Theorems of BombStats, for every number of slots: the counters do not      *)
(* disturb the round they count, and what was earned in it is recorded once.  *)
EXTENDS BombStats, BombRound_proof

(* Every step that counts is a step of the round.                             *)
LEMMA CountingIsPlaying == StatsNext => Next
<1>1. ASSUME NEW c \in Clients, FallCounts(c) PROVE Next
  BY <1>1 DEF FallCounts, Next, Clientele
<1>2. ASSUME NEW c \in Clients, NEW d \in Clients, HitCounts(c, d) PROVE Next
  BY <1>2 DEF HitCounts, Next, Clientele
<1>3. ASSUME SentOffCounts PROVE Next
  BY <1>3 DEF SentOffCounts, Next, Clientele, ServerTick
<1>4. ASSUME EndCounts \/ BurnCounts \/ ResetCounts PROVE Next
  BY <1>4 DEF EndCounts, BurnCounts, BlastCounts, ResetCounts, Next, ServerTick
<1>5. ASSUME NewMapCounts PROVE Next
  BY <1>5 DEF NewMapCounts, Next, LoadMap
<1>6. ASSUME Uncounted PROVE Next
  <2>1. ASSUME NEW c \in Clients,
               Connect(c) \/ Enter(c) \/ \E t \in WantedTeams : SetTeamMessage(c, t)
        PROVE  Next
    BY <2>1 DEF Next, Clientele
  <2>2. CASE Console \/ MapMissing
    BY <2>2 DEF Next, LoadMap
  <2>3. CASE \/ BaseTick \/ ChangeToEnqueuedMap \/ StartBombRound \/ NoStart \/ Bench
             \/ PlayerTicks
    BY <2>3 DEF Next, ServerTick
  <2> QED BY <1>6, <2>1, <2>2, <2>3 DEF Uncounted
<1> QED BY <1>1, <1>2, <1>3, <1>4, <1>5, <1>6 DEF StatsNext

(* The counters only watch: what is proved of BombTag holds with them.        *)
THEOREM CountersOnlyWatch == StatsSpec => Spec
<1>1. StatsInit => Init
  BY DEF StatsInit
<1>2. [StatsNext]_statsVars => [Next]_vars
  BY CountingIsPlaying DEF statsVars
<1> QED BY <1>1, <1>2, PTL DEF StatsSpec, Spec

----------------------------------------------------------------------------
(* What recording, earning and leaving make of a counter.                     *)
LEMMA RecordedTwice ==
  ASSUME NEW K, NEW e, NEW c \in Clients
  PROVE  /\ Recorded(K, e)[c] = "again" <=> e[c] = "again" \/ (c \in K /\ e[c] = "spent")
         /\ Recorded(K, e)[c] = "spent" <=> (c \in K /\ e[c] = "own") \/ (c \notin K /\ e[c] = "spent")
         /\ Recorded(K, e)[c] = "own" <=> c \notin K /\ e[c] = "own"
<1>1. CASE c \in K /\ e[c] = "own"
  <2>1. Recorded(K, e)[c] = "spent"
    BY <1>1 DEF Recorded
  <2> QED BY <1>1, <2>1
<1>2. CASE c \in K /\ e[c] = "spent"
  BY <1>2 DEF Recorded
<1>3. CASE ~(c \in K /\ e[c] \in {"own", "spent"})
  BY <1>3 DEF Recorded
<1> QED BY <1>1, <1>2, <1>3

LEMMA GainedOwn ==
  ASSUME NEW K, NEW e, NEW c \in Clients
  PROVE  /\ Gained(K, e)[c] = "again" <=> e[c] = "again"
         /\ Gained(K, e)[c] = "spent" <=> e[c] = "spent"
         /\ ~roundActive => (Gained(K, e)[c] = "own" <=> e[c] = "own")
BY DEF Gained

LEMMA LeftByTheClient ==
  ASSUME NEW K, NEW e, NEW c \in Clients, NEW d \in Clients
  PROVE  LET left == LeftBehind(d, Recorded(K, e))
         IN /\ left[c] = "again" <=> Recorded(K, e)[c] = "again"
            /\ left[c] = "spent" => Recorded(K, e)[c] = "spent" \/ (c = d /\ Recorded(K, e)[c] = "own")
            /\ left[c] = "own" => Recorded(K, e)[c] = "own"
BY DEF LeftBehind, Recorded

----------------------------------------------------------------------------
(* While nobody plays and no warmup runs the next round may begin: no counter *)
(* waits for a reset any more.                                                *)
Settled ==
  ~roundActive /\ warmup = 0 /\ ~resetRequested =>
    \A c \in Clients : earned[c] \notin {"own", "spent"}

(* Nobody plays for a record with counters that have been recorded.           *)
LivingUnspent == ~resetRequested => \A c \in InState("ALIVE") : earned[c] # "spent"

CreditInv == Settled /\ LivingUnspent

LEMMA CreditInit == StatsInit => CreditInv
BY DEF StatsInit, Init, CreditInv, Settled, LivingUnspent, InState

(* A step that leaves the clocks alone and enlivens nobody keeps both parts,  *)
(* as long as whoever it records is out and own counters come from a round.   *)
LEMMA CreditKept ==
  ASSUME CreditInv, UNCHANGED <<roundActive, warmup, resetRequested>>,
         \A c \in Clients : state'[c] = "ALIVE" => state[c] = "ALIVE" /\ (earned'[c] = "spent" => earned[c] = "spent"),
         ~roundActive => \A c \in Clients : earned'[c] \in {"own", "spent"} => earned[c] \in {"own", "spent"}
  PROVE  CreditInv'
BY DEF CreditInv, Settled, LivingUnspent, InState

LEMMA CreditNext ==
  ASSUME "restart" \notin Rcon
  PROVE  TypeOK /\ CreditInv /\ [StatsNext]_statsVars => CreditInv'
<1> SUFFICES ASSUME TypeOK, CreditInv, [StatsNext]_statsVars PROVE CreditInv'
  OBVIOUS
<1> SlotTypes /\ FlagTypes /\ ClockTypes /\ TurnTypes
  BY DEF TypeOK
<1> USE DEF SlotTypes
<1>1. ASSUME NEW d \in Clients, FallCounts(d) PROVE CreditInv'
  <2> DEFINE fallen == {x \in {d} : Falls(x)}
  <2>1. CASE Die(d) /\ earned' = Recorded(fallen, earned)
    <3>1. \A c \in Clients : state'[c] = "ALIVE" => state[c] = "ALIVE" /\ c \notin fallen
      BY <2>1 DEF Die, Out, Falls
    <3>2. UNCHANGED <<roundActive, warmup, resetRequested>>
      BY <2>1 DEF Die, clock
    <3> QED BY <2>1, <3>1, <3>2, RecordedTwice, CreditKept
  <2>2. CASE Drop(d) /\ earned' = LeftBehind(d, Recorded(fallen, earned))
    <3>1. \A c \in Clients : state'[c] = "ALIVE" => state[c] = "ALIVE" /\ c # d
      BY <2>2 DEF Drop, SeatGivenUp
    <3>2. UNCHANGED <<roundActive, warmup, resetRequested>>
      BY <2>2 DEF Drop, clock
    <3>3. ASSUME NEW c \in Clients
          PROVE  /\ c # d /\ earned'[c] = "spent" => earned[c] = "spent"
                 /\ earned'[c] \in {"own", "spent"} => earned[c] \in {"own", "spent"}
      <4>1. c # d => c \notin fallen
        OBVIOUS
      <4> DEFINE rec == Recorded(fallen, earned)
      <4>2. /\ earned'[c] = "spent" => rec[c] = "spent" \/ (c = d /\ rec[c] = "own")
            /\ earned'[c] = "own" => rec[c] = "own"
        BY <2>2, LeftByTheClient
      <4>3. /\ rec[c] = "spent" => (c \in fallen /\ earned[c] = "own") \/ earned[c] = "spent"
            /\ rec[c] = "own" => earned[c] = "own"
        BY RecordedTwice
      <4> HIDE DEF fallen, rec
      <4> QED BY <4>1, <4>2, <4>3
    <3> QED BY <3>1, <3>2, <3>3, CreditKept
  <2> QED BY <1>1, <2>1, <2>2 DEF FallCounts
<1>2. ASSUME NEW d \in Clients, NEW e \in Clients, HitCounts(d, e) PROVE CreditInv'
  <2>1. UNCHANGED <<state, roundActive, warmup, resetRequested>>
    BY <1>2 DEF HitCounts, Hit, clock
  <2>2. PICK K : earned' = Gained(K, earned)
    BY <1>2 DEF HitCounts
  <2> QED BY <2>1, <2>2, GainedOwn, CreditKept
<1>3. ASSUME SentOffCounts PROVE CreditInv'
  <2> DEFINE sentOff == {c \in InState("ALIVE") : state'[c] = "SPECTATING"}
  <2>1. UNCHANGED <<roundActive, warmup, resetRequested>>
    BY <1>3 DEF SentOffCounts, AfkLogic, ConSetTeam, clock
  <2>2. \A c \in Clients : state'[c] = "ALIVE" => state[c] = "ALIVE" /\ c \notin sentOff
    BY <1>3 DEF SentOffCounts, AfkLogic, ConSetTeam, SentTo
  <2>3. earned' = Recorded(sentOff, earned)
    BY <1>3 DEF SentOffCounts
  <2> QED BY <2>1, <2>2, <2>3, RecordedTwice, CreditKept
<1>4. ASSUME EndCounts PROVE CreditInv'
  <2>1. CASE EndBombRound
    <3>1. ~roundActive' /\ warmup' # 0 /\ InState("ALIVE")' = {}
      BY <2>1, WarmupIsLonger DEF EndBombRound, Retired, Out, InState
    <3> QED BY <3>1 DEF CreditInv, Settled, LivingUnspent
  <2>2. CASE ~EndBombRound
    <3>1. UNCHANGED <<state, award, roundActive, warmup, resetRequested>>
      BY <1>4, <2>2 DEF EndCounts, WinCheck, Refill, ledger
    <3>2. \A c \in Clients : award[c] \in 0 .. 1 /\ ~(award'[c] > award[c])
      BY <3>1
    <3>3. CASE pc = "refill" /\ fuse' # fuse
      <4>1. roundActive
        BY <1>4, <3>3 DEF EndCounts, WinCheck, Refill
      <4>2. PICK K : earned' = Recorded({c \in Clients : award'[c] > award[c]}, Gained(K, earned))
        BY <1>4, <3>3 DEF EndCounts
      <4>3. earned' = Recorded({}, Gained(K, earned))
        BY <3>2, <4>2
      <4> QED BY <3>1, <4>1, <4>3, RecordedTwice, GainedOwn, CreditKept
    <3>4. CASE ~(pc = "refill" /\ fuse' # fuse)
      <4>1. earned' = earned
        BY <1>4, <3>1, <3>4 DEF EndCounts
      <4> QED BY <3>1, <4>1, CreditKept
    <3> QED BY <3>3, <3>4
  <2> QED BY <2>1, <2>2
<1>5. ASSUME BurnCounts PROVE CreditInv'
  <2>1. ASSUME NEW caught \in SUBSET InBlast(idx), BlastCounts(caught) PROVE CreditInv'
    <3>1. UNCHANGED <<roundActive, warmup, resetRequested>>
      BY <2>1 DEF BlastCounts, Burn, clock
    <3>2. \A c \in Clients : state'[c] = "ALIVE" => state[c] = "ALIVE" /\ c \notin {idx} \cup caught
      BY <2>1 DEF BlastCounts, Explode, Out
    <3>3. PICK K : earned' = Recorded({idx} \cup caught, Gained(K, earned))
      BY <2>1 DEF BlastCounts
    <3> QED BY <3>1, <3>2, <3>3, RecordedTwice, GainedOwn, CreditKept
  <2>2. CASE ~(fuse[idx] # NoBomb /\ fuse[idx] <= 0 /\ Player(idx)) /\ Burn /\ UNCHANGED earned
    <3>1. UNCHANGED <<state, roundActive, warmup, resetRequested>>
      BY <2>2 DEF Burn, clock
    <3> QED BY <2>2, <3>1, CreditKept
  <2> QED BY <1>5, <2>1, <2>2 DEF BurnCounts
<1>6. ASSUME ResetCounts PROVE CreditInv'
  <2>1. CASE resetRequested
    <3>1. InState("ALIVE")' = {}
      BY <1>6, <2>1 DEF ResetCounts, BeginTick, OnReset, Retired, Out, InState
    <3>2. \A c \in Clients : earned'[c] \notin {"own", "spent"}
      BY <1>6, <2>1 DEF ResetCounts, Zeroed
    <3> QED BY <3>1, <3>2 DEF CreditInv, Settled, LivingUnspent
  <2>2. CASE ~resetRequested
    <3>1. UNCHANGED <<state, roundActive, warmup, resetRequested, earned>>
      BY <1>6, <2>2 DEF ResetCounts, BeginTick
    <3> QED BY <3>1, CreditKept
  <2> QED BY <2>1, <2>2
<1>7. ASSUME NewMapCounts PROVE CreditInv'
  BY <1>7 DEF NewMapCounts, NewMap, CreditInv, Settled, LivingUnspent, InState
<1>8. ASSUME Uncounted, UNCHANGED earned PROVE CreditInv'
  <2>1. ASSUME NEW d \in Clients,
               Connect(d) \/ Enter(d) \/ \E t \in WantedTeams : SetTeamMessage(d, t)
        PROVE  CreditInv'
    <3>1. UNCHANGED <<roundActive, warmup, resetRequested>>
      BY <2>1 DEF Connect, Enter, SetTeamMessage, clock
    <3>2. \A c \in Clients : state'[c] = "ALIVE" => state[c] = "ALIVE"
      BY <2>1 DEF Connect, Enter, SetTeamMessage, Judge
    <3> QED BY <1>8, <3>1, <3>2, CreditKept
  <2>2. CASE Console \/ MapMissing
    <3>1. UNCHANGED <<state, roundActive, warmup, resetRequested>>
      BY <2>2 DEF Console, ConPause, ConRestart, ConRestartIn, ConEnqueueMap, MapMissing, clock
    <3> QED BY <1>8, <3>1, CreditKept
  <2>3. CASE BaseTick
    <3>1. UNCHANGED <<state, roundActive>> /\ (resetRequested => resetRequested')
      BY <2>3 DEF BaseTick, StartRound
    <3>2. warmup' = 0 => warmup = 0 \/ resetRequested'
      BY <2>3 DEF BaseTick, StartRound, ClockTypes
    <3> QED BY <1>8, <3>1, <3>2 DEF CreditInv, Settled, LivingUnspent, InState, FlagTypes
  <2>4. CASE StartBombRound
    <3>1. roundActive' /\ ~roundActive /\ warmup = 0 /\ UNCHANGED resetRequested
      BY <2>4 DEF StartBombRound, CanStart, clock
    <3> QED BY <1>8, <3>1 DEF CreditInv, Settled, LivingUnspent, InState
  <2>5. CASE ChangeToEnqueuedMap \/ NoStart \/ Bench \/ PlayerTicks
    <3>1. UNCHANGED <<state, roundActive, warmup, resetRequested>>
      BY <2>5 DEF ChangeToEnqueuedMap, NoStart, Bench, PlayerTicks, clock
    <3> QED BY <1>8, <3>1, CreditKept
  <2> QED BY <1>8, <2>1, <2>2, <2>3, <2>4, <2>5 DEF Uncounted
<1>9. CASE UNCHANGED statsVars
  <2>1. UNCHANGED <<state, roundActive, warmup, resetRequested, earned>>
    BY <1>9 DEF statsVars, vars, clock
  <2> QED BY <2>1, CreditKept
<1> QED BY <1>1, <1>2, <1>3, <1>4, <1>5, <1>6, <1>7, <1>8, <1>9 DEF StatsNext

LEMMA CreditAlways == ASSUME "restart" \notin Rcon PROVE StatsSpec => []CreditInv
<1>1. TypeOK /\ CreditInv /\ [StatsNext]_statsVars => CreditInv'
  BY CreditNext
<1> QED BY <1>1, CreditInit, CountersOnlyWatch, TypeCorrect, PTL DEF StatsSpec

(* Whoever a step records for good has counters of its own, unless a reset is *)
(* on its way or the bomb came with the slot.                                 *)
LEMMA CreditedNext ==
  ASSUME ~CollateralDamage, TypeOK, CreditInv, BombsUnrecorded, [StatsNext]_statsVars,
         NEW c \in Clients, earned'[c] = "again"
  PROVE  earned[c] = "again" \/ resetRequested \/ Inherited(c)
<1> SlotTypes
  BY DEF TypeOK
<1> state[c] = "ALIVE" /\ earned[c] = "spent" => resetRequested
  BY DEF CreditInv, LivingUnspent, InState
<1>1. ASSUME NEW d \in Clients, FallCounts(d) PROVE earned[c] = "again" \/ resetRequested
  <2> DEFINE fallen == {x \in {d} : Falls(x)}
  <2>1. c \in fallen => state[c] = "ALIVE"
    BY DEF Falls
  <2>2. earned' = Recorded(fallen, earned) \/ earned' = LeftBehind(d, Recorded(fallen, earned))
    BY <1>1 DEF FallCounts
  <2> HIDE DEF fallen
  <2>3. Recorded(fallen, earned)[c] = "again"
    BY <2>2, LeftByTheClient
  <2> QED BY <2>1, <2>3, RecordedTwice
<1>2. ASSUME NEW d \in Clients, NEW e \in Clients, HitCounts(d, e) PROVE earned[c] = "again"
  BY <1>2, GainedOwn DEF HitCounts
<1>3. ASSUME SentOffCounts PROVE earned[c] = "again" \/ resetRequested
  BY <1>3, RecordedTwice DEF SentOffCounts, InState
<1>4. ASSUME EndCounts PROVE earned[c] = "again" \/ resetRequested
  <2>1. award'[c] > award[c] => state[c] = "ALIVE"
    BY <1>4 DEF EndCounts, WinCheck, Refill, EndBombRound, InState, ledger, SlotTypes
  <2> DEFINE winner == {d \in Clients : award'[d] > award[d]}
             safe == {d \in InState("ALIVE") : fuse[d] = NoBomb}
  <2>2. c \in winner => state[c] = "ALIVE"
    BY <2>1
  <2>3. earned' = earned \/ earned' = Recorded(winner, Gained(safe, earned))
    BY <1>4 DEF EndCounts
  <2> HIDE DEF winner, safe
  <2> QED BY <2>2, <2>3, RecordedTwice, GainedOwn
<1>5. ASSUME BurnCounts PROVE earned[c] = "again" \/ resetRequested \/ Inherited(c)
  <2>1. CASE earned' = earned
    BY <2>1
  <2>2. ASSUME NEW caught \in SUBSET InBlast(idx), BlastCounts(caught),
               fuse[idx] # NoBomb, earned[c] # "again"
        PROVE  resetRequested \/ Inherited(c)
    <3>1. caught = {} /\ pc = "fuse"
      BY <2>2 DEF InBlast, BlastCounts, Burn
    <3>2. PICK K : earned' = Recorded({idx} \cup caught, Gained(K, earned))
      BY <2>2 DEF BlastCounts
    <3>3. c = idx /\ earned[c] = "spent"
      BY <2>2, <3>1, <3>2, RecordedTwice, GainedOwn
    <3>4. saves[c] = 0
      BY <2>2, <3>1, <3>3 DEF BombsUnrecorded, Bombs
    <3> QED BY <2>2, <3>3, <3>4 DEF Inherited
  <2> QED BY <1>5, <2>1, <2>2 DEF BurnCounts
<1>6. ASSUME ResetCounts PROVE earned[c] = "again"
  BY <1>6 DEF ResetCounts, Zeroed
<1>7. ASSUME NewMapCounts PROVE FALSE
  BY <1>7 DEF NewMapCounts
<1> QED BY <1>1, <1>2, <1>3, <1>4, <1>5, <1>6, <1>7 DEF StatsNext, statsVars

(* What a player has earned in a round goes into the statistics once: between *)
(* a record and the next one there is a reset, whoever has the slot by then,  *)
(* but for the bomb that one client leaves to the next.                       *)
THEOREM EarningsCreditedOnce ==
  ASSUME FairArena, ~CollateralDamage
  PROVE  StatsSpec => CreditedOnce
<1>1. TypeOK /\ CreditInv /\ LedgerInv /\ [StatsNext]_statsVars =>
        [\A c \in Clients :
           earned'[c] = "again" => earned[c] = "again" \/ resetRequested \/ Inherited(c)]_statsVars
  BY CreditedNext DEF LedgerInv
<1>2. StatsSpec => []CreditInv
  BY CreditAlways DEF FairArena
<1>3. Spec => []LedgerInv
  BY LedgerAlways
<1> QED BY <1>1, <1>2, <1>3, CountersOnlyWatch, TypeCorrect, PTL DEF StatsSpec, CreditedOnce
=============================================================================
