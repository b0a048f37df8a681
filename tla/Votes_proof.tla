---------------------------- MODULE Votes_proof ----------------------------
(* Theorems of Votes, for every number of slots, habits, kinds of votes and  *)
(* configuration.                                                            *)
EXTENDS Votes, FiniteSetTheorems, TLAPS

USE DEF Nobody

----------------------------------------------------------------------------
(* Type correctness.                                                         *)

(* The values m_VoteEnforce takes.                                           *)
Results == {"unknown", "no", "yes", "no_admin", "yes_admin", "abort", "cancel"}

LEMMA DecisionType == ASSUME TypeOK PROVE Decision \in Results
<1>1. enforce \in Results
  BY DEF TypeOK, VoteTypes, Results
<1>2. Recount \in Results
  BY <1>1 DEF Recount, Results
<1> QED BY <1>1, <1>2 DEF Decision, Results

LEMMA WillPassType == ASSUME TypeOK PROVE WillPass \in BOOLEAN
<1>1. CountPasses \in BOOLEAN
  BY DEF CountPasses
<1>2. willPass \in BOOLEAN
  BY DEF TypeOK, VoteTypes
<1> QED BY <1>1, <1>2 DEF WillPass

LEMMA TypeInit == Init => TypeOK
<1> SUFFICES ASSUME Init PROVE TypeOK
  OBVIOUS
<1>1. PeopleTypes
  <2>1. seat \in [Slots -> {"empty", "ready", "ingame"}]
    BY DEF Init
  <2>2. addr \in [Slots -> Slots \cup {Nobody}] /\ age \in [Slots -> {"fresh", "settled", "veteran"}]
    BY DEF Init
  <2>3. /\ spec \subseteq Players /\ afk \subseteq Players /\ authed \subseteq Players
        /\ moderating \subseteq Ingame /\ asked \subseteq Ingame
    BY DEF Init
  <2> QED BY <2>1, <2>2, <2>3 DEF PeopleTypes
<1>2. VoteTypes
  <2>1. cmd \in [kind : Kinds \cup {"option", "none"}, id : Slots \cup {Nobody}, at : Slots \cup {Nobody}]
    BY DEF Init, NoCommand
  <2> QED BY <2>1 DEF Init, VoteTypes
<1>3. BallotTypes
  <2>1. 0 \in 0 .. MaxBallots
    BY BallotsAssumption
  <2>2. said \in [Slots -> {-1, 0, 1}]
    BY DEF Init
  <2>3. pos \in [Slots -> 0 .. MaxBallots] /\ lastPos \in 0 .. MaxBallots
    BY <2>1 DEF Init
  <2>4. barred \in BOOLEAN /\ callerHere \in BOOLEAN /\ voters \subseteq Players
    BY DEF Init
  <2> QED BY <2>2, <2>3, <2>4 DEF BallotTypes
<1> QED BY <1>1, <1>2, <1>3 DEF TypeOK

(* Whoever leaves, and however many: what is left has its types.             *)
LEMMA ForgetTypes ==
  ASSUME TypeOK, NEW S, Forget(S),
         spec' \subseteq Players', spec' \subseteq spec \cup Players
  PROVE  /\ PeopleTypes'
         /\ said' \in [Slots -> {-1, 0, 1}] /\ pos' \in [Slots -> 0 .. MaxBallots]
         /\ update' \in BOOLEAN /\ callerHere' \in BOOLEAN
         /\ creator' \in Players' \cup {Nobody}
<1>1. PeopleTypes'
  BY NumSlotsAssumption DEF TypeOK, PeopleTypes, Forget, Players, Ingame, Slots
<1>2. said' \in [Slots -> {-1, 0, 1}] /\ pos' \in [Slots -> 0 .. MaxBallots]
  BY BallotsAssumption DEF TypeOK, BallotTypes, Forget
<1>3. update' \in BOOLEAN /\ callerHere' \in BOOLEAN
  BY DEF Forget
<1>4. creator' \in Players' \cup {Nobody}
  BY DEF TypeOK, VoteTypes, Forget, CreatorWithout, Players
<1> QED BY <1>1, <1>2, <1>3, <1>4

(* A vote that starts has its types.                                         *)
LEMMA StartTypes ==
  ASSUME TypeOK, NEW i \in Players, NEW c, StartVote(i, c), UNCHANGED seat,
         c \in [kind : Kinds \cup {"option", "none"}, id : Slots \cup {Nobody},
                at : Slots \cup {Nobody}],
         type' \in {"unknown", "option", "kick", "spectate"}
  PROVE  VoteTypes' /\ BallotTypes'
<1>1. VoteTypes'
  BY DEF TypeOK, VoteTypes, StartVote, Players
<1>2. BallotTypes'
  <2>1. said' \in [Slots -> {-1, 0, 1}] /\ pos' \in [Slots -> 0 .. MaxBallots]
    BY BallotsAssumption DEF StartVote, FirstVoice
  <2>2. lastPos' \in 0 .. MaxBallots
    BY BallotsAssumption DEF StartVote
  <2>3. voters' \subseteq Players'
    BY DEF StartVote, Players
  <2> QED BY <2>1, <2>2, <2>3 DEF StartVote, BallotTypes
<1> QED BY <1>1, <1>2

LEMMA TypeNext == TypeOK /\ [Next]_vars => TypeOK'
<1> SUFFICES ASSUME TypeOK, [Next]_vars PROVE TypeOK'
  OBVIOUS
<1> PeopleTypes /\ VoteTypes /\ BallotTypes
  BY DEF TypeOK
<1>1. ASSUME NEW i \in Slots, Connect(i) PROVE TypeOK'
  <2>1. PeopleTypes'
    <3>1. seat' \in [Slots -> {"empty", "ready", "ingame"}]
      BY <1>1 DEF Connect, PeopleTypes
    <3>2. addr' \in [Slots -> Slots \cup {Nobody}]
      BY <1>1 DEF Connect, PeopleTypes
    <3>3. age' \in [Slots -> {"fresh", "settled", "veteran"}]
      BY <1>1 DEF Connect, PeopleTypes
    <3>4. Players \cup {i} \subseteq Players' /\ Ingame \subseteq Ingame'
      BY <1>1 DEF Connect, PeopleTypes, Players, Ingame
    <3> QED BY <1>1, <3>1, <3>2, <3>3, <3>4 DEF Connect, PeopleTypes
  <2>2. VoteTypes'
    BY <1>1 DEF Connect, VoteTypes, vote, Players
  <2>3. BallotTypes'
    BY <1>1, BallotsAssumption DEF Connect, BallotTypes, history, Players
  <2> QED BY <2>1, <2>2, <2>3 DEF TypeOK
<1>2. ASSUME NEW i \in Slots, Enter(i) PROVE TypeOK'
  <2>1. PeopleTypes'
    BY <1>2 DEF Enter, PeopleTypes, Players, Ingame
  <2>2. VoteTypes'
    BY <1>2 DEF Enter, VoteTypes, Players
  <2>3. BallotTypes'
    BY <1>2 DEF Enter, BallotTypes, history, ballots, Players
  <2> QED BY <2>1, <2>2, <2>3 DEF TypeOK
<1>3. ASSUME NEW i \in Slots, Leave(i) PROVE TypeOK'
  <2>1. Forget({i}) /\ spec' = spec \ {i}
    BY <1>3 DEF Leave
  <2>2. spec' \subseteq Players' /\ spec' \subseteq spec \cup Players
    BY <2>1 DEF PeopleTypes, Forget, Players
  <2>3. PeopleTypes'
    BY <2>1, <2>2, ForgetTypes
  <2>4. VoteTypes'
    <3>1. enforce' \in Results
      BY <1>3 DEF Leave, VoteTypes, Results
    <3>2. update' \in BOOLEAN /\ creator' \in Players' \cup {Nobody}
      BY <2>1, <2>2, ForgetTypes
    <3> QED BY <1>3, <3>1, <3>2 DEF Leave, VoteTypes, Results
  <2>5. BallotTypes'
    <3>1. barred' \in BOOLEAN
      BY <1>3 DEF Leave, BallotTypes
    <3>2. voters' \subseteq Players'
      BY <1>3, <2>1 DEF Leave, Forget, BallotTypes, Players
    <3>3. /\ said' \in [Slots -> {-1, 0, 1}] /\ pos' \in [Slots -> 0 .. MaxBallots]
          /\ callerHere' \in BOOLEAN
      BY <2>1, <2>2, ForgetTypes
    <3> QED BY <1>3, <3>1, <3>2, <3>3 DEF Leave, BallotTypes
  <2> QED BY <2>3, <2>4, <2>5 DEF TypeOK
<1>4. ASSUME NEW i \in Slots, ChangeSides(i) PROVE TypeOK'
  <2>1. PeopleTypes'
    BY <1>4 DEF ChangeSides, PeopleTypes, Players, Ingame
  <2>2. VoteTypes'
    BY <1>4 DEF ChangeSides, VoteTypes, Players
  <2>3. BallotTypes'
    BY <1>4 DEF ChangeSides, BallotTypes, history, ballots, Players
  <2> QED BY <2>1, <2>2, <2>3 DEF TypeOK
<1>5. ASSUME NEW i \in Slots, FallAsleep(i) \/ WakeUp(i) \/ GrowOld(i) PROVE TypeOK'
  <2>1. PeopleTypes'
    BY <1>5 DEF FallAsleep, WakeUp, GrowOld, PeopleTypes, Players, Ingame
  <2>2. VoteTypes'
    BY <1>5 DEF FallAsleep, WakeUp, GrowOld, VoteTypes, vote, Players
  <2>3. BallotTypes'
    BY <1>5 DEF FallAsleep, WakeUp, GrowOld, BallotTypes, history, ballots, Players
  <2> QED BY <2>1, <2>2, <2>3 DEF TypeOK
<1>6. ASSUME NEW i \in Slots, CallVote(i) PROVE TypeOK'
  <2>1. PICK k \in Kinds : \E v \in Target(i, k) :
          /\ StartVote(i, [kind |-> k, id |-> v, at |-> IF k = "ban" THEN addr[v] ELSE Nobody])
          /\ type' = TypeOf(k)
    BY <1>6 DEF CallVote
  <2>2. PICK v \in Target(i, k) :
          /\ StartVote(i, [kind |-> k, id |-> v, at |-> IF k = "ban" THEN addr[v] ELSE Nobody])
          /\ type' = TypeOf(k)
    BY <2>1
  <2>3. i \in Players /\ UNCHANGED people
    BY <1>6 DEF CallVote, Players, Ingame
  <2>4. v \in Slots \cup {Nobody} /\ (k = "ban" => v \in Slots)
    BY DEF Target, Playing, Ingame
  <2>5. (IF k = "ban" THEN addr[v] ELSE Nobody) \in Slots \cup {Nobody}
    BY <2>4 DEF PeopleTypes
  <2>6. TypeOf(k) \in {"unknown", "option", "kick", "spectate"}
    BY KindsAssumption DEF TypeOf, VoteKinds
  <2>7. VoteTypes' /\ BallotTypes'
    BY <2>2, <2>3, <2>4, <2>5, <2>6, StartTypes DEF people
  <2>8. PeopleTypes'
    BY <2>3 DEF people, PeopleTypes, Players, Ingame
  <2> QED BY <2>7, <2>8 DEF TypeOK
<1>7. ASSUME NEW i \in Slots, AskForMap(i) PROVE TypeOK'
  <2>1. PeopleTypes'
    BY <1>7 DEF AskForMap, PeopleTypes, Players, Ingame
  <2>2. VoteTypes'
    BY <1>7 DEF AskForMap, VoteTypes, vote, Players
  <2>3. BallotTypes'
    BY <1>7 DEF AskForMap, BallotTypes, history, ballots, Players
  <2> QED BY <2>1, <2>2, <2>3 DEF TypeOK
<1>8. ASSUME NEW i \in Slots, MapFound(i) PROVE TypeOK'
  <2>1. PeopleTypes'
    BY <1>8 DEF MapFound, PeopleTypes, Players, Ingame
  <2>2. i \in Players /\ UNCHANGED seat
    BY <1>8 DEF MapFound, PeopleTypes, Players, Ingame
  <2>3. CASE open
    <3>1. VoteTypes'
      BY <1>8, <2>2, <2>3 DEF MapFound, VoteTypes, Players
    <3>2. BallotTypes'
      BY <1>8, <2>2, <2>3 DEF MapFound, BallotTypes, history, ballots, Players
    <3> QED BY <2>1, <3>1, <3>2 DEF TypeOK
  <2>4. CASE ~open
    <3>1. StartVote(i, [kind |-> "option", id |-> Nobody, at |-> Nobody]) /\ type' = "option"
      BY <1>8, <2>4 DEF MapFound
    <3>2. VoteTypes' /\ BallotTypes'
      BY <2>2, <3>1, StartTypes
    <3> QED BY <2>1, <3>2 DEF TypeOK
  <2> QED BY <2>3, <2>4
<1>9. ASSUME NEW i \in Slots, Cancel(i) PROVE TypeOK'
  <2>1. PeopleTypes'
    BY <1>9 DEF Cancel, people, PeopleTypes, Players, Ingame
  <2>2. VoteTypes'
    BY <1>9 DEF Cancel, people, VoteTypes, Players
  <2>3. BallotTypes'
    BY <1>9 DEF Cancel, people, BallotTypes, history, ballots, Players
  <2> QED BY <2>1, <2>2, <2>3 DEF TypeOK
<1>10. ASSUME NEW i \in Slots, CastVote(i) PROVE TypeOK'
  <2>1. PeopleTypes'
    BY <1>10 DEF CastVote, people, PeopleTypes, Players, Ingame
  <2>2. VoteTypes'
    BY <1>10 DEF CastVote, people, VoteTypes, Players
  <2>3. BallotTypes'
    BY <1>10, BallotsAssumption DEF CastVote, people, BallotTypes, Players, Ingame
  <2> QED BY <2>1, <2>2, <2>3 DEF TypeOK
<1>11. ASSUME NEW i \in Slots, Login(i) \/ Moderate(i) PROVE TypeOK'
  <2>1. PeopleTypes'
    BY <1>11 DEF Login, Moderate, PeopleTypes, Players, Ingame
  <2>2. VoteTypes'
    BY <1>11 DEF Login, Moderate, VoteTypes, vote, Players
  <2>3. BallotTypes'
    BY <1>11 DEF Login, Moderate, BallotTypes, history, ballots, Players
  <2> QED BY <2>1, <2>2, <2>3 DEF TypeOK
<1>12. ASSUME ForceVote \/ TimeUp PROVE TypeOK'
  <2>1. PeopleTypes'
    BY <1>12 DEF ForceVote, TimeUp, people, PeopleTypes, Players, Ingame
  <2>2. VoteTypes'
    BY <1>12 DEF ForceVote, TimeUp, people, VoteTypes, Players
  <2>3. BallotTypes'
    BY <1>12 DEF ForceVote, TimeUp, people, BallotTypes, history, ballots, Players
  <2> QED BY <2>1, <2>2, <2>3 DEF TypeOK
<1>13. ASSUME NEW i \in Slots \cup {Nobody}, ForceOption(i) PROVE TypeOK'
  <2>1. PeopleTypes'
    BY <1>13 DEF ForceOption, people, PeopleTypes, Players, Ingame
  <2>2. VoteTypes'
    BY <1>13 DEF ForceOption, people, VoteTypes, PeopleTypes, Players
  <2>3. BallotTypes'
    BY <1>13 DEF ForceOption, people, BallotTypes, ballots, Players
  <2> QED BY <2>1, <2>2, <2>3 DEF TypeOK
<1>14. ASSUME VoteWithdrawn \/ VoteFails(Decision) PROVE TypeOK'
  <2>1. EndVote /\ UNCHANGED <<people, ballots, creator, update, callerHere>>
    BY <1>14 DEF VoteWithdrawn, VoteFails
  <2>2. PeopleTypes'
    BY <2>1 DEF people, PeopleTypes, Players, Ingame
  <2>3. VoteTypes'
    BY <2>1 DEF EndVote, people, VoteTypes, NoCommand, Players
  <2>4. BallotTypes'
    BY <2>1 DEF EndVote, people, ballots, BallotTypes, Players
  <2> QED BY <2>2, <2>3, <2>4 DEF TypeOK
<1>15. ASSUME VotePasses(Decision) PROVE TypeOK'
  <2>1. Forget(Hit(Decision)) /\ EndVote /\ UNCHANGED lastPos
    BY <1>15 DEF VotePasses, CarryOut
  <2>2. spec' \subseteq Players' /\ spec' \subseteq spec \cup Players
    <3>1. cmd.kind = "spectate" => Hit(Decision) = {}
      BY DEF Hit
    <3> QED BY <1>15, <2>1, <3>1 DEF VotePasses, CarryOut, PeopleTypes, Forget, Players
  <2>3. /\ PeopleTypes'
        /\ said' \in [Slots -> {-1, 0, 1}] /\ pos' \in [Slots -> 0 .. MaxBallots]
        /\ update' \in BOOLEAN /\ callerHere' \in BOOLEAN
        /\ creator' \in Players' \cup {Nobody}
    BY <2>1, <2>2, ForgetTypes
  <2>4. VoteTypes'
    BY <2>1, <2>3 DEF EndVote, VoteTypes, NoCommand
  <2>5. BallotTypes'
    BY <2>1, <2>3 DEF EndVote, BallotTypes
  <2> QED BY <2>3, <2>4, <2>5 DEF TypeOK
<1>16. ASSUME VoteGoesOn(Decision) PROVE TypeOK'
  <2>1. PeopleTypes'
    BY <1>16 DEF VoteGoesOn, people, PeopleTypes, Players, Ingame
  <2>2. VoteTypes'
    BY <1>16, DecisionType, WillPassType DEF VoteGoesOn, people, VoteTypes, Players, Results
  <2>3. BallotTypes'
    BY <1>16 DEF VoteGoesOn, people, BallotTypes, history, ballots, Players
  <2> QED BY <2>1, <2>2, <2>3 DEF TypeOK
<1>17. CASE UNCHANGED vars
  BY <1>17 DEF vars, people, ballots, vote, history, TypeOK, PeopleTypes, VoteTypes,
               BallotTypes, Players, Ingame
<1> QED
  BY <1>1, <1>2, <1>3, <1>4, <1>5, <1>6, <1>7, <1>8, <1>9, <1>10, <1>11, <1>12,
     <1>13, <1>14, <1>15, <1>16, <1>17
  DEF Next, Coming, Ageing, Voting, Ruling, VoteTick

(* The state of the votes has its types, whatever the constants are.         *)
THEOREM TypeCorrect == Spec => []TypeOK
BY TypeInit, TypeNext, PTL DEF Spec

----------------------------------------------------------------------------
(* Counting.                                                                 *)

LEMMA CountsAreNumbers == Yes \in Nat /\ No \in Nat /\ Total \in Nat
<1>1. IsFiniteSet(Slots)
  BY NumSlotsAssumption, FS_Interval DEF Slots
<1>2. \A S \in SUBSET Slots : Cardinality(S) \in Nat
  BY <1>1, FS_Subset, FS_CardinalityType
<1>3. Speakers \in SUBSET Slots
  BY DEF Speakers
<1> QED BY <1>2, <1>3 DEF Yes, No, Total

(* No yes is left of a client that is gone or of another vote.               *)
OwnVoices == open => \A j \in Slots : said[j] = 1 => j \in voters

(* If there is a yes to count, somebody who voted in this vote said it.      *)
LEMMA YesIsSomebodys ==
  ASSUME open, OwnVoices, Yes > 0
  PROVE  Agreed
<1>1. {i \in Speakers : Voice(i, 1)} # {}
  BY FS_EmptySet DEF Yes
<1>2. PICK i \in Speakers : Voice(i, 1)
  BY <1>1
<1>3. PICK j \in Behind(i) : said[j] = 1
  BY <1>2 DEF Voice
<1>4. j \in Slots
  BY DEF Behind, Players
<1> QED BY <1>3, <1>4 DEF OwnVoices, Agreed

(* More than a percentage of no matter how many is more than none.           *)
LEMMA MoreThanNone ==
  ASSUME NEW y \in Nat, NEW n \in Nat, 100 * y > n * YesPercentage
  PROVE  y > 0
<1>1. \A k \in Nat : n * k \in Nat
  OBVIOUS
<1>2. n * YesPercentage \in Nat
  BY <1>1, PercentageAssumption
<1> QED BY <1>2

LEMMA CountPassesAgreed == ASSUME open, OwnVoices, CountPasses PROVE Agreed
<1>1. Yes > 0
  BY CountsAreNumbers, MoreThanNone DEF CountPasses
<1> QED BY <1>1, YesIsSomebodys

LEMMA RecountAgreed ==
  ASSUME open, OwnVoices, Recount = "yes", enforce # "yes"
  PROVE  Agreed
<1>1. 100 * Yes > Total * YesPercentage
  BY DEF Recount
<1>2. Yes > 0
  BY <1>1, CountsAreNumbers, MoreThanNone
<1> QED BY <1>2, YesIsSomebodys

----------------------------------------------------------------------------
(* The invariant behind the promises of a vote.                              *)

(* m_VoteCreator is never somebody who has left.                             *)
CreatorIsHere == creator # Nobody => callerHere

(* Once the client a kick is against has left, the vote is as good as over.  *)
KickIsOff == barred /\ cmd.kind = "kick" => enforce \in {"abort", "cancel"}

(* What m_VoteWillPass remembers still holds while nothing asks to recount.  *)
CountIsFresh == open /\ willPass /\ ~update => Agreed

VoteInv == TypeOK /\ OwnVoices /\ CreatorIsHere /\ KickIsOff /\ CountIsFresh

LEMMA VoteInit == Init => VoteInv
BY TypeInit DEF Init, VoteInv, OwnVoices, CreatorIsHere, KickIsOff, CountIsFresh

(* A vote that starts has nothing of the one before.                         *)
LEMMA StartHolds ==
  ASSUME NEW i \in Slots, NEW c, StartVote(i, c)
  PROVE  (OwnVoices /\ CreatorIsHere /\ KickIsOff /\ CountIsFresh)'
<1>1. OwnVoices'
  BY DEF StartVote, FirstVoice, OwnVoices
<1>2. (CreatorIsHere /\ KickIsOff /\ CountIsFresh)'
  BY DEF StartVote, CreatorIsHere, KickIsOff, CountIsFresh
<1> QED BY <1>1, <1>2

LEMMA VoteNext == VoteInv /\ [Next]_vars => VoteInv'
<1> SUFFICES ASSUME VoteInv, [Next]_vars
             PROVE  (OwnVoices /\ CreatorIsHere /\ KickIsOff /\ CountIsFresh)'
  BY TypeNext DEF VoteInv
<1> TypeOK /\ OwnVoices /\ CreatorIsHere /\ KickIsOff /\ CountIsFresh
  BY DEF VoteInv
<1> DEFINE Rest == (CreatorIsHere /\ KickIsOff /\ CountIsFresh)'
<1>1. ASSUME NEW i \in Slots, Connect(i) PROVE OwnVoices' /\ Rest
  <2>1. i \notin voters /\ voters \subseteq Slots
    BY <1>1 DEF Connect, TypeOK, BallotTypes, Players
  <2>2. \A j \in Slots : said'[j] = IF j = i THEN 0 ELSE said[j]
    BY <1>1 DEF Connect, TypeOK, BallotTypes
  <2>3. OwnVoices' /\ (Agreed => Agreed')
    BY <1>1, <2>1, <2>2 DEF Connect, OwnVoices, Agreed, vote, history
  <2>4. (CreatorIsHere /\ KickIsOff)'
    BY <1>1 DEF Connect, CreatorIsHere, KickIsOff, vote, history
  <2> QED BY <1>1, <2>3, <2>4 DEF Connect, CountIsFresh, vote
<1>2. ASSUME NEW i \in Slots, Enter(i) \/ ChangeSides(i) PROVE OwnVoices' /\ Rest
  BY <1>2 DEF Enter, ChangeSides, ballots, history, OwnVoices, CreatorIsHere, KickIsOff,
              CountIsFresh
<1>3. ASSUME NEW i \in Slots, Leave(i) PROVE OwnVoices' /\ Rest
  <2>1. Forget({i})
    BY <1>3 DEF Leave
  <2>2. OwnVoices'
    BY <1>3, <2>1 DEF Leave, Forget, OwnVoices
  <2>3. CreatorIsHere'
    BY <2>1 DEF Forget, CreatorWithout, CreatorIsHere
  <2>4. KickIsOff'
    BY <1>3 DEF Leave, AbortsVote, KickIsOff
  <2>5. CountIsFresh'
    BY <2>1 DEF Forget, CountIsFresh
  <2> QED BY <2>2, <2>3, <2>4, <2>5
<1>4. ASSUME NEW i \in Slots, \/ FallAsleep(i) \/ WakeUp(i) \/ GrowOld(i)
                              \/ AskForMap(i) \/ Moderate(i)
      PROVE  OwnVoices' /\ Rest
  BY <1>4 DEF FallAsleep, WakeUp, GrowOld, AskForMap, Moderate, ballots, vote, history,
              OwnVoices, CreatorIsHere, KickIsOff, CountIsFresh, Agreed
<1>5. ASSUME NEW i \in Slots, CallVote(i) PROVE OwnVoices' /\ Rest
  <2>1. PICK c : StartVote(i, c)
    BY <1>5 DEF CallVote
  <2> QED BY <2>1, StartHolds
<1>6. ASSUME NEW i \in Slots, MapFound(i) PROVE OwnVoices' /\ Rest
  <2>1. CASE open
    BY <1>6, <2>1 DEF MapFound, ballots, history, OwnVoices, CreatorIsHere, KickIsOff,
                      CountIsFresh, Agreed
  <2>2. CASE ~open
    BY <1>6, <2>2, StartHolds DEF MapFound
  <2> QED BY <2>1, <2>2
<1>7. ASSUME NEW i \in Slots, Cancel(i) PROVE OwnVoices' /\ Rest
  BY <1>7 DEF Cancel, ballots, history, OwnVoices, CreatorIsHere, KickIsOff, CountIsFresh,
              Agreed
<1>8. ASSUME NEW i \in Slots, CastVote(i) PROVE OwnVoices' /\ Rest
  <2>1. OwnVoices'
    BY <1>8 DEF CastVote, TypeOK, BallotTypes, OwnVoices
  <2> QED BY <1>8, <2>1 DEF CastVote, CreatorIsHere, KickIsOff, CountIsFresh
<1>9. ASSUME NEW i \in Slots, Login(i) PROVE OwnVoices' /\ Rest
  BY <1>9 DEF Login, ballots, history, OwnVoices, CreatorIsHere, KickIsOff, CountIsFresh,
              Agreed
<1>10. ASSUME NEW i \in Slots \cup {Nobody}, ForceOption(i) PROVE OwnVoices' /\ Rest
  BY <1>10 DEF ForceOption, ballots, OwnVoices, CreatorIsHere, KickIsOff, CountIsFresh,
               Agreed
<1>11. ASSUME ForceVote \/ TimeUp PROVE OwnVoices' /\ Rest
  BY <1>11 DEF ForceVote, TimeUp, ballots, history, OwnVoices, CreatorIsHere, KickIsOff,
               CountIsFresh, Agreed
<1>12. ASSUME VoteWithdrawn \/ VoteFails(Decision) PROVE OwnVoices' /\ Rest
  BY <1>12 DEF VoteWithdrawn, VoteFails, EndVote, OwnVoices, CreatorIsHere, KickIsOff,
               CountIsFresh
<1>13. ASSUME VotePasses(Decision) PROVE OwnVoices' /\ Rest
  <2>1. Forget(Hit(Decision)) /\ EndVote
    BY <1>13 DEF VotePasses, CarryOut
  <2>2. CreatorIsHere'
    BY <2>1 DEF Forget, CreatorWithout, CreatorIsHere
  <2> QED BY <2>1, <2>2 DEF EndVote, OwnVoices, KickIsOff, CountIsFresh
<1>14. ASSUME VoteGoesOn(Decision) PROVE OwnVoices' /\ Rest
  <2>1. (OwnVoices /\ CreatorIsHere)'
    BY <1>14 DEF VoteGoesOn, ballots, history, OwnVoices, CreatorIsHere
  <2>2. KickIsOff'
    BY <1>14 DEF VoteGoesOn, Settled, history, KickIsOff
  <2>3. Agreed' <=> Agreed
    BY <1>14 DEF VoteGoesOn, ballots, history, Agreed
  <2>4. WillPass => Agreed
    <3>1. CASE update
      BY <1>14, <3>1, CountPassesAgreed DEF WillPass, VoteGoesOn, Settled
    <3>2. CASE ~update
      BY <1>14, <3>2 DEF WillPass, VoteGoesOn, Settled, CountIsFresh
    <3> QED BY <3>1, <3>2
  <2>5. CountIsFresh'
    BY <1>14, <2>3, <2>4 DEF VoteGoesOn, CountIsFresh
  <2> QED BY <2>1, <2>2, <2>5
<1>15. CASE UNCHANGED vars
  BY <1>15 DEF vars, ballots, vote, history, OwnVoices, CreatorIsHere, KickIsOff,
               CountIsFresh, Agreed
<1> QED
  BY <1>1, <1>2, <1>3, <1>4, <1>5, <1>6, <1>7, <1>8, <1>9, <1>10, <1>11, <1>12,
     <1>13, <1>14, <1>15
  DEF Next, Coming, Ageing, Voting, Ruling, VoteTick

LEMMA VoteInvariant == Spec => []VoteInv
BY VoteInit, VoteNext, PTL DEF Spec

----------------------------------------------------------------------------
(* The promises of a vote.                                                   *)

(* A kick that passes by its votes never meets whoever came after the client *)
(* it was called against: AbortVoteKickOnDisconnect always comes in time.    *)
THEOREM KicksItsVictim == Spec => KickHitsItsVictim
<1>1. VoteInv /\ [Next]_vars => [Passes /\ cmd.kind = "kick" => ~barred]_vars
  BY DEF VoteInv, KickIsOff, Passes, VotePasses, Settled
<1> QED BY <1>1, VoteInvariant, PTL DEF Spec, KickHitsItsVictim

(* A vote passes by a yes of this vote's, of a client that is still there.   *)
THEOREM PassesByItsYes == Spec => PassesByVoters
<1>1. ASSUME VoteInv, Passes, enforce # "yes" PROVE Agreed
  <2>1. open /\ Decision = "yes"
    BY <1>1 DEF Passes
  <2>2. OwnVoices /\ CountIsFresh
    BY <1>1 DEF VoteInv
  <2>3. WillPass => Agreed
    BY <2>1, <2>2, CountPassesAgreed DEF WillPass, CountIsFresh
  <2>4. CASE late /\ ~Majority
    BY <2>1, <2>3, <2>4 DEF Decision
  <2>5. CASE ~(late /\ ~Majority)
    BY <1>1, <2>1, <2>2, <2>5, RecountAgreed DEF Decision
  <2> QED BY <2>4, <2>5
<1>2. VoteInv /\ [Next]_vars => [Passes => Agreed \/ enforce = "yes"]_vars
  BY <1>1
<1> QED BY <1>2, VoteInvariant, PTL DEF Spec, PassesByVoters

(* m_VoteCreator never lets the next client in the slot cancel the vote.     *)
THEOREM CallerCancels == Spec => CancelIsTheCallers
<1>1. ASSUME VoteInv, Next, enforce' = "cancel", enforce # "cancel" PROVE callerHere
  <2>1. PICK i \in Slots : Cancel(i)
    <3>1. ASSUME VoteGoesOn(Decision) PROVE FALSE
      BY <1>1, <3>1 DEF VoteGoesOn
    <3>2. ASSUME EndVote PROVE FALSE
      BY <1>1, <3>2 DEF EndVote
    <3>3. ASSUME Coming \/ Ageing \/ Ruling \/ TimeUp PROVE FALSE
      BY <1>1, <3>3 DEF Coming, Connect, Enter, Leave, ChangeSides, Ageing, FallAsleep, WakeUp,
           GrowOld, Ruling, ForceVote, Login, Moderate, ForceOption, TimeUp, vote
    <3>4. ASSUME NEW i \in Slots, CallVote(i) \/ AskForMap(i) \/ MapFound(i) \/ CastVote(i)
          PROVE  FALSE
      BY <1>1, <3>4 DEF CallVote, AskForMap, MapFound, CastVote, StartVote, vote
    <3> QED BY <1>1, <3>1, <3>2, <3>3, <3>4
            DEF Next, Voting, VoteTick, VoteWithdrawn, VotePasses, VoteFails
  <2>2. creator # Nobody
    BY <2>1 DEF Cancel, Slots
  <2> QED BY <1>1, <2>2 DEF VoteInv, CreatorIsHere
<1>2. VoteInv /\ [Next]_vars => [enforce' = "cancel" /\ enforce # "cancel" => callerHere]_vars
  BY <1>1
<1> QED BY <1>2, VoteInvariant, PTL DEF Spec, CancelIsTheCallers
=============================================================================
