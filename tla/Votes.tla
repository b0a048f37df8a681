------------------------------- MODULE Votes -------------------------------
(* Votes of the game context: a client calls a vote, the others say yes or   *)
(* no, and OnTick counts when something changed and carries the command out. *)
(* Between two ticks clients come, go, change sides and fall asleep, the     *)
(* answer to a /map query arrives, and an admin forces a result.             *)
(*                                                                           *)
(* Times that only delay a message (spam protection, the time between votes) *)
(* are left out: a message that comes too early is one that never came.      *)
EXTENDS Integers, FiniteSets

CONSTANTS
  NumSlots,       \* client ids are 1 .. NumSlots
  Habits,         \* bound: what the client in a slot may be seen to do
  Kinds,          \* the commands a vote may carry out, as far as they differ
  YesPercentage,  \* sv_vote_yes_percentage
  Majority,       \* sv_vote_majority
  MaxBallots      \* bound: a vote gets at most as many messages

VoteKinds == {"option", "kick", "ban", "spectate"}
AllHabits == {"admin", "sleeper", "watcher", "mapper", "elder", "newcomer", "guest", "roamer"}
ASSUME NumSlotsAssumption == NumSlots \in Nat \ {0}
ASSUME HabitsAssumption == Habits \in [1 .. NumSlots -> SUBSET AllHabits]
ASSUME KindsAssumption == Kinds \subseteq VoteKinds
ASSUME PercentageAssumption == YesPercentage \in 1 .. 99
ASSUME MajorityAssumption == Majority \in BOOLEAN
ASSUME BallotsAssumption == MaxBallots \in Nat \ {0}

Slots == 1 .. NumSlots
Nobody == 0
Those(h) == {i \in Slots : h \in Habits[i]}

VARIABLES
  addr,       \* the IP address of whoever sits in a slot, if anybody does
  seat,       \* empty, a client that is ready, or one in the game
  spec,       \* the slots whose player is a spectator
  afk,        \* m_Afk
  age,        \* where the player stands to m_FirstVoteTick and the veto time
  authed,     \* the slots logged in to the remote console
  moderating, \* m_Moderating, of players who are not AFK
  asked,      \* the slots with a map query at the database
  said,       \* m_Vote: -1, 0 or 1
  pos,        \* m_VotePos of the players
  open,       \* m_VoteCloseTime # 0
  late,       \* time_get() > m_VoteCloseTime
  cmd,        \* m_aVoteCommand: its kind and the client it names
  type,       \* m_VoteType
  creator,    \* m_VoteCreator
  enforce,    \* m_VoteEnforce
  update,     \* m_VoteUpdate
  willPass,   \* m_VoteWillPass
  lastPos     \* m_VotePos of the game context

(* History, which no action looks at.                                        *)
VARIABLES
  barred,     \* whom the vote is against has left, and no admin ruled since
  callerHere, \* the client m_VoteCreator was set for is still connected
  voters      \* the slots whose client voted in this vote

people == <<addr, seat, spec, afk, age, authed, moderating, asked>>
ballots == <<said, pos, lastPos>>
vote == <<open, late, cmd, type, creator, enforce, update, willPass>>
history == <<barred, callerHere, voters>>
vars == <<people, ballots, vote, history>>

NoCommand == [kind |-> "none", id |-> Nobody, at |-> Nobody]

Init ==
  /\ seat = [i \in Slots |-> "empty"] /\ addr = [i \in Slots |-> Nobody]
  /\ spec = {} /\ afk = {} /\ authed = {} /\ moderating = {} /\ asked = {}
  /\ age = [i \in Slots |-> "fresh"]
  /\ said = [i \in Slots |-> 0] /\ pos = [i \in Slots |-> 0] /\ lastPos = 0
  /\ open = FALSE /\ late = FALSE /\ update = FALSE /\ willPass = FALSE
  /\ cmd = NoCommand /\ type = "unknown"
  /\ creator = Nobody /\ enforce = "unknown"
  /\ barred = FALSE /\ callerHere = FALSE /\ voters = {}

Players == {i \in Slots : seat[i] # "empty"}
Ingame == {i \in Slots : seat[i] = "ingame"}

(* A kick or a vote to spectate, which have rules of their own.              *)
Personal == type \in {"kick", "spectate"}

----------------------------------------------------------------------------
(* Coming and going.                                                         *)

(* OnClientConnected: a new CPlayer, zeroed by its pool, AFK until it moves; *)
(* within ten seconds of an empty server it may vote at once.  (A client     *)
(* that never sleeps moves before anything else happens; one that does not   *)
(* roam comes from an address of its own.)                                   *)
Connect(i) ==
  /\ seat[i] = "empty"
  /\ seat' = [seat EXCEPT ![i] = "ready"]
  /\ \E a \in Slots :
       /\ a = i \/ i \in Those("roamer")
       /\ addr' = [addr EXCEPT ![i] = a]
  /\ afk' = afk \cup ({i} \cap Those("sleeper"))
  /\ \E a \in {"settled"} \cup {x \in {"fresh"} : i \in Those("newcomer")} :
       age' = [age EXCEPT ![i] = a]
  /\ said' = [said EXCEPT ![i] = 0]
  /\ pos' = [pos EXCEPT ![i] = 0]
  /\ UNCHANGED <<spec, authed, moderating, asked, lastPos, vote, history>>

Enter(i) ==
  /\ seat[i] = "ready"
  /\ seat' = [seat EXCEPT ![i] = "ingame"]
  /\ update' = TRUE
  /\ UNCHANGED <<addr, spec, afk, age, authed, moderating, asked, ballots,
                 history, open, late, cmd, type, creator, enforce, willPass>>

(* Mutant: the abort was moved to the votes to spectate only.                *)
AbortsOnlySpectate(S) == open /\ cmd.kind = "spectate" /\ cmd.id \in S

(* AbortVoteKickOnDisconnect goes by the first word of the command: of what  *)
(* a call writes there, only "kick <id>" is one it looks for.                *)
AbortsVote(S) == open /\ cmd.kind = "kick" /\ cmd.id \in S

(* Mutant: m_VoteCreator outlives its client.                                *)
CreatorKept(S) == creator

(* Who may take the vote back once the clients S are gone.                   *)
CreatorWithout(S) == IF creator \in S THEN Nobody ELSE creator

(* OnClientDrop for the clients S, which took down all that was theirs.      *)
Forget(S) ==
  /\ seat' = [i \in Slots |-> IF i \in S THEN "empty" ELSE seat[i]]
  /\ addr' = [i \in Slots |-> IF i \in S THEN Nobody ELSE addr[i]]
  /\ afk' = afk \ S /\ authed' = authed \ S
  /\ moderating' = moderating \ S /\ asked' = asked \ S
  /\ age' = [i \in Slots |-> IF i \in S THEN "fresh" ELSE age[i]]
  /\ said' = [i \in Slots |-> IF i \in S THEN 0 ELSE said[i]]
  /\ pos' = [i \in Slots |-> IF i \in S THEN 0 ELSE pos[i]]
  /\ update' = (update \/ S # {})
  /\ creator' = CreatorWithout(S)
  /\ callerHere' = (callerHere /\ creator \notin S)

Leave(i) ==
  /\ i \in Players \cap Those("guest")
  /\ Forget({i})
  /\ spec' = spec \ {i}
  /\ enforce' = IF AbortsVote({i}) THEN "abort" ELSE enforce
  /\ barred' = (barred \/ (open /\ cmd.id = i))
  /\ voters' = voters \ {i}
  /\ UNCHANGED <<lastPos, open, late, cmd, type, willPass>>

(* OnSetTeamNetMessage.                                                      *)
ChangeSides(i) ==
  /\ i \in Ingame \cap Those("watcher")
  /\ spec' = IF i \in spec THEN spec \ {i} ELSE spec \cup {i}
  /\ update' = TRUE
  /\ UNCHANGED <<addr, seat, afk, age, authed, moderating, asked, ballots, history,
                 open, late, cmd, type, creator, enforce, willPass>>

(* SetAfk does not ask for a recount; a moderator who sleeps is none any     *)
(* more when the next tick gets to the vote.                                 *)
FallAsleep(i) ==
  /\ i \in (Ingame \cap Those("sleeper")) \ afk
  /\ afk' = afk \cup {i} /\ moderating' = moderating \ {i}
  /\ UNCHANGED <<addr, seat, spec, age, authed, asked, ballots, vote, history>>

WakeUp(i) ==
  /\ i \in Ingame \cap afk
  /\ afk' = afk \ {i}
  /\ UNCHANGED <<addr, seat, spec, age, authed, moderating, asked, ballots, vote, history>>

GrowOld(i) ==
  /\ i \in Players
  /\ age[i] = "fresh" \/ (age[i] = "settled" /\ i \in Those("elder"))
  /\ age' = [age EXCEPT ![i] = IF age[i] = "fresh" THEN "settled" ELSE "veteran"]
  /\ UNCHANGED <<addr, seat, spec, afk, authed, moderating, asked, ballots, vote, history>>

----------------------------------------------------------------------------
(* Calling, voting, cancelling.                                              *)

(* Mutant: StartVote leaves the voices of the vote before.                   *)
OldVoicesStay(i) ==
  /\ said' = [said EXCEPT ![i] = 1]
  /\ pos' = [pos EXCEPT ![i] = 1]

(* Nobody has voted yet but the creator.                                     *)
FirstVoice(i) ==
  /\ said' = [j \in Slots |-> IF j = i THEN 1 ELSE 0]
  /\ pos' = [j \in Slots |-> IF j = i THEN 1 ELSE 0]

(* CallVote and StartVote, for the client i.                                 *)
StartVote(i, c) ==
  /\ open' = TRUE /\ late' = FALSE /\ cmd' = c
  /\ creator' = i /\ enforce' = "unknown" /\ update' = TRUE
  /\ FirstVoice(i) /\ lastPos' = 1
  /\ barred' = FALSE /\ callerHere' = TRUE /\ voters' = {i}
  /\ UNCHANGED willPass

(* OnCallVoteNetMessage, of a client that gets past its refusals: the client *)
(* named is another one that plays, of no higher authority.  A ban is what a *)
(* kick is unless sv_vote_kick_bantime is 0.                                 *)
Playing == Ingame \ spec
TypeOf(k) == IF k = "ban" THEN "kick" ELSE k
Target(i, k) ==
  IF k = "option" THEN {Nobody}
  ELSE IF i \notin Playing THEN {}
  ELSE {v \in Playing \ {i} : v \in authed => i \in authed}

CallVote(i) ==
  /\ i \in Ingame /\ ~open /\ age[i] # "fresh"
  /\ \E k \in Kinds : \E v \in Target(i, k) :
       /\ StartVote(i, [kind |-> k, id |-> v, at |-> IF k = "ban" THEN addr[v] ELSE Nobody])
       /\ type' = TypeOf(k)
  /\ UNCHANGED people

(* ConMap asks for a map under the same conditions; its answer comes when    *)
(* the database has it, and ProcessScoreResult sets the type before CallVote *)
(* finds out whether a vote is running.                                      *)
AskForMap(i) ==
  /\ i \in (Ingame \cap Those("mapper")) \ asked /\ ~open /\ age[i] # "fresh"
  /\ asked' = asked \cup {i}
  /\ UNCHANGED <<addr, seat, spec, afk, age, authed, moderating, ballots, vote, history>>

MapFound(i) ==
  /\ i \in asked
  /\ asked' = asked \ {i}
  /\ type' = "option"
  /\ \/ /\ open
        /\ UNCHANGED <<ballots, history, open, late, cmd, creator, enforce,
                       update, willPass>>
     \/ ~open /\ StartVote(i, [kind |-> "option", id |-> Nobody, at |-> Nobody])
  /\ UNCHANGED <<addr, seat, spec, afk, age, authed, moderating>>

(* OnVoteNetMessage: the creator's no takes the vote back.                   *)
Cancel(i) ==
  /\ open /\ i \in Ingame /\ i = creator
  /\ enforce' = "cancel"
  /\ UNCHANGED <<people, ballots, history, open, late, cmd, type, creator,
                 update, willPass>>

CastVote(i) ==
  /\ open /\ i \in Ingame /\ lastPos < MaxBallots
  /\ \E v \in {-1, 1} :
       /\ ~(i = creator /\ v = -1)
       /\ said' = [said EXCEPT ![i] = v]
  /\ lastPos' = lastPos + 1
  /\ pos' = [pos EXCEPT ![i] = lastPos + 1]
  /\ update' = TRUE
  /\ voters' = voters \cup {i}
  /\ UNCHANGED <<people, open, late, cmd, type, creator, enforce, willPass,
                 barred, callerHere>>

----------------------------------------------------------------------------
(* What the admin does.                                                      *)

(* OnSetAuthed: the login of the client a ban is voted on stops that vote.   *)
Login(i) ==
  /\ i \in (Players \cap Those("admin")) \ authed
  /\ authed' = authed \cup {i}
  /\ enforce' = IF /\ open /\ cmd.kind = "ban" /\ cmd.at = addr[i]
                   /\ creator \notin authed
                THEN "no_admin" ELSE enforce
  /\ UNCHANGED <<addr, seat, spec, afk, age, moderating, asked, ballots, history,
                 open, late, cmd, type, creator, update, willPass>>

Moderate(i) ==
  /\ i \in (Ingame \cap authed) \ afk
  /\ moderating' = IF i \in moderating THEN moderating \ {i} ELSE moderating \cup {i}
  /\ UNCHANGED <<addr, seat, spec, afk, age, authed, asked, ballots, vote, history>>

(* ForceVote, by "vote yes" and "vote no".                                   *)
ForceVote ==
  /\ open
  /\ \E e \in {"yes_admin", "no_admin"} : enforce' = e
  /\ barred' = FALSE
  /\ UNCHANGED <<people, ballots, open, late, cmd, type, creator, update,
                 willPass, callerHere, voters>>

(* ConForceVote "option": whoever forces an option becomes m_VoteCreator,    *)
(* also of a vote that is running.                                           *)
ForceOption(i) ==
  /\ i \in authed \cup {Nobody}
  /\ creator' = i
  /\ callerHere' = (i # Nobody)
  /\ UNCHANGED <<people, ballots, open, late, cmd, type, enforce, update,
                 willPass, barred, voters>>

----------------------------------------------------------------------------
(* OnTick: counting.                                                         *)

TimeUp == open /\ ~late /\ late' = TRUE
          /\ UNCHANGED <<people, ballots, history, open, cmd, type, creator,
                         enforce, update, willPass>>

(* Whom the count takes: not the sleepers, and in a personal vote neither    *)
(* spectators nor those who just came.                                       *)
Counted(i) ==
  /\ i \in Ingame
  /\ i \in afk => i = creator
  /\ Personal => i \notin spec /\ age[i] # "fresh"

(* Players of one address have one voice, the newest of theirs, and the      *)
(* first of them that counts speaks for those behind it.                     *)
Behind(i) == {j \in Players : j >= i /\ addr[j] = addr[i]}
Speakers ==
  {i \in Slots : Counted(i) /\ ~\E h \in Slots : h < i /\ Counted(h) /\ addr[h] = addr[i]}
Voice(i, v) == \E j \in Behind(i) : said[j] = v /\ \A k \in Behind(i) : pos[k] <= pos[j]

Total == Cardinality(Speakers)
Yes == Cardinality({i \in Speakers : Voice(i, 1)})
No == Cardinality({i \in Speakers : Voice(i, -1)})

(* Veterans may veto a vote on an option: silence withholds the early yes,   *)
(* a no ends the vote.                                                       *)
Vetoer(i) == \E j \in Behind(i) : j \notin afk \cup spec /\ age[j] = "veteran"
Veto == ~Personal /\ \E i \in Speakers : Vetoer(i) /\ Voice(i, 0)
VetoStop == ~Personal /\ \E i \in Speakers : Vetoer(i) /\ Voice(i, -1)

Recount ==
  IF VetoStop THEN "no"
  ELSE IF 100 * Yes > Total * YesPercentage /\ ~Veto THEN "yes"
  ELSE IF 100 * No >= Total * (100 - YesPercentage) THEN "no"
  ELSE enforce
CountPasses == 100 * Yes > (Yes + No) * YesPercentage

(* m_VoteWillPass and m_VoteEnforce once the tick has counted; a veto is     *)
(* only known in a tick that counts.                                         *)
WillPass == IF update THEN CountPasses ELSE willPass
Decision ==
  IF late /\ ~Majority
    THEN IF WillPass /\ ~(update /\ Veto) THEN "yes" ELSE "no"
    ELSE IF update THEN Recount ELSE enforce

(* EndVote.  What nothing reads before the next StartVote has set it is not  *)
(* kept; the voices of the players and m_VoteCreator are.                    *)
EndVote ==
  /\ open' = FALSE /\ late' = FALSE /\ willPass' = FALSE
  /\ cmd' = NoCommand /\ type' = "unknown" /\ enforce' = "unknown"
  /\ barred' = FALSE /\ voters' = {}

(* Console()->ExecuteLine of the command.  A ban on behalf of the voters is  *)
(* denied when somebody logged in shares the address (BanExt).               *)
Banned == {i \in Players : addr[i] = cmd.at}

Hit(e) ==
  CASE cmd.kind = "kick" -> {cmd.id} \cap Players
    [] cmd.kind = "ban" /\ (e = "yes" => Banned \cap authed = {}) -> Banned
    [] OTHER -> {}
CarryOut(e) ==
  /\ Forget(Hit(e))
  /\ spec' = IF cmd.kind = "spectate" THEN spec \cup ({cmd.id} \cap Players) ELSE spec \ Hit(e)
  /\ UNCHANGED lastPos

(* A vote that was aborted or taken back ends before anything is counted.    *)
VoteWithdrawn ==
  /\ open /\ enforce \in {"abort", "cancel"}
  /\ EndVote
  /\ UNCHANGED <<people, ballots, creator, update, callerHere>>

(* Mutant: a moderated vote is held back without end.                        *)
HeldForever == moderating # {} /\ Personal

(* While somebody moderates, a personal vote passes no earlier than its end. *)
Moderated == moderating # {} /\ Personal /\ ~late
Settled == open /\ enforce \notin {"abort", "cancel"}

VotePasses(d) ==
  /\ Settled
  /\ \/ d = "yes" /\ ~Moderated
     \/ d = "yes_admin"
  /\ CarryOut(d)
  /\ EndVote

VoteFails(d) ==
  /\ Settled
  /\ \/ d \in {"no", "no_admin"}
     \/ d = "unknown" /\ late
  /\ EndVote
  /\ UNCHANGED <<people, ballots, creator, update, callerHere>>

VoteGoesOn(d) ==
  /\ Settled
  /\ \/ d = "unknown" /\ ~late
     \/ d = "yes" /\ Moderated
  /\ enforce' = d /\ willPass' = WillPass
  /\ update' = FALSE
  /\ UNCHANGED <<people, ballots, history, open, late, cmd, type, creator>>

VoteTick ==
  \/ VoteWithdrawn
  \/ open /\ \E d \in {Decision} : VotePasses(d) \/ VoteFails(d) \/ VoteGoesOn(d)

----------------------------------------------------------------------------
Coming == \E i \in Slots : Connect(i) \/ Enter(i) \/ Leave(i) \/ ChangeSides(i)
Ageing == \E i \in Slots : FallAsleep(i) \/ WakeUp(i) \/ GrowOld(i)
Voting == \E i \in Slots : CallVote(i) \/ AskForMap(i) \/ MapFound(i) \/ Cancel(i) \/ CastVote(i)
Ruling == ForceVote \/ (\E i \in Slots : Login(i) \/ Moderate(i)) \/ \E i \in Slots \cup {Nobody} : ForceOption(i)

Next == Coming \/ Ageing \/ Voting \/ Ruling \/ TimeUp \/ VoteTick
Spec == Init /\ [][Next]_vars

(* The clock runs and the server ticks.                                      *)
Fairness == WF_vars(TimeUp) /\ WF_vars(VoteTick)
FairSpec == Spec /\ Fairness

----------------------------------------------------------------------------
(* The types of all variables.                                               *)
PeopleTypes ==
  /\ seat \in [Slots -> {"empty", "ready", "ingame"}]
  /\ addr \in [Slots -> Slots \cup {Nobody}]
  /\ age \in [Slots -> {"fresh", "settled", "veteran"}]
  /\ spec \subseteq Players /\ afk \subseteq Players /\ authed \subseteq Players
  /\ moderating \subseteq Ingame /\ asked \subseteq Ingame
VoteTypes ==
  /\ open \in BOOLEAN /\ late \in BOOLEAN /\ update \in BOOLEAN /\ willPass \in BOOLEAN
  /\ cmd \in [kind : Kinds \cup {"option", "none"}, id : Slots \cup {Nobody},
              at : Slots \cup {Nobody}]
  /\ type \in {"unknown", "option", "kick", "spectate"}
  /\ creator \in Players \cup {Nobody}
  /\ enforce \in {"unknown", "no", "yes", "no_admin", "yes_admin", "abort", "cancel"}
BallotTypes ==
  /\ said \in [Slots -> {-1, 0, 1}] /\ pos \in [Slots -> 0 .. MaxBallots]
  /\ lastPos \in 0 .. MaxBallots
  /\ barred \in BOOLEAN /\ callerHere \in BOOLEAN /\ voters \subseteq Players
TypeOK == PeopleTypes /\ VoteTypes /\ BallotTypes

(* The vote passes by the count and not by an admin.                         *)
Passes == open /\ ~open' /\ Decision = "yes" /\ VotePasses("yes")

(* The voters kick the client the vote was called against and nobody who     *)
(* came to its slot later: once it has left, the vote cannot pass, unless an *)
(* admin rules on it in the same tick and so overwrites the abort.           *)
KickHitsItsVictim == [][Passes /\ cmd.kind = "kick" => ~barred]_vars

(* A vote that passes has the yes of somebody who is connected and voted in  *)
(* this very vote: no voice outlives its client or the vote it was given in. *)
(* The exception is a vote that had passed before and was held back for a    *)
(* moderator, see PassesByItsVoters.                                         *)
Agreed == \E i \in voters : said[i] = 1
PassesByVoters == [][Passes => Agreed \/ enforce = "yes"]_vars

(* Only the client that called the vote, or last forced an option, takes it  *)
(* back: the right does not pass on to the next client in its slot.          *)
CancelIsTheCallers == [][enforce' = "cancel" /\ enforce # "cancel" => callerHere]_vars

(* Every vote ends, whoever leaves, sleeps or moderates.                     *)
EveryVoteEnds == open ~> ~open
=============================================================================
