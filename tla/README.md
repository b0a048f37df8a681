# Verification of the Bombtag server

The repository is a DDNet server (by way of Kaizo Network) whose own game mode is
*Bombtag*: some players are bombs, a bomb is passed on by hitting somebody with the
hammer, a bomb whose time is up explodes, the last player alive wins.  This directory
holds TLA+ modules of the parts of the server that decide about such a round, of the votes
around it, of the database pool that keeps its results, of the connections that carry its
messages and of the job pool; TLC configurations that check them on small instances; and
proofs about them for instances of every size.  Paths below are relative to the
repository's `src/` directory unless they start with `README.md`.

## 1. The system

The game server is one thread (`CServer::Run`, engine/server/server.cpp), with two more for
the database, some for jobs and one for HTTP.  It pumps the network, runs console commands,
reloads the map if asked to, and runs one `CGameContext::OnTick` for every 20 ms that have
passed.  Everything that happens between two ticks happens in an order chosen by clients
and administrators; inside a tick the order is fixed by the code.

| Component | State | Operations | Talks to |
|---|---|---|---|
| Bombtag round (game/server/gamemodes/Bomb.cpp) | `m_aPlayers[i]`: `m_State`, `m_Bomb`, `m_Tick`, AFK counter, kill counters; `m_RoundActive` | the controller's callbacks (connect, disconnect, spawn, death, damage, team change, reset) and `Tick` = AFK rule, enqueued map, `StartBombRound`, `DoWinCheck` | calls into players, characters, world; called by all of them |
| base controller (gamecontroller.cpp) | `m_Warmup`, `m_GameOverTick`, `m_aEnqueuedMap` | `DoWarmup`, `StartRound`, `EndRound`, `Tick` | world (`m_ResetRequested`, `m_Paused`) |
| players (player.cpp) | `m_Team`, `m_pCharacter`, respawn timers | `SetTeam`, `KillCharacter`, `TryRespawn`, `Tick` | characters, controller |
| characters (entities/character.cpp) | position, weapon, freeze | hammer, `TakeDamage`, `Die` | controller (`OnTakeDamage`, `OnCharacterDeath`) |
| world (gameworld.cpp) | entity lists, `m_Paused`, `m_ResetRequested` | `Tick`, `Reset` | controller (`OnReset`) |
| game context (gamecontext.cpp, ddracecommands.cpp) | players, votes, mutes | messages, console commands, `OnTick` | everything above |
| votes (gamecontext.cpp, ddracechat.cpp, player.cpp) | `m_VoteCloseTime`, `m_aVoteCommand`, `m_VoteType`, `m_VoteCreator`, `m_VoteEnforce`, `m_VoteUpdate`, `m_VoteWillPass`; `m_Vote`, `m_VotePos`, `m_Afk`, `m_Moderating` of each player | call, cast, take back, force, moderate, count, carry out, abort | players, console, bans |
| server main loop and clients (engine/server/server.cpp) | `m_aClients[i].m_State`, persistent data, `m_MapReload` | READY, ENTERGAME, drop, `ChangeMap`, `LoadMap` | game context |
| mutes, DDRace teams, saves (mutes.cpp, teams.cpp, save.cpp) | lists; team of each player | add, expire; join, lock, kill | players |
| flags of the mode (Bomb.cpp `FlagTick`, entities/kz/flag.cpp) | carrier, at stand, drop time | grab, drop, return, capture | characters |
| database pool (score.cpp, scoreworker.cpp, databases/connection_pool.cpp) | a ring of queries, two semaphores, `m_Shutdown`; connections and fail mode of the worker | `Execute`, `ExecuteWrite`, registration, `OnShutdown`; the loops of the backup thread and of the worker | databases; players and controller poll the results |
| reliable connection (engine/shared/network_conn.cpp, network.cpp, ringbuffer.cpp) | `m_Sequence`, `m_Ack`, `m_PeerAck`, `m_Buffer`, `m_Construct`, timers | queue, flush, feed, resend, time out, take over | network server, server |
| job pool (engine/shared/jobs.cpp), HTTP (http.cpp) | a linked list of jobs, `m_RunningJobs`, a semaphore, the state of each job | add, run, abort, shut down | server, client |

### What is hard, and what makes each component right

* *Bombtag round.*  Nine handlers write `m_State`, and most of them before or after a call
  that reads it back: `CanJoinTeam` writes it although its name asks a question;
  `ExplodeBomb` writes it first so that `OnCharacterDeath` does not eliminate the player a
  second time.  `m_State`, `m_Bomb`, `m_Team` and the existence of a player or a tee are four
  views of one thing, held together by nothing but the order of calls.  The mode is right if
  the four agree whenever a pointer is followed on the strength of one of them; if nobody is
  ALIVE outside a round or comes back during one; if each player is recorded once in the
  score database, with what it earned and nobody else; if the point goes to the last one
  alive; if a round ends and the next one comes; and if a spectator is left alone.
* *Clocks.*  A warmup counts down, a game over counts up, a pause stops the world but not the
  controller, a reset of the world happens one tick after it was asked for.  Three console
  commands set them at any time.
* *Maps.*  A map change deletes the game and sends every client back to loading; what is kept
  is decided by the state each client is in at that moment.
* *Votes.*  A vote names slots, not clients, and slots change hands while it runs; one
  variable, `m_VoteEnforce`, is written by the count, the clock, the admin, the caller, a
  login and a disconnect, between and inside ticks.  Right if a vote hits whom it was called
  against, passes by voices that were given in it, is taken back only by its caller, and
  always ends.
* *Connection.*  Lost, repeated and reordered packets, sequence numbers modulo 1024, a
  buffer that fills up, a connection that is handed to a new address.  Right if what arrives
  is a prefix of what was sent, and all of it arrives in the end.
* *Database pool.*  Three threads count their way around one ring without a lock; a write is
  copied first, executed, and its copy deleted or moved, each step of which can fail or be the
  last before a crash.  Right if every query is answered once and in order, a shutdown ends
  after the last of them, and a score that is in some table never leaves its last one.
* *Job pool.*  Threads that fetch, skip, start, run and end jobs while the main thread aborts
  them and shuts down.  Right if an abort holds, if jobs are taken in order, and if
  `Shutdown` returns, after everything it has to wait for and no sooner.

`PROJECT.json` lists the hazards at their lines, with the properties that would catch them.

## 2. Modules

| Module | What it is |
|---|---|
| `BombTag` | the round, with its state machine, properties, and the mutated operators the properties are tested with |
| `BombStats` | `BombTag` with the three counters of a slot that go into the statistics, over several rounds and maps |
| `MCBombTag`, `MCBombStats` | instances for TLC, and a statement of the repository the code does not keep |
| `BombTag_proof`, `BombRound_proof` | theorems about `BombTag`: consistency of the slots and the winner; the course of a round, spectators and fuses |
| `BombStats_proof` | theorems about `BombStats`, on top of those |
| `Votes`, `MCVotes`, `Votes_proof` | the votes, instances (with a statement the code does not keep), theorems |
| `Channel` | what a set of connections promises: in each direction, in order, once, and everything |
| `NetConn` | both ends of every line, the packets between them, and that they implement `Channel` |
| `NetTakeover` | `NetConn` with timeout protection, which moves a player to another connection |
| `MCNetConn`, `NetConn_proof` | instances, theorems |
| `DbService` | what the game may rely on when it hands a query to the database pool |
| `DbPool` | the pool: main thread, backup thread, worker, ring, semaphores, rows; that it implements `DbService` |
| `MCDbPool`, `DbPool_proof` | instances (with a statement the code does not keep), theorems |
| `JobService` | what the owner of a job may rely on |
| `JobPool` | the worker threads and the main thread, one action per critical section or atomic step |
| `JobQueue` | the linked list of `JobPool` as a queue, and that the pool implements `JobService`.  The queue is not followed from link to link but chosen: it is the only sequence without repetition that begins at `first` and agrees with `next` |
| `MCJobPool`, `JobPool_proof`, `JobQueue_proof` | instances; theorems about the states of jobs and threads; theorems about the list, the signals and the shutdown |

`BombStats` composes the round with its statistics by conjoining each action of `BombTag`
with what it does to the counters; `NetTakeover` adds an action to `NetConn`.  The round and
the database pool meet in `SaveStats`: `BombTag` counts the calls (`saves`), `DbPool` has what
becomes of each one (the kind `stats`).  The pool never calls back into the game, which polls
`m_Completed`, so these two are not composed.  Votes reach the round only through
console commands (`set_team` among them, a kick is a `Drop`), which `BombTag` takes
at any time.

### BombTag: state

| Variable | Code |
|---|---|
| `seat[c]` | `CServer::m_aClients[c].m_State`: empty, loading (CONNECTING), ready, ingame.  The states before CONNECTING have no effect on the game and count as empty. |
| `team[c]` | `CPlayer::m_Team`, SPEC for a slot without player |
| `chr[c]` | `CPlayer::GetCharacter()` is not null |
| `state[c]` | `m_aPlayers[c].m_State` |
| `fuse[c]` | `m_aPlayers[c].m_Tick` if `m_Bomb`, else `NoBomb` |
| `saves[c]`, `award[c]` | `SaveStats` calls and points since the round began: they are not stored anywhere in the code but sent to the database and added to `m_Score` |
| `roundActive`, `warmup`, `paused`, `resetRequested` | as in the code |
| `gameOver` | ticks since `m_GameOverTick`, -1 for none |
| `enqueued`, `mapReload` | `m_aEnqueuedMap` is not empty; `m_MapReload` |
| `rejoin` | clients whose persistent data says `m_IsSpectator` |
| `pc`, `idx` | the phase of `OnTick` and the loop variable of `DoWinCheck` |

### BombTag: actions

Between ticks (`pc = "net"`): `Connect` (READY), `Enter` (ENTERGAME), `Drop`,
`SetTeamMessage`, `Hit` and `Die` (early input, the kill message), the console commands
`ConSetTeam`, `ConPause`, `ConRestart`, `ConRestartIn`, `ConEnqueueMap`, and `LoadMap` by
the main loop, which finds the map (`NewMap`) or does not (`MapMissing`).

A tick is the sequence

    BeginTick -> (Hit | Die)* -> BaseTick -> AfkLogic
      -> ChangeToEnqueuedMap
       | (StartBombRound | NoStart) -> WinCheck -> (Refill -> Burn) for each slot -> Bench
      -> PlayerTicks

which is `CGameWorld::Tick`, `IGameController::Tick`, `DoAfkLogic`, the rest of
`CGameControllerBomb::Tick`, `DoWinCheck`, and `CPlayer::Tick` of every player.  The loop of
`DoWinCheck` is unrolled because exploding one slot changes what it finds at the next.
Nothing can interleave with these phases in the code, and nothing does in the model: the
phases are separate actions only to keep each one readable, and the few properties that do
not hold in the middle of a tick say at which `pc` they are meant.

### BombTag: what is abstracted

* Positions, weapons and timers of respawning: who hits whom, who dies and who respawns is
  any choice the code's conditions allow.  The AFK counter likewise: any subset of the
  players with a tee may be found inactive.
* `m_Tick` is cut off at -1.  The code compares it with 0 only (and with the minimum when
  the bomb is passed, which -1 is below as well).
* `saves` stops at 2.  One enqueued map stands for all names, and enqueuing over an enqueued
  map changes nothing.
* The configuration is fixed during a run, `bombtag_bomb_weapon` is the hammer (its default:
  with another weapon the holder of the bomb hits with that one), `sv_tournament_mode` and
  `sv_inactivekicktime` are off (defaults).
* Left out: mystery rounds, which run console scripts; `/pause` and `/spec`; DDRace teams,
  which Bombtag leaves at 0; the flags; server bots.  The kill counters are in `BombStats`.

### DbPool: state

Queries are numbered in the order in which they are put; `submitted`, `seen` and `taken` count
those the main thread has put, the backup thread has looked at and the worker has taken.  The
code keeps the first modulo 512 (`m_InsertIdx`) and reduces the other two (`JobNum`) on every
access: `Place`.

| Variable | Code |
|---|---|
| `queue[s]` | `m_aQueries[s]`, the number of its query or `NoQuery` for null |
| `kind[q]` | `m_Mode` of the query; `write` is a `WRITE_ACCESS` that heeds its `Write` argument (`SaveScore`), `stats` one that does not (`SaveStats`); `add_*` are `ADD_MYSQL` and `ADD_SQLITE` by their target |
| `main` | where the main thread is: about to signal, in the loop of `OnShutdown`, in the destructor |
| `closing` | the shared `m_Shutdown` |
| `numBackup`, `numWorker` | the semaphores; the two counters inside `CSemaphore` are one here |
| `backup`, `backupQuery`, `backupReady` | the backup thread: in `Wait`, processing, returned; `pThreadData`; whether its `m_pWriteBackup` is set |
| `worker`, `query`, `success`, `failMode` | the worker: head of the loop, in `Wait`, executing, settling, returned; its locals |
| `servers` | which of the worker's connections exist |
| `primary[q]`, `spare[q]`, `moved[q]` | rows of a score: on the write server, in the backup database's `..._backup` table, in its table proper |
| `answer[q]` | how the query ended |

### DbPool: actions

`Put` and `Signal` are the two halves of `Execute`, `ExecuteWrite`, `Register...` and `Print`;
`OnShutdown`, `Waited` and `Joined` the shutdown and the destructor.  The backup thread does
`(BackupTake BackupCopy)* BackupLeave`, the worker
`(WorkerHead WorkerTake (ExecuteRead | ExecuteAdd | ExecuteWrite SettleWrite))* WorkerLeave`.

A step is what a thread does between two accesses to what the threads share.  A `Wait` and the
access to the slot it guards are one step, and so are processing a query and the `Signal` after
it: nobody else touches the slot between them as long as the ring is not overrun, and nobody
else can observe a row.  `m_Shutdown` is read at the start of a query; since nothing that
`OnShutdown` writes depends on the query, a query that read `false` and ends later is the same as
one that ended before.

Abstracted: SQL, and with it everything that can happen to a statement but three outcomes: it is
carried out, it is refused (no connection, a timeout, an error), or it is carried out and the
connection breaks before the answer (`lost`); of the two statements of a move the second may fail
(`half`).  Which one happens is a free choice for each statement.  The points added with a score,
and `SaveTeam` and `LoadTeam`, whose writes of their own go through the same pool, are left out;
to the ring, the semaphores and the order of answers a `LoadTeam` is a `stats`.  `PrepareStatement`
succeeds for `SaveStats`: should it fail, the code would bind to a null statement.

`MaxBacklog` keeps the ring from being overrun, which the code does not (see *Findings without a
run*).

### BombStats

`earned[c]` stands for `m_HammerKills`, `m_CollateralKills` and `m_RoundsSurvived` of a slot,
all three together.  Their sizes do not matter, only whose they are: nothing, the client's
own since its last record, something already recorded or left behind by another client
(`spent`), or something that no reset comes for (`kept`).  `again` marks the error: what was recorded is
recorded another time.  `Recorded` is `SaveStats`, `Zeroed` the loop of `OnReset`, `Gained`
the four places that count up (a hammer blow that takes a fuse to its end, an explosion that catches
somebody, surviving a pick, surviving a round).

### Votes: state and actions

| Variable | Code |
|---|---|
| `seat`, `addr`, `spec`, `authed` | the client state, its IP address, its team, its login, by slot |
| `afk`, `moderating` | `CPlayer::m_Afk`, `m_Moderating` |
| `age` | how long ago the player came, as far as votes ask: before `m_FirstVoteTick`, after it, old enough for a veto |
| `asked` | slots with a `/map` query under way (`m_ScoreQueryResult` of the player) |
| `said`, `pos`, `lastPos` | `CPlayer::m_Vote`, `CPlayer::m_VotePos`, `CGameContext::m_VotePos` |
| `open`, `late` | `m_VoteCloseTime` is not 0; it has passed |
| `cmd`, `type`, `creator`, `enforce`, `update`, `willPass` | the members of `CGameContext` of these names |
| `barred`, `callerHere`, `voters` | history for the properties; no action reads them |

Between ticks: `Connect`, `Enter`, `Leave`, `ChangeSides`, `FallAsleep`, `WakeUp`, `GrowOld`;
`CallVote`, `CastVote`, `Cancel`; `AskForMap` and `MapFound`, the two halves of `/map`, the
second in `ProcessScoreResult` whenever the database has answered; `Login`, `Moderate`,
`ForceVote`, `ForceOption`.  `VoteTick` is the part of `OnTick` about votes, as one step:
the withdrawal, the count with one voice per address (`Speakers`, `Voice`), the veto of the
old-established, the decision, the moderators who hold it back, and what the command does
(`CarryOut`: a kick or ban takes down everything that was its victim's, through
`OnClientDrop`).

Abstracted: the delays between votes and messages (a message that is refused is one that
never came), `sv_vote_max_total`, the DNS blacklist, the texts, the counts that clients are
shown.  `Habits` bounds what the client of a slot is seen to do; without it two slots give more states than
TLC can visit, and the theorems hold for every choice.

### NetConn: state and actions

An end is a side of a line.  For the direction *to* an end, `queued` counts the vital chunks
put in at the other end, `got` lists those its application was given, `wire` holds the packets
under way; `sequence`, `ack`, `peerAck`, `buffer`, `construct` are `m_Sequence`, `m_Ack`,
`m_PeerAck`, `m_Buffer` and `m_Construct`, and `unpacker` what `CNetRecvUnpacker` has yet to
fetch.  A chunk carries, besides its number, which chunk it is; only the properties look
at that.

| Action | Code |
|---|---|
| `QueueChunk` | `CNetConnection::QueueChunk` with a vital chunk, with the flush when the next one does not fit and the overflow of the buffer |
| `Flush` | `CNetConnection::Flush` by `NETSENDFLAG_FLUSH` |
| `Update`, `TimeOut` | `CNetConnection::Update`: resend of the oldest chunk after a second, flush or keep-alive after a silence; the two timeouts |
| `Feed` | `CNetConnection::Feed`: the range check of the acknowledgement, `Resend` if asked for, `AckChunks`; a close, after which the state is `closed` (ERROR with `m_RemoteClosed`) |
| `FetchChunk` | `CNetRecvUnpacker::FetchChunk`: in sequence, old, or a gap that asks for a resend |
| `Disconnect` | `Disconnect` and `Reset`; the other end is told (`MayTell`) unless it has closed the connection itself or `m_TimeoutSituation` is set.  A timeout sets that.  A client disconnects at once; on a server a slot that is protected waits, until `Update` finds the protection over and clears it, so an end in ERROR on that side may tell or not |
| `Takeover` (`NetTakeover`) | `CNetServer::SetTimedOut` and `CNetConnection::SetTimedOut` |

The network (`Send`, and a packet that stays on its wire when it is received) loses, repeats and reorders
packets.  One thing it may not do, `Fresh`: deliver a packet with a chunk, or an
acknowledgement, that is half the sequence space old.  No scheme with numbers modulo 1024
survives that, and IP does not keep packets so long.

Abstracted: bytes (a packet holds `PacketChunks` chunks, the buffer
`Capacity` of them, and an allocation may fail whenever the buffer is not empty, as the ring
buffer's may); chunks that are not vital, which have no number; time; the handshake and its
tokens; compression; the 0.7 variant, whose established connections run the same code.

### JobPool: state and actions

`first`, `last` and `next` are `m_pFirstJob`, `m_pLastJob` and the `m_pNext` of each job;
`sem`, `running`, `shutdown` and `jobState` the members of these names; `pc` and `at` say
where each worker of `RunLoop` is and which job it has.  The main thread does `InitPool`,
`Add` and `Signal`, `Refuse` (adding after the shutdown), `Abort`, and `Shutdown`, whose
walk over the list (`Unqueue`, `Unqueued`) holds `m_Lock`, so that no `Fetch` comes between,
then `AbortRunning`, one `Wake` per thread and `Join`.  A worker does
`Wait`, `Fetch` or `FetchNothing`, `EndLoop`, `Start` or `Skip` (the compare-exchange from
QUEUED), `Enlist`, `Run`, `Finish` (the compare-exchange from RUNNING).  Nothing is
abstracted but what a job does.  Two variables are history: `added`, the jobs that were given to
`Add`, which keeps a job from being given twice, and `accepted`, those that did not come too
late, which no action reads.

## 3. What TLC checks

| Run | Instance | Properties |
|---|---|---|
| `round` | 3 clients that ask for what their buttons offer, 2 players per bomb, collateral damage, no minimum fuse, no administrator, fairness | `TypeOK`, `SlotsInOrder`, `AliveOnlyInRound`, `RoundRunsFree`, `AliveUnrecorded`, `ArenaIsForTheLiving`, `SoleSurvivorWins`, `NobodyRejoins`, `PickSparesSomebody`, `RoundEnds`, `PauseLifts`, `RoundStarts` |
| `admin` | 2 clients that ask for any team, all console commands, a minimum fuse | `AliveUnrecorded`, `SoleSurvivorWins` |
| `maps` | 2 clients, `enqueue_map`, the counters of `BombStats`, fairness | `SpectatorsStay`, `EnqueuedMapLoads`, `RecordedOnce`, `CreditedOnce` |
| `votes` | 2 slots: one who comes and goes, from any address, and asks for maps; one who logs in, sleeps and changes sides; kicks, bans and maps; 2 ballots; fairness | `TypeOK`, `KickHitsItsVictim`, `PassesByVoters`, `CancelIsTheCallers`, `EveryVoteEnds` |
| `net` | 1 line, 6 sequence numbers beginning at 4, a buffer and a packet of 2 chunks, 2 chunks to send, 2 packets under way to the client and 1 to the server, fairness | `TypeOK`, `KeptUntilTaken`, `ReliableStream`, `BufferDrains` |
| `jobs` | 2 workers, 3 jobs (one cannot be aborted), initialised twice, fairness | `TypeOK`, `AllEndBeforeShutdown`, `AbortHolds`, `AbortsReachAll`, `JobsAreServed` |
| `db_faults` | ring of 3, 5 queries of all kinds but statistics, every outcome of every statement | `TypeOK`, `NothingLost`, `KeepsPromise` |
| `db_backup` | ring of 3, 5 queries, the backup database takes what it is given, no answer is lost, fairness | `CopiedFirst`, `SettledOnce`, `SuccessIsStored`, `AllAnswered`, `ShutdownReturns` |
| `orphan`, `held`, `takeover`, `db_stats` | the code breaks a statement of the repository | `RoundsHaveABomb`, `PassesByItsVoters`, `GuaranteedDelivery`, `StatsAreStored` |

### The bounds

*BombTag.*  All instances use a tick rate of 1: a second is a tick, so that a fuse, a warmup
and a game over have the lengths 1 or 2 given in the configuration instead of 50 to 750.  Every
guard on a clock compares it with 0, with the minimum or with the game-over limit, and each of
these is reached.  Three clients are enough for the interesting rounds: two can fight while a
third leaves, is caught or watches, and with one bomb for two players three players have two bombs.
Two suffice where administrators or several maps multiply the states.

*Votes.*  Two slots give a caller and a victim, or a voter and a moderator, at one address or
at two, and a slot that passes from one client to the next.  Votes to spectate are a kick
without a victim that is hit, and are left to the proofs.

*NetConn.*  Six numbers are the fewest with a window of two on each side of the middle;
beginning at 4 the second chunk crosses the wrap.  Two chunks and two packets can be
reordered, repeated, and lost together; a buffer of two overflows when one of the bytes' worth
of space does not suffice (`spilled`).  `NetConn_proof` has every size.

*JobPool.*  Two workers race for a job, and for a signal; three jobs make a list with a
middle; the second initialisation finds what the first has left.

*DbPool.*  Rings of 3 slots instead of 512, so that 5 queries go around the ring; a query and
the one a round later are the only pair the code could confuse.  `MaxBacklog` keeps the main
thread at least one slot short of a full ring.  Nothing in the code does.  Two writes, a
registration of each kind and a read fit into 5 queries, which is what it takes to enter fail
mode, skip a write because of it and leave it again.

### What the properties say

* `SlotsInOrder`: the four views of a slot agree.  `StartBombRound`, `MakeBomb` and
  `OnTakeDamage` follow `m_apPlayers[i]` because of `m_State` alone.
* `AliveOnlyInRound`, `NobodyRejoins`: the guard of `Tick` adds the ALIVE to the ACTIVE, and
  `MakeRandomBomb` draws from the ALIVE as many as `StartBombRound` has counted ACTIVE; both
  are right only if there are no ALIVE left over.
* `RoundRunsFree`: without an administrator no round is played during a warmup, a game over
  or a pause.  With one it is (`restart 5` during a round), and then eliminated players keep
  their tees.
* `RecordedOnce`: one `SaveStats` per player and round.  It does not hold with collateral
  damage, where two bombs that explode in the same tick record a tee caught by both twice, and
  the tee that carried the second bomb once more; `AliveUnrecorded` is what is left of it there.
* `ArenaIsForTheLiving`: during a round everybody with a tee is ALIVE, so that a bomb is
  passed to a player of the round.  It fails for a client that asks for TEAM_BLUE (no
  button does): `CanJoinTeam` makes it ACTIVE, with its tee and its bomb, until `DoWinCheck`
  benches it at the end of the tick.  It fails with an administrator who moves a spectator
  into the game.
* `SoleSurvivorWins`: the point goes to the only one ALIVE, although `EndBombRound` takes the
  first it finds and is reached in two ways.
* `PickSparesSomebody`: picks of bombs make at least one and spare at least one.
* `CreditedOnce`: what was earned in one round is not recorded again in another, for the same client or
  the next one in its slot.  The property leaves out what the code does not keep: a slot that was empty
  or watching at the reset keeps its counters; whoever dies between the end of a warmup and
  its reset (`resetRequested`), in the round begun there, is recorded with the counters of the
  round before; a bomb left in an empty slot can be hammered between rounds; and who inherits a
  bomb (`Inherited`) inherits the counters with it: somebody without a tee survives a pick, is
  made a bomb by it, leaves, is put on record with what it has, and when the bomb goes off the
  next client of the slot is recorded with the same.  The last one takes three slots and was
  found by the proof, not by the run, which has two; with the exception TLC finds no other at
  three slots (without `enqueue_map`, which takes it beyond the time of a run), and the proof
  covers any number.
* `RoundEnds`: with `bombtag_minimum_seconds_to_explosion` 0 every round ends unless a bomb
  is left in an empty slot.  With a minimum, two players who keep hitting each other play for
  ever, as the setting means it.
* `PauseLifts`, `RoundStarts`: the pause after a round ends, and two waiting players get a
  round although the first one may be cancelled by the world's reset.
* `SpectatorsStay`: nobody becomes a player unless they asked, through every path including a
  map change, but for a second map change that catches the client between READY and ENTERGAME.
* `EnqueuedMapLoads`: the enqueued map is asked for after the round, and a reload asked for is
  tried.
* `KickHitsItsVictim`: once the client named by a kick has left, the vote cannot pass, whoever
  is in the slot.  The exception is an admin who forces the result between the
  disconnect and the next tick.
* `PassesByVoters`: a vote that passes by its count has the yes of somebody who is connected
  and voted in this vote; no voice outlives its client or its vote.  A vote that was held back
  with a yes is excepted; `held` shows why.
* `CancelIsTheCallers`: `m_VoteCreator` does not pass on with the slot.
* `EveryVoteEnds`: also with moderators, who hold a vote back no longer than to its end.
* `KeptUntilTaken`: a vital chunk stays in the resend buffer until the other application has it,
  whatever acknowledgements are lost, late or repeated, also across the wrap.
* `ReliableStream`: each direction of `NetConn` implements `Channel`, its fairness included; if the
  buffer overflows, only as long as it has not.
* `BufferDrains`: the resend buffer empties again while the connection is up.
* `AllEndBeforeShutdown`: "Scheduled jobs which are not abortable are guaranteed to fully
  complete before the job pool is shut down" (engine/shared/jobs.h).  When `Shutdown` returns, each
  job that `Add` ever accepted is done or, if it may be, aborted, and no thread is left.  A job
  that a wrong link drops from the list stays queued for ever and breaks it.
* `AbortsReachAll`: "Aborts all abortable jobs" (engine/shared/jobs.h).  Behind its two passes
  `Shutdown` has aborted each accepted job that can be and has not ended, but for those that a
  worker has between the list and `m_RunningJobs`, or has taken out of these again.  The exception is
  the disagreement with that comment that is listed below; the property says that it is the only one.
* `AbortHolds`: an aborted job is never reported done and, if it had not started, never runs.
* `JobsAreServed`: the pool implements `JobService`: jobs are taken in the order of `Add`, each
  once, none is lost in the list, and waiting jobs, running jobs and `Shutdown` all end.
* `KeepsPromise`: the pool implements `DbService`.  It fails as soon as a semaphore is signalled
  once too often or the worker gets ahead of the backup thread, because an empty slot and the end
  look alike.
* `NothingLost`: an action property of rows; a copy is given up only for a row elsewhere.  A
  crash of the process loses all variables but the rows, so the property covers a crash between
  any two steps.
* `CopiedFirst`, `SettledOnce`, `SuccessIsStored`: what the backup is for, where it works.  The
  first two ask for a backup database that was registered before the score (`Protected`).
  With a lost answer a score is on the write server and moved as well ("will show up as duplicate
  rank"), with a refused copy `SuccessIsStored` fails (see below).
* `AllAnswered`, `ShutdownReturns`: also for queries put just before a shutdown.

### Fairness

`BombTag`: `WF_vars(ServerTick)`: the thread goes on ticking whatever the clients do, and each
phase of a tick follows.  `SF_vars(LoadMap)`: `CServer::Run` looks at `m_MapReload` once per turn
of its main loop, between two batches of ticks; several ticks may come first, so the action is
not continuously enabled, but it is taken.  Nothing is assumed of clients or administrators:
nobody has to hit, leave, enter or unpause.  `RoundStarts` and `PauseLifts` need no client to
act.

`Votes`: weak fairness of `TimeUp` (the clock runs) and `VoteTick` (the server ticks).

`NetConn`: both programs call `Update` and fetch what was received, whenever they run: strong
fairness of `Update` because the model lets it run only between packets.  Of the network:
a packet that brings the chunk an end waits for, or one that acknowledges something, gets
through if such packets are under way again and again.  Without the second nothing would
ever free the buffer, without the first nothing need arrive; the code, which only resends,
cannot do without either.

`JobPool`: weak fairness of each worker and of what the main thread has begun, by the
scheduler; `Run` is among the worker's steps, that is, every job ends by itself.  That the
main thread adds jobs or shuts down is not assumed.

`DbPool`: weak fairness of each of the two threads, which are scheduled by the operating system and
whose statements end by the timeouts of the connection at the latest, and of what the main thread
does once it has begun (`Signal`, `Waited`, `Joined`).  A step of a thread is enabled until that
thread takes it, so weak fairness is enough.  That the main thread puts queries or shuts down is
not assumed.

### Disagreements with what the repository says

* `orphan`: a client picked as a bomb before it has a tee (it is READY but has not entered, or
  its respawn is due) leaves.  No character dies, so nothing clears `m_Bomb`; `AmountOfBombs`
  keeps counting the empty slot, `DoWinCheck` never picks a new bomb, and the others play a
  round without a bomb until the next client takes the slot and explodes or a player leaves.
* `takeover`: `SetTimedOut` hands the old slot the sequence numbers and the resend buffer of the new
  connection but leaves `m_Construct`.  A vital chunk waiting there, numbered for the dead
  line, goes out on the new one and may take the place of the chunk that belongs there, which
  is then never delivered.
* `held`: a kick with a majority that a moderator holds back passes when the moderation ends,
  although the only one who said yes has left: the recounts in between leave `m_VoteEnforce`
  at yes unless they reach a no.
* `db_stats`: `SaveStats` takes the result of `PrepareStatement` the wrong way round, returns
  before it stores anything, and the pool sees a success.  Bombtag's statistics stay empty.

### Findings without a run

Read off the code or seen in earlier instances, and left out of the properties above, each of
which says so:

* A second map change that finds a spectator between READY and ENTERGAME makes it a player:
  `CServer::ChangeMap` asks only INGAME clients for what persists (engine/server/server.cpp,
  lines 1940 and 3282).
* A write that failed on the write server and whose copy had failed before is moved with zero rows,
  which counts as a success (game/server/scoreworker.cpp, line 546).
* 512 waiting queries overwrite one another in the ring (connection_pool.cpp, line 159) and end
  the worker, after which nothing is answered any more and `OnShutdown` waits for ever.  It
  takes a write server that holds up each connection until its timeout while players go on asking.
* A job that a worker has taken from the list but not yet put into `m_RunningJobs` is in neither of the
  lists that `Shutdown` walks, and is not aborted (engine/shared/jobs.cpp, lines 72 to 104; jobs.h:
  "Aborts all abortable jobs").  `Shutdown` still waits for it.  `AbortsReachAll` says that no job escapes
  in another way.
* `bombtag_score_for_winning` (`README.md`, line 27) is read nowhere; the winner gets 1
  (gamemodes/Bomb.cpp, line 580).
* The four exceptions of `CreditedOnce`, above.
* Votes: `AbortVoteKickOnDisconnect` looks for the words "kick" and "set_team" at the head of the
  command and so never matches a vote to spectate as it is called, or a kick from a DDRace team.  The answer to `/map`
  sets `m_VoteType` of a kick that is running, which is then counted like an option.  A forced no, or
  an abort, is overwritten if the same tick counts a yes, and `force_vote option` makes its
  caller the creator of a vote that is running.  A veto is known only in ticks that
  recount, and `SetAfk` asks for none.  The help text of `sv_vote_majority` says the opposite
  of what the setting does.
* Connections: chunks copied by `SetTimedOut` point into the ring buffer of the slot they came
  from; `m_PeerAck` is left as it was; a chunk that did not fit into the resend buffer
  (network_conn.cpp, line 168) blocks its direction for good if it is lost.

## 4. What is proved

All theorems hold for every value of the constants that the named assumptions at the head of the
module allow; what they assume beyond those is in the tables.

Every invariant and every safety action property that a passing run checks is the statement of a
theorem, and so are the safety halves of the two refinements with fairness.

`BombTag_proof`, `BombRound_proof` and `BombStats_proof`, for every number of slots, every configuration, every set
of console commands, and with or without collateral damage:

| Theorem | Property | Argument |
|---|---|---|
| `TypeCorrect` | `TypeOK` | `TypeInv` adds `GameOverChecked`: the game-over clock is tested in every tick, so it exceeds its limit by at most one and only while the world ticks.  Without it the bound on `gameOver` is not inductive. |
| `SlotsAlwaysInOrder` | `SlotsInOrder` | inductive given the types |
| `AliveOnlyInRounds` | `AliveOnlyInRound` | `OnlyARoundEnlivens`: only `StartBombRound` makes a slot ALIVE, and what ends a round retires all |
| `OutStaysOut` | `NobodyRejoins` | the same lemma, and the guard of `StartBombRound` |
| `PointGoesToSoleSurvivor` | `SoleSurvivorWins` | both callers of `EndBombRound(true)` have counted at most one ALIVE; `OnlyOne` about cardinalities |
| `PicksSpareSomebody` | `PickSparesSomebody` | `BombCountInBounds`: the rounded quotient lies between 1 and n - 1 for n > 1; `AliveOnlyInRound` makes the called and the ALIVE the same set |
| `TheLivingAreUnrecorded` | `AliveUnrecorded` | inductive given the types: whatever records a slot also takes it out of the ALIVE |
| `RoundsRunFree` | `RoundRunsFree` | assuming no `pause` and no `restart`: `NoWarmupInRound`, and `HoldsEnd`: a pause or a game over never comes without the warmup that will end it, and a warmup excludes a round |
| `OnlyTheLivingInTheArena` | `ArenaIsForTheLiving` | assuming `FairArena` (no `set_team`, no `restart`, clients ask for the two teams of their buttons): `ArenaInv` says when the tees are the ALIVE (`TeesLive`), that nobody else can respawn after `DoWinCheck` (`OthersBenched`) and that spectators have the spectators' team (`WatchersSit`) |
| `EverybodyRecordedOnce` | `RecordedOnce` | assuming `FairArena` and no collateral damage: `BombsUnrecorded`, since `EliminatePlayer` records whoever has the bomb without a look at `m_State` |
| `SpectatorsAreLeftAlone` | `SpectatorsStay` | assuming `FairArena`, with or without collateral damage: `WithdrawnUnarmed`, since an explosion, which asks nobody, is the only way from SPECTATING into the game that does not begin with a wish; `RejoinersLoad` about those who are on their way to the next map |
| `HoldsAlwaysEnd` | `HoldsEnd`, which `PauseLifts` rests on | assuming no `pause` and no `restart`; the invariant `RoundsRunFree` needs as well |
| `PassesGiveNoTime` | `FusesRunDown`, which `RoundEnds` rests on | assuming no minimum on the timer: between two picks the longest fuse grows by nothing, a pass included.  With a minimum `AtLeastMin` gives time back |
| `CountersOnlyWatch` | | every step of `BombStats` is one of `BombTag`, so the theorems above hold of it |
| `EarningsCreditedOnce` | `CreditedOnce` | assuming `FairArena` and no collateral damage: `Settled`, no counter waits for a reset when the next round may begin; `LivingUnspent`, nobody ALIVE carries what has been recorded once the reset has come; and `LedgerInv` of the theorem before for the bombs |

The assumptions are not for convenience: TLC refutes the properties without them, as section 3
says of each.

`Votes_proof`, for every number of slots, every `Habits`, all kinds of votes, any
percentage and either majority rule; the invariant is `VoteInv`:

| Theorem | Property | Argument |
|---|---|---|
| `TypeCorrect` | `TypeOK` | inductive |
| `KicksItsVictim` | `KickHitsItsVictim` | `KickIsOff`: once the victim has left, `m_VoteEnforce` is an abort, or a cancel that came later, and neither is followed by a count |
| `PassesByItsYes` | `PassesByVoters` | `OwnVoices`: a yes belongs to somebody who voted in this vote; `CountIsFresh`: what `m_VoteWillPass` remembers still holds if no recount is due; `MoreThanNone` about percentages |
| `CallerCancels` | `CancelIsTheCallers` | `CreatorIsHere` |

`NetConn_proof`, for any number of lines, any even length of the sequence space, any first
number, buffer (less than half of the space), size of packets, and any network that respects
`Fresh`:

| Theorem | Property | Argument |
|---|---|---|
| `BackroomIsThePast` | | the arithmetic of `IsSeqInBackroom`: for chunks less than half a space apart the numbers, wherever they wrap, tell which came first; from `SqDistance` on remainders |
| `TypeCorrect` | `TypeOK` | a consequence of `Inv`, with `Cutting`: `QueueChunkEx` flushes in time, so no packet grows past what fits |
| `TakenBeforePopped` | `KeptUntilTaken` | `Gapless`: the buffer is a gapless end of what was queued, beginning no later than what the receiver waits for; `OnlyTakenIsPopped` |
| `StreamIsInOrder` | the safety half of `ReliableStream` | step by step: a chunk fetched in sequence is the next one of `Channel`, everything else stutters, queues or breaks the connection |

The invariant `Inv` relates three places: the number a chunk has and the chunk it is (`Chunks`,
`Numbers`), the resend buffer and what the other end has taken (`Gapless`, `InOrder`), and the packets
on the wire, each acknowledging no more than its sender had taken when it was sent (`Wires`).
`NotTooOld` is there for the packet that is being unpacked: while its chunks are fetched the
window moves on, and by no more than a packet.

`JobPool_proof`, for any jobs and any number of workers; the invariant is `PoolInv`:

| Theorem | Property | Argument |
|---|---|---|
| `TypeCorrect` | `TypeOK` | inductive with `HandsFull`: a worker has a job exactly between its fetch and its end |
| `ShutdownLeavesNobody` | the part of `AllEndBeforeShutdown` that is not about the jobs, from `PoolInv` alone | `NobodyLeft`, `SomebodyRuns`: what is in `m_RunningJobs` is run by somebody |
| `AbortsHold` | `AbortHolds` | no step but the two compare-exchanges writes a state that is not an abort |

`JobQueue_proof`, likewise; the invariant is `QueueInv`, which contains `PoolInv`, and on top of it
`JobsFit` about the states of jobs, `WalkAborts` about the walk of `Shutdown` and `SignalsForAll` about
signals:

| Theorem | Property | Argument |
|---|---|---|
| `EverythingEndsFirst` | `AllEndBeforeShutdown` | `JobsFit`: an accepted job is on the list, in a worker's hands, or done or aborted (`LeftIsDone`), and only those that can be are aborted (`StatesFit`), so no link may lose one; `NothingLeft`: a worker ends only on an empty list, after which nothing can be put there; `OneSignalEach` |
| `OnlyTheHeldEscape` | `AbortsReachAll` | `WalkAborts`: what the walk has behind it on the list cannot be aborted (`WalkStands`: `pJob` is what follows `pPrev`), so after it nothing on the list can; `LeftIsDone` for those that have left it, and `StatesFit`: whoever runs a job has it in `m_RunningJobs` |
| `PoolServes` | the safety half of `JobsAreServed` | step by step: `Add` appends, `Fetch` takes the head, the walk of `Shutdown` removes one, everything else leaves the queue as it is |
| `NoSignalIsLost` | `NobodyStuck`, which the fairness in `JobsAreServed` rests on | `SignalsForAll`: signals sent and workers told together are at least the jobs left and the wake-ups of `Shutdown`, although a worker that finds nothing takes a signal with it |

`WellLinked` says that the links from `first` are a sequence without repetition, which ends (at `last`:
`LastIsLast`), and `OnePlace` that a job is on it, in the hands of one worker, or gone.  What each handler does to
the links is a lemma about lists (`ListAppended`, `ListBeheaded`, `ListUnlinked`), and that
there is only one list to choose is `ListIs`.  They need induction over the length of a list.  The library's
induction rules cannot be used, since they take an operator; `Smallest` gets the same from the
well-foundedness of `<` on numbers, by a smallest counterexample.

`DbPool_proof`, for a ring of any size, any number of queries and every set of kinds and outcomes
that contains what the head of `DbPool` asks for, assuming `Room` (fewer queries wait than the ring
has slots):

| Theorem | Property | Argument |
|---|---|---|
| `RingIsCounted` | `Inv`, the inductive invariant | see below |
| `PoolIsTyped` | `TypeOK` | a conjunct of `Inv`: the semaphores are bounded because `Tokens` says what they count |
| `PoolKeepsPromise` | `KeepsPromise` | refinement of `DbService`: what has been answered are the first `taken` queries but the one in the worker's hands; the other steps stutter or are a call |
| `NoRowIsLost` | `NothingLost` | `Rows`: at the deletion of a copy the write server has the row, at a move nothing was moved before |
| `CopyComesFirst` | `CopiedFirst` | assuming `Reliable` (the backup database takes what it is given, no answer is lost): `Kept`, on top of `Inv` |
| `SettledForGood` | `SettledOnce` | `Kept` again |
| `NoSignalIsLost` | `NobodyStuck`, which `AllAnswered` and `ShutdownReturns` rest on | a consequence of `Inv`: as long as a query waits or the main thread waits for the end, one of the three threads has its signal |
| `SuccessMeansStored` | `SuccessIsStored` | and without `stats` among the kinds (`Scores`): a move by the worker means that the backup database was registered before the score |

The invariant of the pool is more than any of the properties because the worker recognises the end
by an empty slot.  `Ring` says that the slots from `taken` to `submitted` hold their queries and
all others are empty; for that `PlacesApart` shows that numbers less than a round apart have
different places.  `Tokens` says that each semaphore counts the distance between two of the three
counters, and one more when the token of the end is on its way.  Together: a thread that may pass
its semaphore finds the next query, or nothing only if there is none and the end has come
(`TakeFindsTheNext`, `Ends`).

### Only model-checked

Liveness, because temporal steps that need ENABLED are out of the prover's reach:
`RoundEnds`, `PauseLifts`, `RoundStarts`, `EnqueuedMapLoads`, `EveryVoteEnds`, `BufferDrains`,
`AllAnswered`, `ShutdownReturns`, and the fairness in `ReliableStream` and `JobsAreServed`.
What they rest on besides the fairness is proved where it is a matter of single states or steps:
`HoldsEnd`, `FusesRunDown` and the two `NobodyStuck`.  These four are not properties of a run;
what was proved of them was checked on the instances first.

## 5. Not modelled, and what would come next

Of the modelled parts:

* Bombtag's flags (`FlagTick`, entities/kz/flag.cpp): grabbing and capturing is geometry, and
  its timers are not shared with a round.  A candidate for a module, as is the antibot
  module of the mode (antibot/antibot_bombtag.cpp), a window of one second that moves only
  while a living player ticks.
* What the game does with an answer of the database (`CPlayer::ProcessScoreResult`): only the
  one to `/map` is modelled, in `Votes`.
* The handshake of a connection and its tokens, and the acceptance of clients by
  `CNetServer`; the client state machine before CONNECTING (login, password, map download,
  rcon).
* The ring buffer below the resend buffer: allocation and merging of blocks.

Of the others: DDRace teams and saves are not used by the mode; mutes, bans and the console are lists and
parsers without interaction beyond what votes do with them; snapshots' delta compression, Huffman and
packer are pure encodings and have unit tests; replay records are output only; registration
and HTTP talk to other servers through a library; the client, the editor and the graphics,
which are most of the repository, are another program; the base library is the
operating system.  `PROJECT.json` lists each with its reason.
