# AlgoFight in TLA+

AlgoFight is a platform for programming battles: players meet in rooms or through a
1v1 queue, solve problems against each other while a judge runs their code, and gain or
lose rating.  This directory models the parts of it in which several actors change
shared state (Postgres rows, Redis keys, maps in a process), checks the models with TLC
and proves their main invariants with TLAPS.

Contents: [the system](#the-system) - [the modules](#the-modules) -
[the runs](#the-runs) - [the proofs](#the-proofs) -
[what is left out](#what-is-left-out) - [plan](#plan)

    tlc -workers 2 -config room_overlap.cfg MCBattleRoom     # any run: see "The runs"
    tlapm LiveBattle_proofs.tla                              # any proof module

## The system

Processes: an HTTP API (`src/apps/api`), websocket servers (`src/apps/websocket`),
submission workers (`src/packages/queue`), a battle-timer worker and a scheduler
(`src/apps/scheduler`).  They share Postgres through Prisma repositories, Redis, and
BullMQ queues.  Every handler is a chain of awaited calls, so other handlers, in the
same process or another one, run between any two of them.  Prisma's interactive
transactions run at Postgres' default READ COMMITTED level and the repositories take no
explicit lock.

| Component | State | Operations | What must hold |
|---|---|---|---|
| Battle room lobby (`prisma-battle-room-repository.ts`, `battle-room.service.ts`, `battle.controller.ts`) | room row (status, host), participant rows, Redis set of kicked users | create, join, approve, leave, kick, set ready, start, finish | READY means everybody agreed; an occupied room has its host inside; an empty room is closed; capacity; a kicked user does not come back; FINISHED is final |
| Live battle (`battle.service.ts`, `battle-room.service.ts`, the websocket `socket-handler.ts`, workers, scheduler) | `battle_state` document and checkpoints in Redis, scores, ranks, ratings and room status in Postgres | accepted submissions, checkpoints, leave, disconnect timeout, battle timer, sweep, finish route | the winner solved as many problems as the room has, ratings move once and only for contested battles, acknowledged code survives, every battle closes, the ranking is the documented one |
| Matchmaking (`matchmaking.service.ts`, `socket-handler.ts`) | Redis sorted set and hash, an in-memory fallback queue, timers | find match, cancel, 25 s timeout, play the bot | one claim per entry, one seat per request, nobody is matched after having gone |
| Squad battles (`battle-room.service.ts`, `socket-handler.ts`, `battle.service.ts`) | team seats, captains, approvals stamped with a roster version, the countdown; a score lock per team and problem, the team's score in the battle document | join team, kick, approve, start; credit an accepted solution | an approval that counts is of the teams as they are, agreement starts a countdown; teams of the right size; a team is credited once for a problem |
| Submissions (`submission.controllers.ts`, `execution.service.ts`, `submission.worker.ts`, state machine, recovery job) | submission row, BullMQ job with attempts and stalls | queue, compile, evaluate, finalize, score, fail, retry | an accepted submission is awarded once, a job that has ended leaves no submission open |
| Rewards (`point-ledger.service.ts`, `consistency-reward.service.ts`, `achievement-reward.service.ts`, `battle-reward.service.ts`, `reward.route.ts`) | balance, ledger rows, weekly marks, unlocked achievements, vault document | award, claim, unlock, redeem, resync | one award per reason, bounded overdraft, nothing in the vault that was sold and not paid, nothing paid that is not in it |
| Judge pipeline (`execution-pipeline.ts`, `worker-pool.ts`) | first run, pool of test cases, results | run, fan out, conclude | the pool is used to the full and no further, the verdict does not depend on the order of arrival |
| Presence and connections (`connection-manager.ts`, `socket-handler.ts`) | sockets, registrations, sessions, lobby and forfeit timers | connect, auth, join room channel, disconnect, time out | who closed the battle page is on the way to forfeit, who is back is not |
| Challenges | map of pending challenges | challenge, accept, decline | each is one handler that is not interrupted |
| Runtime pool | runtimes with active jobs and state | acquire, release, scale | see "what is left out" |
| Gateway and sessions | limits, session store | admit, limit, sign in and out | see "what is left out" |
| Rating arithmetic, identity, intel, feedback, broadcast, analytics, admin, frontend | - | - | computations and record keeping without a protocol between actors |

Interactions: matchmaking creates rooms and starts battles; a live battle reads and
closes the room; an accepted submission changes the battle's document and may finish it;
the scheduler sweeps rooms whose time is over; disconnects start timers that leave rooms
and forfeit battles; a countdown starts a squad's battle, and the accepted solutions of its
members go through the score lock; a worker's accepted submission is scored in Postgres,
credited to the live battle and rewarded with points.

What is hard here: *overlap* (read-modify-write of rows and of whole JSON documents
across awaits, an idempotency guard that is not atomic), *crashes* in the middle of a
finalization, *retries and late timers* (BullMQ attempts, the disconnect, battle and
queue timers, the sweep), *ordering* (checkpoints evicted while they are being stored,
timestamps rewritten before they are sorted by), and *partial failure* (errors swallowed
by a catch).  `PROJECT.json` lists each of these at the line where it bites.

## The modules

### Lobby, BattleRoom, MCBattleRoom

`Lobby` is the abstract specification: the room as a client of it would like to see it,
one atomic action per repository call (`Join`, `Leave`, `SetReady`, `Start`, `Finish`),
and the invariant `LobbyInv` it owes.

`BattleRoom` is the code.  A *session* is a handler in flight; `req[s].pc` says which
awaited statement comes next, and the other fields of `req[s]` are what it has read so
far.  `joinRoom` is `JoinRequest/ApproveRequest`, `JoinCheck` (the service's look at the
room), `JoinRead` (the repository's read inside the transaction), `JoinCommit`; `leaveRoom`
is `LeaveRead`, `LeaveList` (deletion and listing of who remains), `LeaveCommit`, then
`Ban` when the controller removed the player for the host; `setPlayerReady` is
`ReadyRequest`, `ReadyRead`, `ReadyCommit`; `startBattle` and `finishBattle` likewise.
What READ COMMITTED gives is modelled: reads see what has been committed, take no lock,
and may be stale when acted on; a transaction that has written a participant row blocks
another one that writes it (`RowLocked`, external), an insert of an existing key rolls
back (`JoinConflict`, external).  Whoever is in the room is `Participants`, the users
with a `joinedAt`; its order decides who inherits the room.

Abstractions: the deletion and the listing of `leaveRoom` are one step (nothing of the
room is written between them); `joinedAt` follows the order of commits; a kicked set that
cannot be read is not modelled; `MaxJoins` stops new join requests, nothing else.

### LiveBattle, MCLiveBattle

The players of one rated room are `1 .. N`, numbered by their place in `state.players`.
`redis` is the `battle_state` document, `cp` the newest checkpoint of each player in
Redis, `saved` what of it is stored as a submission, `solvedAt` the place of each
participant's `solvedAt` stamp among them (0: none; `Stamp` moves a player to the last
place), `rank`, `rated`, `room` the rows in Postgres, `results`
the `BATTLE_FINISHED` events.  An *actor* is one call in flight in any process:

| Entry action | Code |
|---|---|
| `Submit` | `submit_code`, which calls `processEvaluationResult` at once |
| `WorkerVerdict` | a queue worker's `processSubmission`: score in Postgres first, then a bare `new BattleService()` without repositories |
| `LeaveBattle`, `DisconnectTimeout` | `leave_battle` / `forfeit_battle`, and the 60 second timer of `handleDisconnect` |
| `TimerFires` | the battle-timer job |
| `Sweep`, `FinishRoute` | the scheduler's expiration job and `POST /battles/:id/finish`, both straight to `BattleRoomService.finishBattle` |

`Problems` is whatever a client may submit: `submit_code` takes problem and room from the
message and asks only that the problem exists, and the document counts solves
(`solvedCount >= totalQuestions`) without asking whose they are.  `TotalQuestions` is what
they are compared with (`SolvedAll`), and may be smaller than the set of problems.

The chain of a finalization is `FinRead` (the idempotency guard), `FinClaim` (writes
FINISHING, with the document as it was read), `Migrate` (one turn of the loop over the
players: `Store` or `StoreFails`, then `Record`), `Order`, `Rank`, `Rate` (one transaction
per player), `Close`, `Evict`, `Drop`, `Publish`.  A checkpoint that Postgres refuses is
logged and the loop goes on (`StoreFails`, if `DbFails`; `unsaved` remembers whose it
was), as it does when `recordParticipantScore` fails; `Evict` deletes the checkpoints
whether or not they were stored.  `proc[a].kind` tells a full service from a
bare one, which neither ranks nor closes, and from a direct call, which has no document.
`Abort` is a process that dies, at any step, or an awaited call that throws at a step whose
failure is not caught on the spot.
`StateExpires` is the document's time to live.  `Hosted` says whether the document has a
`hostId` (the instance that receives a published match writes one), because
`leave_battle` spares documents that have one.

Abstractions: ranks and ratings exist only as how often and in which order they are
written; timestamps are distinct; room rows are rated and hold `N >= 2` human players
throughout; the document is in place when the model starts; one player's migration is
one step, which stores their newest checkpoint whole or counts as having failed, and so is
the eviction of all checkpoints, which is taken to succeed (`.catch` ignores its errors, and
what is left then expires); checkpoints outlive the battle (in
the code two hours).

### Matchmaking, MCMatchmaking

`pool` and `tickets` are the sorted set and the hash in Redis, `local` the fallback queue
in memory, `timers` the 25 second timers pending, `client` what a player has last been
told, `call` the service calls in flight.  `joinQueue` is `FindMatch`, `LeavePool`,
`DropTicket`, `ListCandidates`, `Inspect`, `Claim` (the Lua script, one step), `CreateRoom`,
`SeatJoiner`, `Announce`, or `SaveTicket` and `EnterPool`; `cancelQueue` is `CancelPool`,
`CancelTicket`; `createBotMatch` is a `cancelQueue` followed by `BotRoom`.

Redis may be down from the start, come up, or report an error (`isRedisReady`), and every
command may fail: before its effect (`Fault`), or after it, with the reply lost
(`LostReply`).  In `joinQueue` the catch then searches in memory (`FallBack`), in
`cancelQueue` it is ignored (`CancelMisses`), in `isQueued` only the memory is looked at
(`TimerMisses`).  `LocalFault` and `BotFault` are errors that reach the message handler.

Abstractions: ratings and waiting times decide whether a candidate suits, so `Inspect` may
pass over anybody; one server instance holds all fallback entries; clients are well
behaved, that is, a player asks only when idle and is followed until the first match.
History variables: `asks`, `entered`, `claimed`, `booked` count, `missed` records that an
error kept an entry from its timer or its removal.

### Squad, SquadScore

`Squad` is the lobby of one squad battle.  `squadCall[c].pc` says which awaited
statement a call is at, its other fields what it has read: `joinSquadTeam` is `Join`
(look at the room), `NameCaptain` (the first member of BETA), `Insert` or
`InsertConflict`; `kickSquadMember` is `Kick`, `Unseat` or `UnseatMissing`;
`setSquadCaptainApproval` is `Vote`, `Stamp` and, for the message
`squad_approval_toggle` (`live`), `CountVotes`, which may set off a countdown.  The
route `POST /battle/squad/:code/approve`, which the client calls first, does the same to
the approval and starts nothing, so that a vote ends with `Stamp` there.  The five
second countdown is `Elapse`, `Validate`, `StartBattle` or `RefuseStart`. `version` is
`rosterVersion`; `joinSquadTeam` and `kickSquadMember` raise it, nothing else does.  An
approval is the version it is stamped with, which is the one the call had read.

What the repository offers for any room works on squad rooms too, and knows nothing of
versions and approvals: `Enter` is `joinRoom` (a participant without a team, "NONE"),
`Leave` is `leaveRoom` and the host's `kickPlayer`, `ToggleReady` `setPlayerReady`,
`StartAnyway` `start_room_battle`, which looks at no mode and no approval.  They are one
step each, as BattleRoom takes them apart; `LateWrite` is what overlap adds to them here,
a status worked out before the room started and written after it.  `CallFails` is an
awaited statement that throws or a process that dies, `CountdownLost` a countdown that
goes with its process or cannot read the room.

Abstractions: the ready flags are abstracted to the status they may lead to, the host to a
start being refused when somebody has left since it was read.  `seen` (the members of
teams each approval was given for), `binding` (it came over the websocket, and the teams
were full) and `fizzled` (an error lost a countdown or its start, or the room was put
back, since the roster last changed) are history.

`SquadScore` is `processEvaluationResult` in a squad battle: `Accept` reads the battle
document, `ClaimScore` takes the Redis lock of team and problem, `RecordScore` inserts the
`TeamProblemScore` row (`RecordFails`: the error is swallowed); `PlayerScores` is for who
finds the lock taken or has no team (side "NONE", who came through `joinRoom`);
`WriteBack` stores the whole copy and announces the end if every team's list in it has at
least `SquadQuestions` entries, whichever problems they are: as in LiveBattle, `Problems` is
whatever can be submitted.  Calls overwrite one another's documents; `disturbed` records
that it happened, or that a call died (`Die`).  The lock's expiry after 24 hours is left
out.

### Submission

One submission, its controller (`api`), its BullMQ job (`job`, `tries`, `stalls`,
`owner`) and the executions of the worker callback (`run[w]`).  `processSubmission` is
`Check` (the state machine's look at the row) and `Compile` (the write, which is
unconditional), `Evaluate`, `Complete`, `Score` (Postgres), `Credit` (the battle
document), `Finish`; the catch is `Fail` or, if it throws itself, `FailMisses`, and then
`Reject`.  BullMQ is external: three attempts, a job whose lock expires is given to
another worker once (`Stall`), dead or not. `Repair` is the controller's answer to an
`add` that throws.  The statuses RUNNING and EVALUATING are written by nobody; the
scheduler's recovery, which looks for RUNNING, can therefore not act and is not in the
model.

### Rewards

One user's Arena Points, and the metadata document that holds the vault.  `Look` and
`Pay` are `awardPoints`, used by `BattleReward`, by `Unlock`/`Create` (an achievement,
whose key is unique) and by the weekly claim, which is `ClaimWeekly` (the read), `Mark`
(its transaction writes the WeeklyActivity row and so holds it, `locked`), the award in
a transaction of its own, `Commit`, or `TimeOut`.  `Redeem`, `Sync`, `Deduct`,
`TakePoints`, `Record` are `POST /rewards/redeem` with a price, which is the one the
request names; `RedeemFree` is a request without one, or an admin's: nothing is
deducted, nothing is written to the ledger, and the item is stored all the same
(`given`).  `SyncBalance` is the resync.

The vault is part of a JSON document that the profile shares.  `EditProfile` and
`SaveProfile` are the handlers that read it, change something else in it (the theme, the
faculty profile, the photo) and write it back whole; `POST /users` takes the vault from its
own request if one is there.  `spoiled` records that the document was written under a call
with a copy of it, that a request brought a vault of its own, or that a call died between
payment and item.

Abstractions: every reward is one point, prices are at most `MaxCost`; what a resync
computes from the user's record is any member of `Baselines`; which rewards are due is left
open; an item stands for its entry in the vault, be it an avatar, a frame, a theme or a
claim.

### Presence

One player's sockets and timers around one battle.  A session carries the room as its
client named it: the lobby joins by the room's code (`byCode`), the battle page by its id
(`byId`), and `battle_state` exists under the id only.  `Authenticated` replaces the session
of a socket by one without a room (`find_match` does the same and is not listed apart),
`JoinRoomChannel` puts a room in it and clears the timers found in the map, `LeaveBattle`
is `leave_battle`, `DispatchMatch` the server putting the registered socket's session into
the battle.  `Close` and then `DisconnectInBattle`, `DisconnectElsewhere` or, for a session
by the code, `DisconnectByCode` are `handleDisconnect` before and after its await.
`LobbyTimeout`, `ForfeitTimeout` and `Forfeit` are the callbacks, `WatchFails` a read that
throws and leaves no timer, `Readmit` the host taking a player back, which cancels the
timer.  A timer that another has replaced in the map (`entry`) still runs (`timers`).

A room starts in two moves, its status (`RoomStarts`) and the document (`BattleStarts`).  A
player whose last socket is one by the code is not watched: its closing finds no document,
sets a lobby timer, and that finds a room that does not wait.  `AbsentIsWatched` therefore
speaks of players who have had a session by the id while the battle ran (`came`), and
excepts those whose last one ended otherwise than by its socket closing, or whose timer
was called off meanwhile (`excused`).  A restart of the server, which loses the timers, is
not modelled.

### Judge

`ExecutionPipeline.execute`: `FanOut` after a first run that compiles, `TestCaseEnds`
and `Resume` are a `WorkerPool` task ending and the one it wakes being resumed,
`Conclude` computes the verdict.  `arrived`, the order of the results, is there for a
mutant and for the property.

### MCGathering, MCServices

Services that share no state are checked side by side: `moves` says which of them a
behaviour is about, the others stay as they are at the start, and their states add up and
do not multiply.  Every behaviour of a module is one of its behaviours.  `MCGathering` puts
the two ways into a battle together, Matchmaking and Squad; `MCServices` the other five,
Submission, Rewards, SquadScore, Presence and Judge.

## The runs

| Run | Module | Checks | Instance |
|---|---|---|---|
| `room_overlap` | MCBattleRoom | `TypeOK`, `SeatsPromised` | 3 users, 2 requests at once, room for 2 |
| `room_serial` | MCBattleRoom | `ImplementsLobby`, `LobbyKept`, `BannedStayOut` | 4 users, 1 request at a time, room for 3, 6 joins |
| `room_lifecycle` | MCBattleRoom | `FinishedIsNotReopened`, violated | 2 users, 1 request at a time |
| `battle_overlap` | MCLiveBattle | `TypeOK`, `RatedOnlyIfContested`, `AckedWorkSurvives` | 2 players, 1 problem, 2 calls at once through every path, 1 abort, stores that fail |
| `battle_closes` | MCLiveBattle | `WinnerEarnedIt`, `EveryBattleCloses` | 2 players, 2 problems, workers and sweep, 1 abort, fairness |
| `battle_serial` | MCLiveBattle | `RatedOnce`, `SolversRankFirst` | 2 players, 3 problems of which 2 win, 1 call at a time, 5 calls |
| `battle_rated_once` | MCLiveBattle | `RatedOnce`, violated | the same paths, 2 calls at once |
| `battle_first_solver` | MCLiveBattle | `FirstSolverRanksFirst`, violated | 1 call at a time |
| `gathering` | MCGathering | `GatheringTypeOK` and, of Matchmaking, `ClaimedOnce`, `OneSeatPerAsk`, `EntriesAreWatched`; of Squad, `ApprovalCoversRoster`, `AgreementStartsCountdown`, `TeamsPromised` | 3 players, 2 calls at once, 3 requests, 2 errors; 4 users, teams of 2, 2 calls at once |
| `matchmaking_seats` | MCMatchmaking | `SeatedOnce`, violated | 3 players, 4 requests, no error |
| `services` | MCServices | `TypeOK` and, of Submission, `AwardedOnce`, `EndsFinalized`; of Rewards, `WeeklyPaidOnce`, `MarkedIsPaid`, `AchievementPaidOnce`, `AwardsBounded`, `OverdraftBounded`, `UnlockedIsPaid`, `PaidIsKept`; of SquadScore, `TeamCreditedOnce`, `FinishEarned`, `ClaimIsCredited`; of Presence, `AbsentIsWatched`; of Judge, `PoolIsUsed`, `VerdictIsDeterministic` | see "bounds" |
| `presence_reconnect` | Presence | `ReconnectedInTime`, violated | 2 sockets |

**What they show.**  With one request at a time the room's statements refine the atomic
lobby, and with it READY is unanimous, the host is inside and empty rooms are closed, in
every intermediate state too.  None of this survives overlap (two requests that act on
stale reads can, for instance, mark READY over somebody who has just joined, or hand the
room to a host who is gone): what does survive is that requests in flight overfill the
room by at most their number less one.  A finished room can be opened again, by a host who
leaves it or by starting it once more (`room_lifecycle`), although the changelog draws
FINISHED as the end.

In a live battle, whatever calls overlap or die, ratings move only where somebody solved
or quit, a winner by solving has had as many problems accepted as the room has, and
checkpoints held when the battle was first claimed are stored before anybody hears that it
is over, but for those whose store Postgres refused: a failed store is logged and the
checkpoint evicted, although the comment before the eviction (`battle.service.ts:161`) says
"ONLY after successful PostgreSQL operations".  Nor need the problems be the room's: an
accepted answer to any other counts towards the win.  The sweep closes what
the bare workers leave open.  The idempotency guard works for calls that do not overlap
and fails for two that do (`battle_rated_once`); the first solver can be ranked second,
because the finalization stamps `solvedAt` again, in seat order, just before it sorts by
it (`battle_first_solver`).

In the queue an entry is claimed once, every request costs at most one seat (an error after
the joiner was seated, or a lost reply to the last command, may cost one more), and
whoever can be claimed has a timer or a cancellation coming.  A player who turns to the
bot while an opponent claims them gets two rooms (`matchmaking_seats`), although the
repository's README promises pairing without race conditions.

A squad's captains approve the teams they have seen: a member who joins one between the
read and the write of an approval raises the version and voids it.  Who comes in through
`joinRoom` is outside this, having no team: the approvals stay valid.  Two captains who
approve full teams over the websocket at once do not miss each other; an approval over
HTTP starts no countdown, whoever gives it last.  Teams can be overfull, by one per
overlapping call.  A submission that is run by several workers is awarded once, as the
second finds it no longer QUEUED, unless a worker loses its lock before it has written
COMPILING; no job ends with its submission open, unless the very write of the failure
fails or the workers die.  The idempotency check of `awardPoints` bounds payments only
by the number of overlapping calls (`AwardsBounded`); claims of a week and achievements
are paid once because of the row lock and of the unique key.  Overlapping redemptions
overdraw the balance, by at most one price for each call beside the first.  Nothing that
had a price is in the vault unpaid, and what was paid stays there unless writes of the
document overlap (`PaidIsKept`).  A team's score is claimed once however documents
overwrite one another, and complete as long as they do not; the battle ends when each
team has claimed as many problems as the battle has.  A player whose last socket on the
battle page has closed is on the way to forfeit, whatever timers other tabs have set and
cleared, unless a message that joins by the code, a readmission or a failing read called
the watch off; but one who is back within the minute may forfeit too, for
`handleDisconnect` sets its timer after an await and the reconnection has cleared the
map by then (`presence_reconnect`), whereas the client announces 60 seconds to
reconnect.

**Why the bounds are enough.** Two calls at once are what every race listed under
"hazards" needs; more sessions, actors or calls repeat them, and the proofs cover any
number for the properties they prove. The room has one seat too few for its users, so
that joins compete, and `MaxJoins` lets a user leave and come back. `room_serial` has a
third guest, which distinguishes the heir from the others. Two players and two problems
separate "solved something" from "solved everything"; in `battle_overlap` one problem
suffices, since its properties do not count problems (and one question), and only player
2 saves checkpoints (`Typists`), one revision (`MaxRevision`). `MaxCalls` allows a solve
or two and two finalizations, `MaxAborts` one call that dies. In `gathering` two joiners
compete for a third, and two errors put two players into the fallback queue; in its
squad, four users fill both teams of two, which takes the roster to `MaxVersion` 4, one
of them may leave, enter without a team or meet an error (`MaxUpsets`), and no captain
votes while a countdown is pending (`MaxTimers`). In `services` two calls overlap
everywhere. Submission: all three attempts, and four faults, so that each can fail and
one is left for the lock of a slow worker. Rewards: two milestones, whose marks share an
array, one reward of each other kind, an item that costs one or two points (`MaxCost`)
or none, a resync that finds enough or too little, one fault. SquadScore: two players,
in one team, in two or one in none, two problems, which is what the battle asks
(`SquadQuestions`), one fault. Presence: three sockets, as the timer of one can be
replaced by a second and cleared by a third. Judge: five test cases, two at once.

Users, sessions, players and calls are only compared, so the safety runs of BattleRoom,
Matchmaking, MCGathering and MCServices use symmetry. In MCGathering that goes for the
users but the squad's creator and for the squad's calls, in MCServices for calls and
workers, problems and milestones; constants of different services share model values, so
that one small group of permutations serves them all. LiveBattle's players are numbers,
so that only its calls are permuted (`battle_overlap`). No run with a liveness property
uses symmetry.

**Deadlock** is checked for the room.  Battles end, and the bounded requests of a battle
or of a queue run out, submissions, sockets and evaluations end, so those runs switch
the check off.

**Fairness** (`LiveBattle!FairSpec`): `WF(Continue(a))`, a call in flight goes on, since
nothing in the code blocks an awaited call for ever; `WF(TimeUp)`, time passes;
`WF(Sweep)`, the scheduler's `setInterval` (`src/apps/scheduler/src/index.ts`) runs the
expiration job every ten seconds as long as it is up.  Calls that arrive, aborts and expiry
have none.  An abort does not hurt, as there are finitely many and the sweep comes again.

## The proofs

They hold for every number of users, players, problems, sockets, test cases, workers and
requests in flight, and for every bound.  Eight modules hold them: `Lobby_proofs`,
`BattleRoom_proofs`, `LiveBattle_proofs` and `Matchmaking_proofs`, one for each of these
modules, `Squad_proofs` (Squad, SquadScore), `Submission_proofs` (Submission, Judge),
`Rewards_proofs` and `Services_proofs` (Presence, and the composition `MCServices`).

| Theorem | States | Inductive invariant and why it is needed |
|---|---|---|
| `LobbyIsSafe` | the atomic lobby keeps `LobbyInv`, given `LobbyAssumption` | `TypeOK /\ LobbyInv`; the four parts need one another: a guest who leaves keeps the host seated only if the host was |
| `RoomTyped` | `BattleRoom!TypeOK` | types, and that a request past "idle" names a user |
| `RoomSeatsPromised` | `SeatsPromised` | inductive together with the types: participants plus requests that have passed the last capacity check are at most `MaxPlayers - 1` plus the sessions |
| `RoomOverfillBounded` | (`OverfillBounded`) | a corollary; the bound itself is not inductive, as it does not count who is about to be inserted |
| `RoomImplementsLobby` | `ImplementsLobby`, if requests do not overlap | `SerialInv`: what a request has read is what the rows still say (`Current`), up to what it has written itself; so its last write is the step of `Lobby` and the others are stutters |
| `RoomLobbyKept` | `LobbyKept`, likewise | none of its own: it is `LobbyIsSafe` through the refinement |
| `RoomBannedStayOut` | `BannedStayOut`, likewise | `SerialInv` again, whose part `BansHold` says that only who is about to be pardoned is both banned and seated |
| `LiveTyped` | `LiveBattle!TypeOK` | types, that a call evaluating an answer names a player and a problem, and that only loops count |
| `NoAckedWorkIsLost` | `AckedWorkSurvives` | `CheckpointInv`: what was acknowledged is still in Redis or stored already, or its store has failed; whoever is past the migration has stored it or failed to; so it is once an event is out |
| `OnlyContestedBattlesAreRated` | `RatedOnlyIfContested` | `PeaceInv`: while nobody solved or quit, no document, call or row shows a solve or a forfeit, so no call in flight has decided to rate |
| `WinnersEarnedIt` | `WinnerEarnedIt` | `HonestInv`: every copy of the document, in Redis or in a call, lists accepted answers only, and a call that finishes for a solver has one with as many of them as the room has problems |
| `SerialBattlesRateOnce` | `RatedOnce`, if calls do not overlap and all pass the idempotency guard | `OnceInv`: once the battle is claimed neither the document nor a copy that a call will act on is RUNNING, nobody is rated before, and a call at the ratings has yet to come to players who are unrated |
| `SerialBattlesRankSolvers` | `SolversRankFirst`, if moreover no call dies and Postgres refuses nothing | `RanksInv`, with `HonestInv`: who solved something is in every document that may still be claimed, or stamped; the migration turns the former into the latter, player by player; the ranking puts first who is stamped; the ranks written so far are the ranking's, which has a place for everybody (`RankingComplete`) |
| `QueueTyped` | `Matchmaking!TypeOK` | types, and that a call past "idle" names a user and one with an opponent in hand a candidate |
| `EveryEntryClaimedOnce` | `ClaimedOnce` | an entry still in the pool is not claimed yet |
| `SeatsAreAskedFor` | `OneSeatPerAsk` | `SeatsOwed`, an account: seats given, calls that may still seat the player they serve, rooms to come for a claimed opponent and entries in either queue are together at most requests plus errors; every step passes a debt on, pays it, or is paid for |
| `EveryEntryIsWatched` | `EntriesAreWatched` | a player whose request is being served asks for nothing else (`OneErrand`), and whoever searches has left the pool (`SearchersAway`), so that saving a ticket never shows an old entry whose timer is spent |
| `SquadTypes`, `ScoreTypes`, `SubmissionTypes`, `JudgeTypes`, `RewardTypes`, `ConnectionTypes` | the types of the services | types, and where the record of a call says that it has a user, reward or document |
| `ApprovalsCoverRoster` | `ApprovalCoversRoster` | `VotesKnow`: votes in flight and approvals know everybody on a team in the roster whose version they carry, and carry no version the room has not had yet: a changed roster voids them, and who enters without a team is on none |
| `AgreementsStartCountdowns` | `AgreementStartsCountdown` | inductive with the types |
| `SquadTeamsPromised` | `TeamsPromised` | inductive with the types: a join is admitted only by a call that was idle |
| `ScoreTeamCreditedOnce`, `ScoreFinishEarned` | `TeamCreditedOnce`, `FinishEarned` | documents and copies list claimed problems only, each once; a list without repetition is no longer than the set of what is in it |
| `ScoreClaimIsCredited` | `ClaimIsCredited` | unless `disturbed`: copies in flight contain the document, and every claim is in the document or in the copy of its claimant |
| `SubmissionAwardedOnce` | `AwardedOnce` | unless `torn`: only the owner of the lock is before COMPILING, at most one execution is between COMPILING and its award, and nobody is awarded before |
| `SubmissionEndsFinalized` | `EndsFinalized` | whoever is about to end the job has stored its outcome, and COMPILING is written under the lock only |
| `JudgePoolIsUsed` | `PoolIsUsed` | `PoolInv`: the queue holds the last test cases in order, of the others those without a result run or have just been woken (`Handed`), and none waits while there is room (`Booked`) |
| `JudgeVerdictIsDeterministic` | `VerdictIsDeterministic` | `PoolInv`; the verdict is computed when all results are in, and that there is a first among the failing ones (`LeastFailure`) is the library's theorem about well-founded orders |
| `RewardWeeklyPaidOnce`, `RewardMarkedIsPaid` | `WeeklyPaidOnce`, `MarkedIsPaid` | unless `late`: whoever is paying a milestone has the row of the week; whoever commits a mark, or holds a copy of the marks, finds them paid |
| `RewardAchievementPaidOnce` | `AchievementPaidOnce` | payments of an achievement and calls that may still pay it are together at most one, and none before it is unlocked |
| `RewardAwardsBounded` | `AwardsBounded` | payments and calls past the check are together at most the calls |
| `RewardOverdraftBounded` | `OverdraftBounded` | is inductive: who passes the test finds its price in the balance, and the others take at most `MaxCost` each |
| `RewardUnlockedIsPaid` | `UnlockedIsPaid` | whoever records an item has a redemption row for it or asked for it without a price, and so has every item in a copy of the vault |
| `RewardPaidIsKept` | `PaidIsKept` | unless `spoiled`: whoever has a copy of the document has all of the vault in it, and what is bought is in the vault or with the call about to record it |
| `ConnectionAbsentIsWatched` | `AbsentIsWatched` | is inductive with the types: the step that closes the last session by the id hands the player to the disconnection, each of whose steps hands on to the next; every other step that ends a session or a timer excuses |
| `ServicesCompose` | the composition is each of its services | none: every step of `MCServices` is a step or a stutter of each |
| `ServicesTyped`, `ServicesSafe` | `MCServices!TypeOK`, and every safety property of the five services | the theorems above through `ServicesCompose`: what `services` checks on its instance is proved for all |

*Hypotheses.*  `[]Serial` says that at most one request (BattleRoom) or call
(LiveBattle) is in flight at a time, whatever number of sessions or actors there is; the
runs `room_serial` and `battle_serial` meet it by having only one
(`OneSessionIsSerial`). It is a statement about the load and not about the code, which
has no lock that would enforce it, and it cannot be dropped: `battle_rated_once` shows
two overlapping calls that rate twice, and overlapping joins may overfill a room.
`Kinds \subseteq GuardedPaths` leaves out the entry points that go around the
idempotency guard, the sweep and the finish route: the sweep takes up a battle whose
finalization died among the ratings, the route one that is finished already, and they
rate it again.  `MaxAborts = 0`, in the theorem about ranks only, leaves out calls that
die: one that has accepted an answer and dies before it writes the document back loses
the answer.  `DbFails = FALSE`, in the same theorem, leaves out a
`recordParticipantScore` that fails: its error is swallowed, and the solver has no stamp
to be ranked by.

*Assumptions*: the named assumptions of the modules (`RoomAssumption`, `LiveAssumption`,
`QueueAssumption`, `SquadAssumption`, `SubmissionAssumption`, `RewardAssumption`,
`ScoreAssumption`, `JudgeAssumption`, and `ServicesAssumption` and
`GatheringAssumption`, which put together those of the modules they compose:
finiteness, null is not a user, bounds are numbers, at least two players), and
`LobbyAssumption` as a hypothesis of `LobbyIsSafe`.

*Only model-checked*: `EveryBattleCloses`, which is liveness under fairness and needs
ENABLED.  Of the five properties that runs show to be violated only `RatedOnce` has a
theorem, under its hypotheses.

## What is left out

*Runtime pool*: its autoscaling, which would drain and destroy runtimes, is off in every
configuration of the repository (`docker-compose.yml`, `.env.example`), and its job
counts are hints that nothing waits for.  *Gateway and sessions*: limits in memory with
pass-through calls; nothing of them is changed by two actors in several steps.
*Challenges* are created and answered by handlers that are not interrupted between their
test and their change. *Rating arithmetic* is floating point.  *Record keeping*
(identity, intel, feedback, broadcast, analytics, admin) has no protocol between actors.
The *frontend*, three quarters of the code, is presentation.  `src/apps/api` mounts a
socket handler of its own at `/ws` (`index.ts:179`), with its own connections and
timers; the models follow the one of `src/apps/websocket`.

Within the modelled parts: spectators, problem selection and the Redis list of public
rooms; anti-cheat writes and the problem-reward ledger of a live battle; the two writes
of the first battle document; the expiry of a score lock after a day; several server
instances with fallback queues of their own; a restart of the websocket server; practice
rewards; how a test case is run and compared.

Observations made on the way, all of them part of the models where they concern modelled
state, that no violated run is about: `submit_code` takes the room and the problem from the
message and asks only that the problem exists, so accepted answers to problems of other
rooms win a battle; a checkpoint whose store fails is evicted all the same, against the
comment before the eviction; `POST /rewards/redeem` takes the price from the request, and
stores an item whose price is 0 or missing unpaid, as for an administrator; `POST /users`
stores the vault that its request brings; `joinRoom` lets users into a squad room without a
team, without a new roster version and with the approvals standing; the HTTP approval,
which the client sends first, starts no countdown; `start_room_battle` starts a squad room
without approvals; a player whose only session names the room by its code is never
watched, a message that joins by the code cancels the forfeit timer, and a readmission
cancels that of an absent player; `handleDisconnect` leaves no timer if its read fails.
Further: every practice run carries a new source
id, so its reward is paid again; the balance resync recomputes what was earned and does not
subtract what was spent; a finalized ACCEPTED submission is overwritten with SYSTEM_ERROR
when a later step of its attempt throws; the recovery job cannot find anything to recover;
a squad room that has become READY is past the countdown's test for WAITING, so its
countdown does nothing; the client has a message for a cancelled countdown that the server
never sends; when an old socket of a player closes, challenges are cancelled and the player
is announced offline though a newer one is open.

## Plan

1. Lobby, BattleRoom, LiveBattle, Matchmaking with their proofs: done.
2. Submission, Rewards, Squad, SquadScore with their proofs, Presence, Judge: done.
3. LiveBattle: anti-cheat's read-modify-write, the two writes of the first document.
   Matchmaking: several instances.
4. Proofs of every safety property the passing runs check: done.  Next: how many overlapping
   calls a double rating takes (a bound on `rated` like those on seats and awards), and
   what an overlap leaves of the lobby invariant.
