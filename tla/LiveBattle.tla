----------------------------- MODULE LiveBattle -----------------------------
(***************************************************************************)
(* A running battle and everything that may end it.                        *)
(*                                                                         *)
(* The live state is one JSON document in Redis (battle_state) that every  *)
(* handler reads, changes and writes back whole; ranks, scores and ratings *)
(* are in Postgres.  BattleService.finishBattle moves the battle from the  *)
(* one to the other in a long chain of awaited calls.  It is started by    *)
(* the last solve, by a player who leaves or stays disconnected and by the *)
(* battle timer's job; the scheduler's sweep and the finish route call     *)
(* BattleRoomService.finishBattle directly.  An actor is one such call in  *)
(* flight, in whichever process it runs, and each of its actions is what   *)
(* happens between two awaits.                                             *)
(***************************************************************************)
EXTENDS Integers, FiniteSets, Sequences

CONSTANTS
    N,           \* number of players, numbered by their place in state.players
    Problems,    \* problems somebody may submit: no check ties them to the room
    TotalQuestions, \* state.totalQuestions, the number of the room's problems
    Actors,      \* calls that can be in flight at once
    Kinds,       \* the entry points this instance exercises
    Hosted,      \* whether the battle_state document has a hostId
    DbFails,     \* whether Postgres may refuse a statement whose failure is caught
    MaxCalls,    \* bound of the model: calls in all, the sweep's excepted
    MaxAborts,   \* bound of the model: calls that throw or die half way
    Typists,     \* bound of the model: players who save checkpoints
    MaxRevision  \* bound of the model: checkpoints per player

AllKinds == {"submit", "worker", "leave", "timeout", "timer", "sweep", "route"}

ASSUME LiveAssumption ==
    /\ N \in Nat /\ N >= 2
    /\ IsFiniteSet(Problems) /\ Problems # {}
    /\ TotalQuestions \in Nat
    /\ Kinds \subseteq AllKinds
    /\ Hosted \in BOOLEAN /\ DbFails \in BOOLEAN
    /\ MaxCalls \in Nat /\ MaxAborts \in Nat /\ MaxRevision \in Nat

Players == 1 .. N
Nobody == 0

VARIABLES
    redis,      \* battle_state:<room>
    cp,         \* newest checkpoint revision in Redis of each player, 0 for none
    saved,      \* newest checkpoint revision stored as a submission
    room,       \* BattleRoom.status
    solvedAt,   \* place of each participant's solvedAt, earliest first, 0 for none
    rank,       \* BattleParticipant.rank, 0 before any
    rated,      \* RatingHistory rows of each player for this room
    results,    \* BATTLE_FINISHED events published
    expired,    \* the time limit has passed
    proc,       \* the calls in flight
    calls, aborts,      \* how many so far
    accepted,   \* history: the first accepted answers, in order
    quit,       \* history: players who left or were timed out
    claimed,    \* history: the battle has been claimed for finalization
    acked,      \* history: cp when it was first claimed
    unsaved     \* history: players whose checkpoint a finalization failed to store

redisVars == <<redis, cp>>
pgVars == <<saved, room, solvedAt, rank, rated>>
envVars == <<expired, calls, aborts>>
history == <<accepted, quit, claimed, acked, unsaved>>
vars == <<redisVars, pgVars, results, envVars, proc, history>>

NoSolves == [p \in Players |-> {}]
NoRevision == [p \in Players |-> 0]

\* The battle_state document; status GONE stands for a missing key.
Document == [status : {"RUNNING", "FINISHING", "GONE"},
             solved : [Players -> SUBSET Problems],
             left : SUBSET Players]

Gone == [status |-> "GONE", solved |-> NoSolves, left |-> {}]
Live == redis.status # "GONE"

\* service: BattleService with its repositories; bare: the submission workers'
\* `new BattleService()`; direct: BattleRoomService.finishBattle on its own.
Call == [pc : {"idle", "evalRead", "evalWrite", "leaveWrite", "finRead", "finClaim",
               "migrate", "order", "rank", "rate", "close", "evict", "drop", "publish"},
         kind : {"service", "bare", "direct"},
         player : Players \cup {Nobody},
         problem : Problems \cup {Nobody},
         winner : Players \cup {Nobody},
         forfeit : Players \cup {Nobody},
         snap : Document,                 \* the document as read
         order : [Players -> Players],    \* the ranking as computed
         elo : BOOLEAN,                   \* shouldApplyElo
         k : 1 .. N]                      \* position of a loop over players

Idle == [pc |-> "idle", kind |-> "service", player |-> Nobody, problem |-> Nobody,
         winner |-> Nobody, forfeit |-> Nobody, snap |-> Gone,
         order |-> [p \in Players |-> p], elo |-> FALSE, k |-> 1]

At(a, step) == proc[a].pc = step
Set(a, call) == proc' = [proc EXCEPT ![a] = call]
Goto(a, step) == proc' = [proc EXCEPT ![a].pc = step]
Done(a) == Set(a, Idle)
\* Variant: the loop starts one player too far.
Loop_overruns(a, after) ==
    IF proc[a].k <= N THEN proc' = [proc EXCEPT ![a].k = @ + 1]
                      ELSE proc' = [proc EXCEPT ![a].k = 1, ![a].pc = after]

\* Variant: the loop forgets the last player.
Loop_stopsEarly(a, after) ==
    IF proc[a].k < N - 1 THEN proc' = [proc EXCEPT ![a].k = @ + 1]
                         ELSE proc' = [proc EXCEPT ![a].k = 1, ![a].pc = after]

\* The body of a loop over the players, then what follows the loop.
Loop(a, after) ==
    IF proc[a].k < N THEN proc' = [proc EXCEPT ![a].k = @ + 1]
                     ELSE proc' = [proc EXCEPT ![a].k = 1, ![a].pc = after]

\* A call of the given kind arrives.
Arrives(a, kind) ==
    /\ kind \in Kinds
    /\ At(a, "idle")
    /\ calls < MaxCalls
    /\ calls' = calls + 1
    /\ UNCHANGED <<expired, aborts>>

Max2(m, n) == IF m >= n THEN m ELSE n
Members(s) == {s[i] : i \in DOMAIN s}

-----------------------------------------------------------------------------
\* dispatchMatch and start_room_battle write the first document.  The instance
\* that receives the published match writes it again, with a hostId.
Init ==
    /\ redis = [Gone EXCEPT !.status = "RUNNING"]
    /\ cp = NoRevision
    /\ saved = NoRevision
    /\ room = "RUNNING"
    /\ solvedAt = [p \in Players |-> 0]
    /\ rank = [p \in Players |-> 0]
    /\ rated = [p \in Players |-> 0]
    /\ results = {}
    /\ expired = FALSE
    /\ proc = [a \in Actors |-> Idle]
    /\ calls = 0 /\ aborts = 0
    /\ accepted = <<>>
    /\ quit = {}
    /\ claimed = FALSE
    /\ acked = NoRevision
    /\ unsaved = {}

-----------------------------------------------------------------------------
(* Solving                                                                 *)

Accepted(p, q) ==
    /\ accepted' = IF <<p, q>> \in Members(accepted) THEN accepted
                   ELSE Append(accepted, <<p, q>>)
    /\ UNCHANGED <<quit, claimed, acked, unsaved>>

\* recordParticipantScore sets p's solvedAt to the current time.
Stamp(p) ==
    LET set == {q \in Players : solvedAt[q] # 0} \cup {p}
        earlier(q) == IF solvedAt[p] # 0 /\ solvedAt[q] > solvedAt[p] THEN 1 ELSE 0 IN
    solvedAt' = [q \in Players |-> IF q = p THEN Cardinality(set) ELSE solvedAt[q] - earlier(q)]

Unsolved(p, q) == Live /\ q \notin redis.solved[p]

\* submit_code: an accepted answer goes straight to processEvaluationResult.  The
\* client names the problem; it has to exist, not to be one of the room's.
Submit(a, p, q) ==
    /\ Arrives(a, "submit")
    /\ Unsolved(p, q)
    /\ Set(a, [Idle EXCEPT !.pc = "evalWrite", !.player = p, !.problem = q, !.snap = redis])
    /\ Accepted(p, q)
    /\ UNCHANGED <<redisVars, pgVars, results>>

\* ExecutionService.processSubmission records the score in Postgres first.
WorkerVerdict(a, p, q) ==
    /\ Arrives(a, "worker")
    /\ Stamp(p)
    /\ Set(a, [Idle EXCEPT !.pc = "evalRead", !.kind = "bare", !.player = p, !.problem = q])
    /\ Accepted(p, q)
    /\ UNCHANGED <<redisVars, saved, room, rank, rated, results>>

EvalRead(a) ==
    /\ At(a, "evalRead")
    /\ IF Unsolved(proc[a].player, proc[a].problem)
       THEN proc' = [proc EXCEPT ![a].pc = "evalWrite", ![a].snap = redis]
       ELSE Done(a)
    /\ UNCHANGED <<redisVars, pgVars, results, envVars, history>>

\* Variant: somebody having solved everything ends the battle for the solver.
SolvedAll_anyone(doc, p) == \E r \in Players : doc.solved[r] # {}

\* player.solvedCount >= state.totalQuestions, whichever problems they are.
SolvedAll(doc, p) == Cardinality(doc.solved[p]) >= TotalQuestions

EvalWrite(a) ==
    LET p == proc[a].player
        doc == [proc[a].snap EXCEPT !.solved[p] = @ \cup {proc[a].problem}] IN
    /\ At(a, "evalWrite")
    /\ redis' = doc
    /\ IF SolvedAll(doc, p)
       THEN Set(a, [Idle EXCEPT !.pc = "finRead", !.kind = proc[a].kind, !.winner = p])
       ELSE Done(a)
    /\ UNCHANGED <<cp, pgVars, results, envVars, history>>

\* checkpoint_sync: a Lua merge, whatever the battle's status is.
CheckpointSync(p) ==
    /\ p \in Typists
    /\ Max2(cp[p], saved[p]) < MaxRevision
    /\ cp' = [cp EXCEPT ![p] = Max2(cp[p], saved[p]) + 1]
    /\ UNCHANGED <<redis, pgVars, results, envVars, proc, history>>

-----------------------------------------------------------------------------
(* Leaving                                                                 *)

\* The document marks p as gone; with one player left, finishBattle is called
\* instead of writing the document back; with none left, fallback wins.
GoesAway(a, p, spared, fallback) ==
    LET doc == [redis EXCEPT !.left = @ \cup {p}]
        active == Players \ doc.left IN
    /\ IF Cardinality(active) <= 1 /\ ~spared
       THEN \E w \in IF active = {} THEN {fallback} ELSE active :
              Set(a, [Idle EXCEPT !.pc = "finRead", !.winner = w, !.forfeit = p])
       ELSE Set(a, [Idle EXCEPT !.pc = "leaveWrite", !.snap = doc])
    /\ quit' = quit \cup {p}
    /\ UNCHANGED <<redisVars, pgVars, results, accepted, claimed, acked, unsaved>>

\* leave_battle, forfeit_battle
LeaveBattle(a, p) ==
    /\ Arrives(a, "leave")
    /\ Live
    /\ GoesAway(a, p, Hosted, Nobody)

\* The first other player of the document.
Opponent(p) == IF p = 1 THEN 2 ELSE 1

\* The timer handleDisconnect set 60 seconds ago.
DisconnectTimeout(a, p) ==
    /\ Arrives(a, "timeout")
    /\ redis.status = "RUNNING"
    /\ GoesAway(a, p, FALSE, Opponent(p))

LeaveWrite(a) ==
    /\ At(a, "leaveWrite")
    /\ redis' = proc[a].snap
    /\ Done(a)
    /\ UNCHANGED <<cp, pgVars, results, envVars, history>>

-----------------------------------------------------------------------------
(* BattleService.finishBattle                                              *)

\* The battle-timer job.
TimerFires(a) ==
    /\ Arrives(a, "timer")
    /\ expired
    /\ Set(a, [Idle EXCEPT !.pc = "finRead"])
    /\ UNCHANGED <<redisVars, pgVars, results, history>>

\* Variant: a missing document does not stop the finalization.
Claimable_missing(doc) == doc.status # "FINISHING"

\* The idempotency guard.
Claimable(doc) == doc.status = "RUNNING"

FinRead(a) ==
    /\ At(a, "finRead")
    /\ IF Claimable(redis)
       THEN proc' = [proc EXCEPT ![a].pc = "finClaim", ![a].snap = redis]
       ELSE Done(a)
    /\ UNCHANGED <<redisVars, pgVars, results, envVars, history>>

FinClaim(a) ==
    /\ At(a, "finClaim")
    /\ redis' = [proc[a].snap EXCEPT !.status = "FINISHING"]
    /\ Goto(a, "migrate")
    /\ claimed' = TRUE
    /\ acked' = IF claimed THEN acked ELSE cp
    /\ UNCHANGED <<cp, pgVars, results, envVars, accepted, quit, unsaved>>

\* p's newest checkpoint becomes a submission.
Store(p) ==
    /\ saved' = [saved EXCEPT ![p] = Max2(@, cp[p])]
    /\ UNCHANGED unsaved

\* Reading or inserting it fails: the catch logs, and the loop goes on.
StoreFails(p) ==
    /\ DbFails
    /\ cp[p] > saved[p]
    /\ unsaved' = unsaved \cup {p}
    /\ UNCHANGED saved

\* recordParticipantScore stamps a solver with the current time, unless it fails.
Record(a, p) ==
    IF proc[a].kind = "service" /\ proc[a].snap.solved[p] # {}
    THEN Stamp(p) \/ (DbFails /\ UNCHANGED solvedAt)
    ELSE UNCHANGED solvedAt

\* One turn of the loop over the players.
Migrate(a) ==
    LET p == proc[a].k IN
    /\ At(a, "migrate")
    /\ Store(p) \/ StoreFails(p)
    /\ Record(a, p)
    /\ Loop(a, IF proc[a].kind = "bare" THEN "evict" ELSE "order")
    /\ UNCHANGED <<redisVars, room, rank, rated, results, envVars,
                   accepted, quit, claimed, acked>>

\* The checkpoints are deleted whether or not they were stored.
Evict(a) ==
    /\ At(a, "evict")
    /\ cp' = NoRevision
    /\ Goto(a, "drop")
    /\ UNCHANGED <<redis, pgVars, results, envVars, history>>

Drop(a) ==
    /\ At(a, "drop")
    /\ redis' = Gone
    /\ Goto(a, "publish")
    /\ UNCHANGED <<cp, pgVars, results, envVars, history>>

Publish(a) ==
    /\ At(a, "publish")
    /\ results' = results \cup {[winner |-> proc[a].winner, forfeit |-> proc[a].forfeit]}
    /\ Done(a)
    /\ UNCHANGED <<redisVars, pgVars, envVars, history>>

-----------------------------------------------------------------------------
(* BattleRoomService.finishBattle                                          *)

\* Variant: the sweep looks for battles in Redis.
Sweep_liveOnly(a) ==
    /\ "sweep" \in Kinds
    /\ At(a, "idle")
    /\ expired
    /\ Live
    /\ room = "RUNNING"
    /\ Set(a, [Idle EXCEPT !.pc = "order", !.kind = "direct"])
    /\ UNCHANGED <<redisVars, pgVars, results, envVars, history>>

\* runBattleExpirationJob: the room is still RUNNING and its time is over.
Sweep(a) ==
    /\ "sweep" \in Kinds
    /\ At(a, "idle")
    /\ expired
    /\ room = "RUNNING"
    /\ Set(a, [Idle EXCEPT !.pc = "order", !.kind = "direct"])
    /\ UNCHANGED <<redisVars, pgVars, results, envVars, history>>

\* POST /battles/:id/finish
FinishRoute(a) ==
    /\ Arrives(a, "route")
    /\ Set(a, [Idle EXCEPT !.pc = "order", !.kind = "direct"])
    /\ UNCHANGED <<redisVars, pgVars, results, history>>

\* Variant: everybody by user id.
Above_bySeat(p, q) == p < q

\* Solvers by solvedAt, then the others by user id.  Who has no solvedAt has no
\* points either.
Above(p, q) ==
    \/ solvedAt[p] # 0 /\ (solvedAt[q] = 0 \/ solvedAt[p] < solvedAt[q])
    \/ solvedAt[p] = 0 /\ solvedAt[q] = 0 /\ p < q

\* The players in that order, but for a forfeiter, who comes last.
Ranking(forfeit) ==
    {o \in [Players -> Players] :
        \A i, j \in Players :
            i < j => o[i] # forfeit /\ (o[j] = forfeit \/ Above(o[i], o[j]))}

\* Variant: every rated room moves ratings.
ShouldApplyElo_always(forfeit) == TRUE

ShouldApplyElo(forfeit) == forfeit # Nobody \/ \E p \in Players : solvedAt[p] # 0

Order(a) ==
    /\ At(a, "order")
    /\ \E order \in Ranking(proc[a].forfeit) :
          proc' = [proc EXCEPT ![a].pc = "rank",
                               ![a].snap = Gone,
                               ![a].order = order,
                               ![a].elo = ShouldApplyElo(proc[a].forfeit)]
    /\ UNCHANGED <<redisVars, pgVars, results, envVars, history>>

Rank(a) ==
    /\ At(a, "rank")
    /\ rank' = [rank EXCEPT ![proc[a].order[proc[a].k]] = proc[a].k]
    /\ Loop(a, IF proc[a].elo THEN "rate" ELSE "close")
    /\ UNCHANGED <<redisVars, saved, room, solvedAt, rated, results, envVars, history>>

\* applyBattleResolution: one transaction per player.
Rate(a) ==
    /\ At(a, "rate")
    /\ rated' = [rated EXCEPT ![proc[a].order[proc[a].k]] = @ + 1]
    /\ Loop(a, "close")
    /\ UNCHANGED <<redisVars, saved, room, solvedAt, rank, results, envVars, history>>

Close(a) ==
    /\ At(a, "close")
    /\ room' = "FINISHED"
    /\ IF proc[a].kind = "direct" THEN Done(a) ELSE Goto(a, "evict")
    /\ UNCHANGED <<redisVars, saved, solvedAt, rank, rated, results, envVars, history>>

-----------------------------------------------------------------------------
(* The environment                                                         *)

TimeUp ==
    /\ ~expired
    /\ expired' = TRUE
    /\ UNCHANGED <<redisVars, pgVars, results, proc, calls, aborts, history>>

\* The document lives a few minutes past the time limit, and ten minutes once it
\* is FINISHING.
StateExpires ==
    /\ redis.status = "FINISHING" \/ (redis.status = "RUNNING" /\ expired)
    /\ redis' = Gone
    /\ UNCHANGED <<cp, pgVars, results, envVars, proc, history>>

\* The process dies, or, but for the migration, whose failures are caught player by
\* player, an awaited call throws: the catch only logs.
Abort(a) ==
    /\ ~At(a, "idle")
    /\ aborts < MaxAborts
    /\ aborts' = aborts + 1
    /\ Done(a)
    /\ UNCHANGED <<redisVars, pgVars, results, expired, calls, history>>

-----------------------------------------------------------------------------
Arrive(a) ==
    \/ \E p \in Players, q \in Problems : Submit(a, p, q) \/ WorkerVerdict(a, p, q)
    \/ \E p \in Players : LeaveBattle(a, p) \/ DisconnectTimeout(a, p)
    \/ TimerFires(a) \/ FinishRoute(a)

Continue(a) ==
    \/ EvalRead(a) \/ EvalWrite(a) \/ LeaveWrite(a)
    \/ FinRead(a) \/ FinClaim(a) \/ Migrate(a)
    \/ Order(a) \/ Rank(a) \/ Rate(a) \/ Close(a)
    \/ Evict(a) \/ Drop(a) \/ Publish(a)

Next ==
    \/ \E a \in Actors : Arrive(a) \/ Sweep(a) \/ Continue(a) \/ Abort(a)
    \/ \E p \in Players : CheckpointSync(p)
    \/ TimeUp
    \/ StateExpires

Spec == Init /\ [][Next]_vars

\* Calls in flight go on, time passes, and the scheduler's interval sweeps.
FairSpec ==
    /\ Spec
    /\ \A a \in Actors : WF_vars(Continue(a))
    /\ WF_vars(TimeUp)
    /\ WF_vars(\E a \in Actors : Sweep(a))

-----------------------------------------------------------------------------
TypeOK ==
    /\ redis \in Document
    /\ cp \in [Players -> Nat]
    /\ saved \in [Players -> Nat]
    /\ room \in {"RUNNING", "FINISHED"}
    /\ solvedAt \in [Players -> 0 .. N]
    /\ rank \in [Players -> 0 .. N]
    /\ rated \in [Players -> Nat]
    /\ results \subseteq [winner : Players \cup {Nobody}, forfeit : Players \cup {Nobody}]
    /\ expired \in BOOLEAN
    /\ proc \in [Actors -> Call]
    /\ calls \in Nat /\ aborts \in Nat
    /\ accepted \in Seq(Players \X Problems)
    /\ quit \subseteq Players
    /\ claimed \in BOOLEAN
    /\ acked \in [Players -> Nat]
    /\ unsaved \subseteq Players

Solves(p) == {q \in Problems : <<p, q>> \in Members(accepted)}
SolvedBefore(p, q) ==
    \E i \in DOMAIN accepted :
        accepted[i][1] = p /\ \A j \in 1 .. i : accepted[j][1] # q

(* However calls overlap, are cut short or repeat, BATTLE_FINISHED never   *)
(* names a winner by solving who had not as many problems accepted as the  *)
(* room has: stale copies of the document lose solves but invent none, and *)
(* count none twice.  They need not be the room's own problems.            *)
WinnerEarnedIt ==
    \A r \in results :
        r.winner # Nobody /\ r.forfeit = Nobody
            => Cardinality(Solves(r.winner)) >= TotalQuestions

(* ELO moves only in a contested battle: somebody solved or somebody quit. *)
RatedOnlyIfContested ==
    (\E p \in Players : rated[p] > 0)
        => quit # {} \/ accepted # <<>>

(* Every checkpoint the server held when the battle was first claimed is   *)
(* in Postgres before any client hears that the battle is over, although   *)
(* racing finalizations evict the checkpoints under one another.  But for  *)
(* those of whom Postgres failed to store: eviction does not ask, although *)
(* the comment before it says "ONLY after successful PostgreSQL            *)
(* operations"; what the others had is safe all the same.                  *)
AckedWorkSurvives ==
    results # {} => \A p \in Players \ unsaved : saved[p] >= acked[p]

(* The scheduler closes what every other path has left open.               *)
EveryBattleCloses == <>(room = "FINISHED")

(* The idempotency guard: a battle moves each rating once.                 *)
RatedOnce == \A p \in Players : rated[p] <= 1

Closes == room = "RUNNING" /\ room' = "FINISHED"

(* At the moment the room closes, who solved something stands above who   *)
(* solved nothing, unless they quit.                                       *)
SolversRankFirst ==
    [][Closes => \A p, q \in Players :
           (Solves(p) # {} /\ Solves(q) = {} /\ p \notin quit) => rank[p] < rank[q]]_vars

(* AF-015 in BattleRoomService.finishBattle: who solved first stands first,*)
(* at least before those who have no more solves.  The timestamps it sorts *)
(* by were rewritten moments before, in the order of state.players, by the *)
(* finalization that calls it.                                             *)
FirstSolverRanksFirst ==
    [][Closes => \A p, q \in Players :
           /\ SolvedBefore(p, q)
           /\ Solves(q) # {}
           /\ Cardinality(Solves(p)) >= Cardinality(Solves(q))
           /\ p \notin quit
           => rank[p] < rank[q]]_vars
=============================================================================
