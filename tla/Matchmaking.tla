---------------------------- MODULE Matchmaking ----------------------------
(***************************************************************************)
(* The 1v1 queue: MatchmakingService and the socket handlers around it.    *)
(*                                                                         *)
(* Waiting players are entries of a Redis sorted set (pool) and of a hash  *)
(* (tickets).  Joining, cancelling and the 25 second timeout each change   *)
(* the two in separate awaited commands; only the claim of an opponent is  *)
(* one Lua script.  When anything in the Redis path throws, the joiner is  *)
(* put in a queue in the memory of its server instance.                    *)
(*                                                                         *)
(* Clients are taken to be well behaved: a player asks for a match, or for *)
(* the bot, only when not already playing, and asks again only after being *)
(* told that the previous attempt is over.                                 *)
(***************************************************************************)
EXTENDS Integers, FiniteSets, FiniteSetsExt

CONSTANTS
    Users,
    NoUser,
    Calls,      \* service calls that can be in flight at once
    MaxAsks,    \* bound of the model: matches and bot games asked for in all
    MaxFaults   \* bound of the model: Redis or database errors

ASSUME QueueAssumption ==
    /\ NoUser \notin Users
    /\ IsFiniteSet(Users) /\ IsFiniteSet(Calls)
    /\ MaxAsks \in Nat /\ MaxFaults \in Nat

VARIABLES
    pool,       \* sorted set matchmaking:pool
    tickets,    \* hash matchmaking:tickets
    local,      \* localFallbackQueue of the server instance
    timers,     \* 25 second timers pending for each user
    client,     \* what each player has last been told
    call,       \* the service calls in flight
    isRedisReady,   \* as the service believes
    faults,     \* errors so far
    missed,     \* history: an error kept an entry from the timer or from its removal
    asks,       \* history: matches and bot games each user has asked for
    entered,    \* history: times each user was put in the pool
    claimed,    \* history: times each user was claimed out of the pool
    booked      \* history: rooms each user was seated in

queue == <<pool, tickets, local>>
history == <<asks, entered, claimed, booked>>
trouble == <<isRedisReady, faults, missed>>
vars == <<queue, timers, client, call, trouble, history>>

Clients == {"idle", "asking", "waiting", "cancelling", "matched"}

\* Steps of joinQueue whose errors the catch turns into a local search.
Guarded == {"zrem", "hdel", "range", "scan", "claim", "create", "seat", "publish",
            "hset", "zadd"}

Call == [pc : Guarded \cup {"idle", "local", "createLocal", "seatLocal", "announce",
                            "cancelZrem", "cancelHdel", "botRoom"},
         user : Users \cup {NoUser},
         cand : Users \cup {NoUser},         \* the candidate looked at or claimed
         cands : SUBSET Users,               \* candidateIds not looked at yet
         then : {"idle", "botRoom"}]         \* what follows cancelQueue

Idle == [pc |-> "idle", user |-> NoUser, cand |-> NoUser, cands |-> {}, then |-> "idle"]

At(c, step) == call[c].pc = step
Goto(c, step) == call' = [call EXCEPT ![c].pc = step]
Done(c) == call' = [call EXCEPT ![c] = Idle]
Start(c, u, step) ==
    /\ At(c, "idle")
    /\ call' = [call EXCEPT ![c] = [Idle EXCEPT !.pc = step, !.user = u]]
Tell(us, news) == client' = [v \in Users |-> IF v \in us THEN news ELSE client[v]]
Count(f, u) == [f EXCEPT ![u] = @ + 1]

Asked == FoldSet(LAMBDA u, n : asks[u] + n, 0, Users)
Zero == [u \in Users |-> 0]

Init ==
    /\ pool = {} /\ tickets = {} /\ local = {}
    /\ timers = Zero
    /\ client = [u \in Users |-> "idle"]
    /\ call = [c \in Calls |-> Idle]
    /\ isRedisReady \in BOOLEAN     \* false until the client has connected
    /\ faults = 0 /\ missed = FALSE
    /\ asks = Zero /\ entered = Zero /\ claimed = Zero /\ booked = Zero

-----------------------------------------------------------------------------
(* joinQueue: leave the queue, look for an opponent, or wait               *)

FindMatch(c, u) ==
    /\ client[u] = "idle"
    /\ Asked < MaxAsks
    /\ asks' = Count(asks, u)
    /\ Tell({u}, "asking")
    /\ Start(c, u, "zrem")
    /\ UNCHANGED <<queue, timers, trouble, entered, claimed, booked>>

LeavePool(c) ==
    /\ At(c, "zrem")
    /\ isRedisReady
    /\ pool' = pool \ {call[c].user}
    /\ Goto(c, "hdel")
    /\ UNCHANGED <<tickets, local, timers, client, trouble, history>>

DropTicket(c) ==
    /\ At(c, "hdel")
    /\ tickets' = tickets \ {call[c].user}
    /\ Goto(c, "range")
    /\ UNCHANGED <<pool, local, timers, client, trouble, history>>

\* zrangebyscore
ListCandidates(c) ==
    /\ At(c, "range")
    /\ call' = [call EXCEPT ![c].pc = "scan", ![c].cands = pool \ {call[c].user}]
    /\ UNCHANGED <<queue, timers, client, trouble, history>>

\* The next candidate has a ticket and a rating window that includes the joiner,
\* or is passed over: ratings and waiting times are abstracted to this choice.
Inspect(c) ==
    /\ At(c, "scan")
    /\ \E v \in call[c].cands :
        \/ /\ v \in tickets
           /\ call' = [call EXCEPT ![c].pc = "claim", ![c].cand = v, ![c].cands = @ \ {v}]
        \/ call' = [call EXCEPT ![c].cands = @ \ {v}]
    /\ UNCHANGED <<queue, timers, client, trouble, history>>

NoCandidate(c) ==
    /\ At(c, "scan")
    /\ call[c].cands = {}
    /\ Goto(c, "hset")
    /\ UNCHANGED <<queue, timers, client, trouble, history>>

\* Variant: the result of the ZREM is ignored.
Claimed_always(v) == TRUE

\* LUA_CLAIM_MATCH
Claimed(v) == v \in pool

Claim(c) ==
    LET u == call[c].user
        v == call[c].cand IN
    /\ At(c, "claim")
    /\ IF Claimed(v)
       THEN /\ pool' = pool \ {u, v}
            /\ tickets' = tickets \ {u, v}
            /\ claimed' = Count(claimed, v)
            /\ call' = [call EXCEPT ![c].pc = "create", ![c].cands = {}]
       ELSE /\ call' = [call EXCEPT ![c].pc = "scan", ![c].cand = NoUser]
            /\ UNCHANGED <<pool, tickets, claimed>>
    /\ UNCHANGED <<local, timers, client, trouble, asks, entered, booked>>

\* createRoom seats the candidate as host, joinRoom the joiner.
CreateRoom(c) ==
    /\ At(c, "create") \/ At(c, "createLocal")
    /\ booked' = Count(booked, call[c].cand)
    /\ Goto(c, IF At(c, "create") THEN "seat" ELSE "seatLocal")
    /\ UNCHANGED <<queue, timers, client, trouble, asks, entered, claimed>>

SeatJoiner(c) ==
    /\ At(c, "seat") \/ At(c, "seatLocal")
    /\ booked' = Count(booked, call[c].user)
    /\ Goto(c, IF At(c, "seat") THEN "publish" ELSE "announce")
    /\ UNCHANGED <<queue, timers, client, trouble, asks, entered, claimed>>

\* The match is published, then dispatchMatch sends match_found to both.
Announce(c) ==
    /\ At(c, "publish") \/ At(c, "announce")
    /\ Tell({call[c].user, call[c].cand}, "matched")
    /\ Done(c)
    /\ UNCHANGED <<queue, timers, trouble, history>>

SaveTicket(c) ==
    /\ At(c, "hset")
    /\ tickets' = tickets \cup {call[c].user}
    /\ Goto(c, "zadd")
    /\ UNCHANGED <<pool, local, timers, client, trouble, history>>

\* joinQueue returned null: waiting_for_opponent is sent and the timer set.
Wait(u) ==
    /\ client' = [client EXCEPT ![u] = IF @ = "asking" THEN "waiting" ELSE @]
    /\ timers' = Count(timers, u)

EnterPool(c) ==
    LET u == call[c].user IN
    /\ At(c, "zadd")
    /\ pool' = pool \cup {u}
    /\ entered' = Count(entered, u)
    /\ Wait(u)
    /\ Done(c)
    /\ UNCHANGED <<tickets, local, trouble, asks, claimed, booked>>

-----------------------------------------------------------------------------
(* The in-memory fallback                                                  *)

Error ==
    /\ faults < MaxFaults
    /\ faults' = faults + 1
    /\ UNCHANGED isRedisReady

\* What follows the Redis path of joinQueue: the search in memory.
FallBack(c) ==
    call' = [call EXCEPT ![c] = [Idle EXCEPT !.pc = "local", !.user = call[c].user]]

WithoutRedis(c) ==
    /\ At(c, "zrem")
    /\ ~isRedisReady
    /\ FallBack(c)
    /\ UNCHANGED <<queue, timers, client, trouble, history>>

\* A Redis command or a room operation fails without having had its effect.
Fault(c) ==
    /\ call[c].pc \in Guarded
    /\ Error
    /\ FallBack(c)
    /\ UNCHANGED <<queue, timers, client, missed, history>>

\* The last command took effect, but its reply is lost.  (A lost reply to any
\* other command is a Fault at the step after it.)
LostReply(c) ==
    LET u == call[c].user IN
    /\ Error
    /\ FallBack(c)
    /\ \/ /\ At(c, "zadd")
          /\ pool' = pool \cup {u}
          /\ entered' = Count(entered, u)
          /\ missed' = TRUE
          /\ UNCHANGED client
       \/ /\ At(c, "publish")
          /\ Tell({u, call[c].cand}, "matched")
          /\ UNCHANGED <<pool, entered, missed>>
    /\ UNCHANGED <<tickets, local, timers, asks, claimed, booked>>

\* tryMatchLocal finds and removes a candidate without awaiting anything.
MatchLocal(c) ==
    LET u == call[c].user IN
    /\ At(c, "local")
    /\ \E v \in local \ {u} :
        /\ local' = local \ {u, v}
        /\ call' = [call EXCEPT ![c].pc = "createLocal", ![c].cand = v]
    /\ UNCHANGED <<pool, tickets, timers, client, trouble, history>>

WaitLocal(c) ==
    LET u == call[c].user IN
    /\ At(c, "local")
    /\ local' = local \cup {u}
    /\ Wait(u)
    /\ Done(c)
    /\ UNCHANGED <<pool, tickets, trouble, history>>

\* Nothing catches an error of the local search but the message handler, which
\* reports it to the joiner.
LocalFault(c) ==
    /\ At(c, "createLocal") \/ At(c, "seatLocal")
    /\ Error
    /\ client' = [client EXCEPT ![call[c].user] = IF @ = "asking" THEN "idle" ELSE @]
    /\ Done(c)
    /\ UNCHANGED <<queue, timers, missed, history>>

-----------------------------------------------------------------------------
(* cancelQueue: asked for by the player, by the timer, or by a bot match   *)

CancelMatch(c, u) ==
    /\ client[u] = "waiting"
    /\ Tell({u}, "cancelling")
    /\ Start(c, u, "cancelZrem")
    /\ UNCHANGED <<queue, timers, trouble, history>>

\* Variant: only the fallback queue is looked at.
IsQueued_localOnly(u) == u \in local

IsQueued(u) == u \in tickets \/ u \in local

\* Variant: a timer fires more often than it was set.
TimerFires_again(c, u) ==
    /\ isRedisReady
    /\ timers' = [timers EXCEPT ![u] = @ - 1]
    /\ IF IsQueued(u) THEN Start(c, u, "cancelZrem") ELSE UNCHANGED call
    /\ UNCHANGED <<queue, client, trouble, history>>

\* The 25 second timer of some earlier wait: nothing ever clears it.
TimerFires(c, u) ==
    /\ isRedisReady
    /\ timers[u] > 0
    /\ timers' = [timers EXCEPT ![u] = @ - 1]
    /\ IF IsQueued(u) THEN Start(c, u, "cancelZrem") ELSE UNCHANGED call
    /\ UNCHANGED <<queue, client, trouble, history>>

\* isQueued without Redis, or with an error in HEXISTS, looks at the fallback
\* queue only.
TimerMisses(c, u) ==
    /\ Error \/ (~isRedisReady /\ UNCHANGED <<isRedisReady, faults>>)
    /\ timers[u] > 0
    /\ timers' = [timers EXCEPT ![u] = @ - 1]
    /\ missed' = TRUE
    /\ IF u \in local THEN Start(c, u, "cancelZrem") ELSE UNCHANGED call
    /\ UNCHANGED <<queue, client, history>>

\* matchmake_vs_bot, offered to a player who is waiting.
PlayBot(c, u) ==
    /\ client[u] \in {"idle", "waiting"}
    /\ Asked < MaxAsks
    /\ asks' = Count(asks, u)
    /\ At(c, "idle")
    /\ call' = [call EXCEPT ![c] = [Idle EXCEPT !.pc = "cancelZrem", !.user = u,
                                                !.then = "botRoom"]]
    /\ Tell({u}, "asking")
    /\ UNCHANGED <<queue, timers, trouble, entered, claimed, booked>>

CancelPool(c) ==
    /\ At(c, "cancelZrem")
    /\ isRedisReady
    /\ pool' = pool \ {call[c].user}
    /\ Goto(c, "cancelHdel")
    /\ UNCHANGED <<tickets, local, timers, client, trouble, history>>

\* The fallback queue is left as well, and the player told that the wait is over,
\* unless a match came first.
CancelLocal(c) ==
    LET u == call[c].user IN
    /\ local' = local \ {u}
    /\ IF call[c].then = "botRoom"
       THEN Goto(c, "botRoom") /\ UNCHANGED client
       ELSE /\ Done(c)
            /\ client' = [client EXCEPT ![u] = IF @ \in {"waiting", "cancelling"}
                                               THEN "idle" ELSE @]

CancelTicket(c) ==
    /\ At(c, "cancelHdel")
    /\ tickets' = tickets \ {call[c].user}
    /\ CancelLocal(c)
    /\ UNCHANGED <<pool, timers, trouble, history>>

\* cancelQueue does without Redis, and ignores an error of either command.
CancelMisses(c) ==
    /\ \/ At(c, "cancelZrem") /\ ~isRedisReady /\ UNCHANGED <<isRedisReady, faults>>
       \/ (At(c, "cancelZrem") \/ At(c, "cancelHdel")) /\ Error
    /\ missed' = TRUE
    /\ CancelLocal(c)
    /\ UNCHANGED <<pool, tickets, timers, history>>

BotRoom(c) ==
    LET u == call[c].user IN
    /\ At(c, "botRoom")
    /\ booked' = Count(booked, u)
    /\ Tell({u}, "matched")
    /\ Done(c)
    /\ UNCHANGED <<queue, timers, trouble, asks, entered, claimed>>

\* createBotMatch throws, before or after the player was seated.
BotFault(c) ==
    LET u == call[c].user IN
    /\ At(c, "botRoom")
    /\ Error
    /\ \E seats \in {booked, Count(booked, u)} : booked' = seats
    /\ client' = [client EXCEPT ![u] = IF @ = "asking" THEN "idle" ELSE @]
    /\ Done(c)
    /\ UNCHANGED <<queue, timers, missed, asks, entered, claimed>>

-----------------------------------------------------------------------------
\* The client's "ready" and "error" events.
RedisReady ==
    /\ ~isRedisReady
    /\ isRedisReady' = TRUE
    /\ UNCHANGED <<queue, timers, client, call, faults, missed, history>>

RedisError ==
    /\ isRedisReady
    /\ faults < MaxFaults
    /\ faults' = faults + 1
    /\ isRedisReady' = FALSE
    /\ UNCHANGED <<queue, timers, client, call, missed, history>>

Continue(c) ==
    \/ LeavePool(c) \/ WithoutRedis(c) \/ DropTicket(c) \/ ListCandidates(c)
    \/ Inspect(c) \/ NoCandidate(c) \/ Claim(c)
    \/ CreateRoom(c) \/ SeatJoiner(c) \/ Announce(c)
    \/ SaveTicket(c) \/ EnterPool(c)
    \/ MatchLocal(c) \/ WaitLocal(c)
    \/ CancelPool(c) \/ CancelTicket(c) \/ CancelMisses(c) \/ BotRoom(c)

Fails(c) ==
    \/ Fault(c) \/ LostReply(c) \/ LocalFault(c)
    \/ BotFault(c)

Next ==
    \/ \E c \in Calls, u \in Users :
           \/ FindMatch(c, u) \/ CancelMatch(c, u) \/ PlayBot(c, u)
           \/ TimerFires(c, u) \/ TimerMisses(c, u)
    \/ \E c \in Calls : Continue(c) \/ Fails(c)
    \/ RedisReady \/ RedisError

Spec == Init /\ [][Next]_vars

-----------------------------------------------------------------------------
TypeOK ==
    /\ pool \in SUBSET Users
    /\ tickets \in SUBSET Users
    /\ local \in SUBSET Users
    /\ timers \in [Users -> Nat]
    /\ client \in [Users -> Clients]
    /\ call \in [Calls -> Call]
    /\ isRedisReady \in BOOLEAN
    /\ faults \in Nat
    /\ missed \in BOOLEAN
    /\ asks \in [Users -> Nat]
    /\ entered \in [Users -> Nat]
    /\ claimed \in [Users -> Nat]
    /\ booked \in [Users -> Nat]

(* What the Lua script guarantees: an entry of the pool goes to at most    *)
(* one claimant, however many joiners saw it.                              *)
ClaimedOnce == \A u \in Users : claimed[u] <= entered[u]

(* Every request of a player leads to at most one seat, whoever claims it, *)
(* cancels it or finishes it in the fallback queue; only an error that     *)
(* sends a joiner on to the fallback queue, with a seat or an entry in the *)
(* pool already, can cost a second seat.                                   *)
OneSeatPerAsk == \A u \in Users : booked[u] <= asks[u] + faults

(* An entry that can still be claimed is watched: a timer that will cancel *)
(* it is pending, or the cancellation is on its way, even where calls of   *)
(* the same player overlap.  Nobody is matched long after having gone      *)
(* away.  Only a lost reply to zadd, or isQueued or cancelQueue doing      *)
(* without Redis, may leave an entry behind.                               *)
EntriesAreWatched ==
    \A u \in pool \cap tickets :
        \/ timers[u] > 0
        \/ \E c \in Calls : At(c, "cancelZrem") /\ call[c].user = u
        \/ missed

(* The README: pairing leaves no race conditions.  A player who keeps to   *)
(* the protocol is never seated in two rooms.                              *)
SeatedOnce == \A u \in Users : booked[u] <= 1
=============================================================================
