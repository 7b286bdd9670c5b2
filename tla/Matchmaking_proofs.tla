------------------------- MODULE Matchmaking_proofs -------------------------
(* Proofs about Matchmaking: types, the claim of an opponent, the seats a  *)
(* request may cost and the timer of every entry, for any number of        *)
(* players, calls and errors.                                              *)
EXTENDS Matchmaking, FiniteSetTheorems, TLAPS

USE DEF At, Start, Goto, Done, queue, trouble, history, Error, FallBack

One(condition) == IF condition THEN 1 ELSE 0

-----------------------------------------------------------------------------
(* Types                                                                   *)

\* Steps at which the call has an opponent in hand.
Paired == {"claim", "create", "seat", "publish", "createLocal", "seatLocal", "announce"}

Sound(r) ==
    /\ r \in Call
    /\ r.pc # "idle" => r.user \in Users
    /\ r.pc \in Paired => r.cand \in Users

CallsKnown == call \in [Calls -> Call] /\ \A c \in Calls : Sound(call[c])

Typed == TypeOK /\ CallsKnown

LEMMA IdleSound == Sound(Idle)
  BY DEF Idle, Sound, Call, Guarded, Paired

(* A step that gives one call a sound record keeps all of them sound.      *)
LEMMA CallStep ==
    ASSUME CallsKnown, NEW c \in Calls, NEW r, Sound(r), call' = [call EXCEPT ![c] = r]
    PROVE  CallsKnown'
  <1>1. r \in Call
    BY DEF Sound
  <1>2. call' \in [Calls -> Call]
    BY <1>1 DEF CallsKnown
  <1>3. \A d \in Calls : call'[d] = IF d = c THEN r ELSE call[d]
    BY DEF CallsKnown
  <1> QED
    BY <1>2, <1>3 DEF CallsKnown

LEMMA CallMoves ==
    ASSUME CallsKnown, NEW c \in Calls
    PROVE  /\ Done(c) => CallsKnown'
           /\ \A step : /\ Goto(c, step)
                        /\ step \in Guarded \cup {"local", "createLocal", "seatLocal",
                                                  "announce", "cancelHdel", "botRoom"}
                        /\ call[c].pc # "idle"
                        /\ step \in Paired => call[c].pc \in Paired
                        => CallsKnown'
           /\ \A u \in Users, step \in {"zrem", "cancelZrem"} :
                  Start(c, u, step) => CallsKnown'
  <1>1. ASSUME Done(c) PROVE CallsKnown'
    BY <1>1, IdleSound, CallStep
  <1>2. ASSUME NEW step, Goto(c, step),
               step \in Guarded \cup {"local", "createLocal", "seatLocal",
                                      "announce", "cancelHdel", "botRoom"},
               call[c].pc # "idle",
               step \in Paired => call[c].pc \in Paired
        PROVE  CallsKnown'
    <2> DEFINE r == [call[c] EXCEPT !.pc = step]
    <2>1. call[c] \in Call /\ Sound(call[c])
      BY DEF CallsKnown
    <2>2. r \in Call /\ r.pc = step /\ r.user = call[c].user /\ r.cand = call[c].cand
      BY <1>2, <2>1 DEF Call
    <2>3. call' = [call EXCEPT ![c] = r]
      BY <1>2
    <2> HIDE DEF r
    <2>4. Sound(r)
      BY <1>2, <2>1, <2>2 DEF Sound
    <2> QED
      BY <2>3, <2>4, CallStep
  <1>3. ASSUME NEW u \in Users, NEW step \in {"zrem", "cancelZrem"}, Start(c, u, step)
        PROVE  CallsKnown'
    <2> DEFINE r == [Idle EXCEPT !.pc = step, !.user = u]
    <2>1. Sound(r)
      BY DEF Sound, Idle, Call, Guarded, Paired
    <2> QED
      BY <1>3, <2>1, CallStep
  <1> QED
    BY <1>1, <1>2, <1>3

LEMMA InitTyped == Init => Typed
  <1> SUFFICES ASSUME Init PROVE Typed
    OBVIOUS
  <1>1. CallsKnown
    BY IdleSound DEF Init, CallsKnown, Sound
  <1>2. TypeOK
    BY <1>1 DEF Init, TypeOK, CallsKnown, Zero, Clients
  <1> QED
    BY <1>1, <1>2 DEF Typed

LEMMA CountTyped ==
    ASSUME NEW f \in [Users -> Nat], NEW u \in Users
    PROVE  Count(f, u) \in [Users -> Nat]
  BY DEF Count

LEMMA TellTyped ==
    ASSUME client \in [Users -> Clients], NEW us, NEW news \in Clients, Tell(us, news)
    PROVE  client' \in [Users -> Clients]
  BY DEF Tell

(* Requests that arrive, and timers.                                       *)
LEMMA ArriveTyped ==
    ASSUME Typed, NEW c \in Calls, NEW u \in Users,
           \/ FindMatch(c, u) \/ CancelMatch(c, u) \/ PlayBot(c, u)
           \/ TimerFires(c, u) \/ TimerMisses(c, u)
    PROVE  Typed'
  <1> USE DEF Typed, TypeOK
  <1> asks \in [Users -> Nat] /\ client \in [Users -> Clients] /\ CallsKnown
    OBVIOUS
  <1>1. CASE FindMatch(c, u)
    <2>1. asks' \in [Users -> Nat] /\ client' \in [Users -> Clients] /\ CallsKnown'
      BY <1>1, CountTyped, TellTyped, CallMoves DEF FindMatch, Clients
    <2> QED
      BY <1>1, <2>1 DEF FindMatch, CallsKnown
  <1>2. CASE CancelMatch(c, u)
    <2>1. client' \in [Users -> Clients] /\ CallsKnown'
      BY <1>2, TellTyped, CallMoves DEF CancelMatch, Clients
    <2> QED
      BY <1>2, <2>1 DEF CancelMatch, CallsKnown
  <1>3. CASE PlayBot(c, u)
    <2> DEFINE r == [Idle EXCEPT !.pc = "cancelZrem", !.user = u, !.then = "botRoom"]
    <2>1. Sound(r)
      BY DEF Sound, Idle, Call, Guarded, Paired
    <2>2. CallsKnown'
      BY <1>3, <2>1, CallStep DEF PlayBot
    <2>3. asks' \in [Users -> Nat] /\ client' \in [Users -> Clients]
      BY <1>3, CountTyped, TellTyped DEF PlayBot, Clients
    <2> QED
      BY <1>3, <2>2, <2>3 DEF PlayBot, CallsKnown
  <1>4. CASE TimerFires(c, u)
    <2>1. CallsKnown'
      <3>1. CASE IsQueued(u)
        BY <1>4, <3>1, CallMoves DEF TimerFires
      <3>2. CASE ~IsQueued(u)
        BY <1>4, <3>2 DEF TimerFires, CallsKnown
      <3> QED
        BY <3>1, <3>2
    <2>2. timers' \in [Users -> Nat]
      BY <1>4 DEF TimerFires
    <2> QED
      BY <1>4, <2>1, <2>2 DEF TimerFires, CallsKnown
  <1>5. CASE TimerMisses(c, u)
    <2>1. CallsKnown'
      <3>1. CASE u \in local
        BY <1>5, <3>1, CallMoves DEF TimerMisses
      <3>2. CASE u \notin local
        BY <1>5, <3>2 DEF TimerMisses, CallsKnown
      <3> QED
        BY <3>1, <3>2
    <2>2. timers' \in [Users -> Nat]
      BY <1>5 DEF TimerMisses
    <2> QED
      BY <1>5, <2>1, <2>2 DEF TimerMisses, CallsKnown
  <1> QED
    BY <1>1, <1>2, <1>3, <1>4, <1>5

(* The search for an opponent.                                             *)
LEMMA SearchTyped ==
    ASSUME Typed, NEW c \in Calls,
           \/ LeavePool(c) \/ DropTicket(c) \/ ListCandidates(c)
           \/ Inspect(c) \/ NoCandidate(c) \/ Claim(c)
    PROVE  Typed'
  <1> USE DEF Typed, TypeOK
  <1>0. CallsKnown /\ call[c] \in Call /\ Sound(call[c])
    BY DEF CallsKnown
  <1>1. CASE LeavePool(c) \/ DropTicket(c) \/ NoCandidate(c)
    <2>1. CallsKnown'
      BY <1>0, <1>1, CallMoves DEF LeavePool, DropTicket, NoCandidate, Guarded, Paired
    <2> QED
      BY <1>1, <2>1 DEF LeavePool, DropTicket, NoCandidate, CallsKnown
  <1>2. CASE ListCandidates(c)
    <2> DEFINE r == [call[c] EXCEPT !.pc = "scan", !.cands = pool \ {call[c].user}]
    <2>1. call[c].pc = "range" /\ call' = [call EXCEPT ![c] = r]
      BY <1>2 DEF ListCandidates
    <2>2. Sound(r)
      BY <1>0, <2>1 DEF Sound, Call, Guarded, Paired
    <2>3. CallsKnown'
      BY <1>0, <2>1, <2>2, CallStep
    <2> QED
      BY <1>2, <2>3 DEF ListCandidates, CallsKnown
  <1>3. CASE Inspect(c)
    <2>1. PICK v \in call[c].cands :
             \/ call' = [call EXCEPT ![c].pc = "claim", ![c].cand = v, ![c].cands = @ \ {v}]
             \/ call' = [call EXCEPT ![c].cands = @ \ {v}]
      BY <1>3 DEF Inspect
    <2> DEFINE taken == [call[c] EXCEPT !.pc = "claim", !.cand = v, !.cands = @ \ {v}]
               passed == [call[c] EXCEPT !.cands = @ \ {v}]
    <2>2. call[c].pc = "scan" /\ v \in Users
      BY <1>0, <1>3 DEF Inspect, Call
    <2>3. Sound(taken) /\ Sound(passed)
      BY <1>0, <2>2 DEF Sound, Call, Guarded, Paired
    <2>4. call' = [call EXCEPT ![c] = taken] \/ call' = [call EXCEPT ![c] = passed]
      BY <2>1
    <2> HIDE DEF taken, passed
    <2>5. CallsKnown'
      BY <1>0, <2>3, <2>4, CallStep
    <2> QED
      BY <1>3, <2>5 DEF Inspect, CallsKnown
  <1>4. CASE Claim(c)
    <2> DEFINE won == [call[c] EXCEPT !.pc = "create", !.cands = {}]
               lost == [call[c] EXCEPT !.pc = "scan", !.cand = NoUser]
               v == call[c].cand
    <2>1. call[c].pc = "claim" /\ v \in Users
      BY <1>0, <1>4 DEF Claim, Sound, Paired
    <2>2. Sound(won) /\ Sound(lost)
      BY <1>0, <2>1 DEF Sound, Call, Guarded, Paired
    <2>3. call' = [call EXCEPT ![c] = won] \/ call' = [call EXCEPT ![c] = lost]
      BY <1>4 DEF Claim
    <2>4. claimed' \in [Users -> Nat]
      <3>1. claimed' = Count(claimed, v) \/ claimed' = claimed
        BY <1>4 DEF Claim
      <3> QED
        BY <2>1, <3>1, CountTyped
    <2>5. pool' \in SUBSET Users /\ tickets' \in SUBSET Users
      BY <1>4 DEF Claim
    <2> HIDE DEF won, lost
    <2>6. CallsKnown'
      BY <1>0, <2>2, <2>3, CallStep
    <2> QED
      BY <1>4, <2>4, <2>5, <2>6 DEF Claim, CallsKnown
  <1> QED
    BY <1>1, <1>2, <1>3, <1>4

(* Seating the pair, or waiting.                                           *)
LEMMA SeatTyped ==
    ASSUME Typed, NEW c \in Calls,
           \/ CreateRoom(c) \/ SeatJoiner(c) \/ Announce(c)
           \/ SaveTicket(c) \/ EnterPool(c) \/ WaitLocal(c)
    PROVE  Typed'
  <1> USE DEF Typed, TypeOK
  <1>0. CallsKnown /\ call[c] \in Call /\ Sound(call[c])
    BY DEF CallsKnown
  <1>1. CASE CreateRoom(c) \/ SeatJoiner(c)
    <2>1. CallsKnown'
      BY <1>0, <1>1, CallMoves DEF CreateRoom, SeatJoiner, Guarded, Paired
    <2>2. call[c].user \in Users /\ call[c].cand \in Users
      BY <1>0, <1>1 DEF CreateRoom, SeatJoiner, Sound, Paired
    <2>3. booked' \in [Users -> Nat]
      BY <1>1, <2>2, CountTyped DEF CreateRoom, SeatJoiner
    <2> QED
      BY <1>1, <2>1, <2>3 DEF CreateRoom, SeatJoiner, CallsKnown
  <1>2. CASE Announce(c)
    <2>1. CallsKnown' /\ client' \in [Users -> Clients]
      BY <1>0, <1>2, CallMoves, TellTyped DEF Announce, Clients
    <2> QED
      BY <1>2, <2>1 DEF Announce, CallsKnown
  <1>3. CASE SaveTicket(c)
    <2>1. CallsKnown' /\ call[c].user \in Users
      BY <1>0, <1>3, CallMoves DEF SaveTicket, Guarded, Paired, Sound
    <2> QED
      BY <1>3, <2>1 DEF SaveTicket, CallsKnown
  <1>4. CASE EnterPool(c) \/ WaitLocal(c)
    <2> DEFINE u == call[c].user
    <2>1. CallsKnown' /\ u \in Users
      BY <1>0, <1>4, CallMoves DEF EnterPool, WaitLocal, Sound
    <2>2. Wait(u)
      BY <1>4 DEF EnterPool, WaitLocal
    <2> HIDE DEF u
    <2>3. timers' \in [Users -> Nat]
      BY <2>1, <2>2, CountTyped DEF Wait
    <2>4. client' \in [Users -> Clients]
      BY <2>1, <2>2 DEF Wait, Clients
    <2>5. CASE EnterPool(c)
      <3>1. pool' \in SUBSET Users /\ entered' \in [Users -> Nat]
        BY <2>1, <2>5, CountTyped DEF EnterPool, u
      <3> QED
        BY <2>1, <2>3, <2>4, <2>5, <3>1 DEF EnterPool, CallsKnown
    <2>6. CASE WaitLocal(c)
      <3>1. local' \in SUBSET Users
        BY <2>1, <2>6 DEF WaitLocal, u
      <3> QED
        BY <2>1, <2>3, <2>4, <2>6, <3>1 DEF WaitLocal, CallsKnown
    <2> QED
      BY <1>4, <2>5, <2>6
  <1> QED
    BY <1>1, <1>2, <1>3, <1>4

(* Leaving the queue, the fallback queue, and the bot.                     *)
LEMMA LeaveTyped ==
    ASSUME Typed, NEW c \in Calls,
           \/ MatchLocal(c) \/ CancelPool(c) \/ CancelTicket(c) \/ CancelMisses(c)
           \/ BotRoom(c)
    PROVE  Typed'
  <1> USE DEF Typed, TypeOK
  <1>0. CallsKnown /\ call[c] \in Call /\ Sound(call[c])
    BY DEF CallsKnown
  <1>2. CASE MatchLocal(c)
    <2>1. PICK v \in local \ {call[c].user} :
             /\ local' = local \ {call[c].user, v}
             /\ call' = [call EXCEPT ![c].pc = "createLocal", ![c].cand = v]
      BY <1>2 DEF MatchLocal
    <2> DEFINE r == [call[c] EXCEPT !.pc = "createLocal", !.cand = v]
    <2>2. call[c].pc = "local" /\ v \in Users
      BY <1>2, <2>1 DEF MatchLocal
    <2>3. Sound(r)
      BY <1>0, <2>2 DEF Sound, Call, Guarded, Paired
    <2>4. call' = [call EXCEPT ![c] = r]
      BY <2>1
    <2> HIDE DEF r
    <2>5. CallsKnown'
      BY <1>0, <2>3, <2>4, CallStep
    <2> QED
      BY <1>2, <2>1, <2>5 DEF MatchLocal, CallsKnown
  <1>3. CASE CancelPool(c)
    <2>1. CallsKnown'
      BY <1>0, <1>3, CallMoves DEF CancelPool, Guarded, Paired
    <2> QED
      BY <1>3, <2>1 DEF CancelPool, CallsKnown
  <1>4. CASE CancelTicket(c) \/ CancelMisses(c)
    <2>0. CancelLocal(c) /\ call[c].pc \in {"cancelZrem", "cancelHdel"}
      BY <1>4 DEF CancelTicket, CancelMisses
    <2>1. CallsKnown'
      BY <1>0, <2>0, CallMoves DEF CancelLocal, Guarded, Paired
    <2>2. client' \in [Users -> Clients] /\ local' \in SUBSET Users
      BY <2>0 DEF CancelLocal, Clients
    <2>3. CASE CancelTicket(c)
      BY <2>1, <2>2, <2>3 DEF CancelTicket, CallsKnown
    <2>4. CASE CancelMisses(c)
      <3>1. missed' = TRUE /\ isRedisReady' = isRedisReady
        BY <2>4 DEF CancelMisses
      <3>2. missed' \in BOOLEAN /\ isRedisReady' \in BOOLEAN
        BY <3>1
      <3>3. faults' \in Nat
        BY <2>4 DEF CancelMisses
      <3>4. UNCHANGED <<pool, tickets, timers, asks, entered, claimed, booked>>
        BY <2>4 DEF CancelMisses
      <3> QED
        BY <2>1, <2>2, <3>2, <3>3, <3>4 DEF CallsKnown
    <2> QED
      BY <1>4, <2>3, <2>4
  <1>5. CASE BotRoom(c)
    <2>1. CallsKnown' /\ client' \in [Users -> Clients]
      BY <1>0, <1>5, CallMoves, TellTyped DEF BotRoom, Clients
    <2>2. booked' \in [Users -> Nat]
      BY <1>0, <1>5, CountTyped DEF BotRoom, Sound
    <2> QED
      BY <1>5, <2>1, <2>2 DEF BotRoom, CallsKnown
  <1> QED
    BY <1>2, <1>3, <1>4, <1>5

(* Errors.                                                                 *)
LEMMA FailTyped ==
    ASSUME Typed, NEW c \in Calls, Fails(c) \/ WithoutRedis(c)
    PROVE  Typed'
  <1> USE DEF Typed, TypeOK
  <1>0. CallsKnown /\ call[c] \in Call /\ Sound(call[c])
    BY DEF CallsKnown
  <1>1. CASE Fault(c) \/ LostReply(c) \/ WithoutRedis(c)
    <2> DEFINE u == call[c].user
               r == [Idle EXCEPT !.pc = "local", !.user = u]
    <2>1. u \in Users
      BY <1>0, <1>1 DEF Fault, LostReply, WithoutRedis, Guarded, Sound
    <2>2. Sound(r)
      <3> HIDE DEF u
      <3> QED BY <2>1 DEF Sound, Idle, Call, Guarded, Paired
    <2>3. CallsKnown'
      BY <1>0, <1>1, <2>2, CallStep DEF Fault, LostReply, WithoutRedis
    <2>4. CASE Fault(c)
      BY <2>3, <2>4 DEF Fault, CallsKnown
    <2>5. CASE WithoutRedis(c)
      BY <2>3, <2>5 DEF WithoutRedis, CallsKnown
    <2>6. CASE LostReply(c)
      <3>0. missed' = TRUE \/ missed' = missed
        BY <2>6 DEF LostReply
      <3>1. entered' \in [Users -> Nat] /\ pool' \in SUBSET Users /\ missed' \in BOOLEAN
        <4>1. missed' \in BOOLEAN
          BY <3>0
        <4>2. entered' = Count(entered, u) \/ entered' = entered
          BY <2>6 DEF LostReply
        <4>3. pool' = pool \cup {u} \/ pool' = pool
          BY <2>6 DEF LostReply
        <4> HIDE DEF u
        <4> QED
          BY <2>1, <4>1, <4>2, <4>3, CountTyped
      <3>2. client' \in [Users -> Clients]
        BY <2>6, TellTyped DEF LostReply, Clients
      <3>3. faults' \in Nat /\ isRedisReady' = isRedisReady
        BY <2>6 DEF LostReply
      <3>4. UNCHANGED <<tickets, local, timers, asks, claimed, booked>>
        BY <2>6 DEF LostReply
      <3> QED
        BY <2>3, <3>1, <3>2, <3>3, <3>4 DEF CallsKnown
    <2> QED
      BY <1>1, <2>4, <2>5, <2>6
  <1>2. CASE LocalFault(c)
    <2>1. CallsKnown' /\ client' \in [Users -> Clients]
      BY <1>0, <1>2, CallMoves DEF LocalFault, Clients
    <2> QED
      BY <1>2, <2>1 DEF LocalFault, CallsKnown
  <1>3. CASE BotFault(c)
    <2>1. CallsKnown' /\ client' \in [Users -> Clients]
      BY <1>0, <1>3, CallMoves DEF BotFault, Clients
    <2>2. booked' \in [Users -> Nat]
      BY <1>0, <1>3, CountTyped DEF BotFault, Sound
    <2> QED
      BY <1>3, <2>1, <2>2 DEF BotFault, CallsKnown
  <1> QED
    BY <1>1, <1>2, <1>3 DEF Fails

LEMMA StepTyped == Typed /\ [Next]_vars => Typed'
  <1> SUFFICES ASSUME Typed, [Next]_vars PROVE Typed'
    OBVIOUS
  <1>1. CASE Next
    <2>1. CASE RedisReady \/ RedisError
      <3>1. /\ isRedisReady' = TRUE \/ isRedisReady' = FALSE
            /\ faults' = faults \/ faults' = faults + 1
            /\ UNCHANGED <<queue, timers, client, call, missed, history>>
        BY <2>1 DEF RedisReady, RedisError
      <3>2. isRedisReady' \in BOOLEAN
        BY <3>1
      <3>3. faults' \in Nat
        BY <3>1 DEF Typed, TypeOK
      <3> QED
        BY <3>1, <3>2, <3>3 DEF Typed, TypeOK, CallsKnown
    <2>2. CASE ~(RedisReady \/ RedisError)
      BY <1>1, <2>2, ArriveTyped, SearchTyped, SeatTyped, LeaveTyped, FailTyped
         DEF Next, Continue
    <2> QED
      BY <2>1, <2>2
  <1>2. CASE UNCHANGED vars
    BY <1>2 DEF vars, Typed, TypeOK, CallsKnown
  <1> QED
    BY <1>1, <1>2

(* Every reachable state of the queue and of its calls is well typed; in   *)
(* particular a timer that fires was set.                                  *)
THEOREM QueueTyped == Spec => []TypeOK
  <1>1. Init => Typed
    BY InitTyped
  <1>2. Typed /\ [Next]_vars => Typed'
    BY StepTyped
  <1>3. Typed => TypeOK
    BY DEF Typed
  <1> QED
    BY <1>1, <1>2, <1>3, PTL DEF Spec

-----------------------------------------------------------------------------
(* The claim                                                               *)

\* An entry still in the pool has not been claimed yet.
EntriesCounted == \A u \in Users : claimed[u] + One(u \in pool) <= entered[u]

LEMMA InitCounted == Init => EntriesCounted
  BY DEF Init, EntriesCounted, Zero, One

(* Leaving the pool, or not touching it, keeps the count.                  *)
LEMMA PoolShrinks ==
    ASSUME Typed, EntriesCounted, pool' \subseteq pool, UNCHANGED <<entered, claimed>>
    PROVE  EntriesCounted'
  BY DEF EntriesCounted, One, Typed, TypeOK

LEMMA ClaimCounted ==
    ASSUME Typed, EntriesCounted, NEW c \in Calls, Claim(c)
    PROVE  EntriesCounted'
  <1> DEFINE v == call[c].cand
  <1>1. CASE v \in pool
    <2>1. /\ pool' = pool \ {call[c].user, v} /\ claimed' = [claimed EXCEPT ![v] = @ + 1]
          /\ entered' = entered
      BY <1>1 DEF Claim, Claimed, Count
    <2>2. v \in Users
      BY <1>1 DEF Typed, TypeOK
    <2> HIDE DEF v
    <2> QED
      BY <1>1, <2>1, <2>2 DEF EntriesCounted, One, Typed, TypeOK
  <1>2. CASE v \notin pool
    BY <1>2, PoolShrinks DEF Claim, Claimed
  <1> QED
    BY <1>1, <1>2

LEMMA EnterCounted ==
    ASSUME Typed, EntriesCounted, NEW c \in Calls,
           EnterPool(c) \/ (LostReply(c) /\ call[c].pc = "zadd")
    PROVE  EntriesCounted'
  <1> DEFINE u == call[c].user
  <1>1. /\ pool' = pool \cup {u} /\ entered' = [entered EXCEPT ![u] = @ + 1]
        /\ claimed' = claimed
    BY DEF EnterPool, LostReply, Count
  <1>2. u \in Users
    BY DEF EnterPool, Typed, CallsKnown, Sound
  <1> HIDE DEF u
  <1> QED
    BY <1>1, <1>2 DEF EntriesCounted, One, Typed, TypeOK

(* Only the claim takes an entry for somebody else, only zadd makes one.   *)
LEMMA OthersCounted ==
    ASSUME Typed, EntriesCounted, NEW c \in Calls,
           \/ \E u \in Users : FindMatch(c, u) \/ CancelMatch(c, u) \/ PlayBot(c, u)
                               \/ TimerFires(c, u) \/ TimerMisses(c, u)
           \/ LeavePool(c) \/ WithoutRedis(c) \/ DropTicket(c) \/ ListCandidates(c)
           \/ Inspect(c) \/ NoCandidate(c)
           \/ CreateRoom(c) \/ SeatJoiner(c) \/ Announce(c) \/ SaveTicket(c)
           \/ MatchLocal(c) \/ WaitLocal(c)
           \/ CancelPool(c) \/ CancelTicket(c) \/ CancelMisses(c) \/ BotRoom(c)
           \/ Fault(c) \/ LocalFault(c) \/ BotFault(c)
           \/ (LostReply(c) /\ call[c].pc # "zadd")
    PROVE  EntriesCounted'
  <1>1. CASE \E u \in Users : FindMatch(c, u) \/ CancelMatch(c, u) \/ PlayBot(c, u)
                              \/ TimerFires(c, u) \/ TimerMisses(c, u)
    BY <1>1, PoolShrinks DEF FindMatch, CancelMatch, PlayBot, TimerFires, TimerMisses
  <1>2. CASE \/ LeavePool(c) \/ WithoutRedis(c) \/ DropTicket(c) \/ ListCandidates(c)
             \/ Inspect(c) \/ NoCandidate(c)
    BY <1>2, PoolShrinks DEF LeavePool, WithoutRedis, DropTicket, ListCandidates, Inspect,
                             NoCandidate
  <1>3. CASE CreateRoom(c) \/ SeatJoiner(c) \/ Announce(c) \/ SaveTicket(c)
    BY <1>3, PoolShrinks DEF CreateRoom, SeatJoiner, Announce, SaveTicket
  <1>4. CASE MatchLocal(c) \/ WaitLocal(c)
    BY <1>4, PoolShrinks DEF MatchLocal, WaitLocal
  <1>5. CASE CancelPool(c) \/ CancelTicket(c) \/ CancelMisses(c) \/ BotRoom(c)
    BY <1>5, PoolShrinks DEF CancelPool, CancelTicket, CancelMisses, BotRoom
  <1>6. CASE \/ Fault(c) \/ LocalFault(c) \/ BotFault(c)
             \/ (LostReply(c) /\ call[c].pc # "zadd")
    BY <1>6, PoolShrinks DEF Fault, LocalFault, BotFault, LostReply
  <1> QED
    BY <1>1, <1>2, <1>3, <1>4, <1>5, <1>6

(* However many joiners saw an entry of the pool, and whoever cancels it   *)
(* meanwhile, the Lua script hands it to at most one of them.              *)
THEOREM EveryEntryClaimedOnce == Spec => []ClaimedOnce
  <1> DEFINE IInv == Typed /\ EntriesCounted
  <1>1. Init => IInv
    BY InitTyped, InitCounted
  <1>2. IInv /\ [Next]_vars => IInv'
    <2> SUFFICES ASSUME IInv, [Next]_vars PROVE EntriesCounted'
      BY StepTyped
    <2>1. CASE Next
      <3>1. CASE RedisReady \/ RedisError
        BY <3>1, PoolShrinks DEF RedisReady, RedisError
      <3>2. CASE ~(RedisReady \/ RedisError)
        BY <2>1, <3>2, ClaimCounted, EnterCounted, OthersCounted DEF Next, Continue, Fails
      <3> QED
        BY <3>1, <3>2
    <2>2. CASE UNCHANGED vars
      BY <2>2, PoolShrinks DEF vars
    <2> QED
      BY <2>1, <2>2
  <1>3. IInv => ClaimedOnce
    BY DEF Typed, TypeOK, EntriesCounted, ClaimedOnce, One
  <1> QED
    BY <1>1, <1>2, <1>3, PTL DEF Spec

-----------------------------------------------------------------------------
(* The seats a request may cost                                            *)

\* Steps from which a call may still seat the player it serves.
Seeking == {"zrem", "hdel", "range", "scan", "claim", "create", "seat", "hset", "zadd",
            "local", "createLocal", "seatLocal", "botRoom"}

Serving(r, u) ==
    /\ r.user = u
    /\ r.pc \in Seeking \/ (r.pc \in {"cancelZrem", "cancelHdel"} /\ r.then = "botRoom")

\* A claimed opponent who has no seat yet.
Hosting(r, u) == r.cand = u /\ r.pc \in {"create", "createLocal"}

Servers(u) == {c \in Calls : Serving(call[c], u)}
Hosts(u) == {c \in Calls : Hosting(call[c], u)}
Due(r, u) == One(Serving(r, u)) + One(Hosting(r, u))
Queued(u) == One(u \in pool) + One(u \in local)

\* Every seat u has or may still get was asked for, or is owed to an error.
SeatsOwed ==
    \A u \in Users :
        booked[u] + Cardinality(Servers(u)) + Cardinality(Hosts(u)) + Queued(u)
            <= asks[u] + faults

(* The members of a set of calls that one step of call c may change.       *)
LEMMA CountStep ==
    ASSUME QueueAssumption, NEW c \in Calls, NEW S \in SUBSET Calls, NEW T \in SUBSET Calls,
           \A d \in Calls \ {c} : d \in T <=> d \in S
    PROVE  /\ Cardinality(S) \in Nat /\ Cardinality(T) \in Nat
           /\ Cardinality(T) = Cardinality(S) - One(c \in S) + One(c \in T)
  <1>1. IsFiniteSet(S) /\ IsFiniteSet(T)
    BY FS_Subset DEF QueueAssumption
  <1>2. Cardinality(S) \in Nat /\ Cardinality(T) \in Nat
    BY <1>1, FS_CardinalityType
  <1>3. CASE c \in S /\ c \in T
    <2>1. S = T
      BY <1>3
    <2> QED
      BY <1>2, <1>3, <2>1 DEF One
  <1>4. CASE c \in S /\ c \notin T
    <2>1. T = S \ {c}
      BY <1>4
    <2>2. Cardinality(T) = Cardinality(S) - 1
      BY <1>1, <1>4, <2>1, FS_RemoveElement
    <2> QED
      BY <1>2, <1>4, <2>2 DEF One
  <1>5. CASE c \notin S /\ c \in T
    <2>1. T = S \cup {c}
      BY <1>5
    <2>2. Cardinality(T) = Cardinality(S) + 1
      BY <1>1, <1>5, <2>1, FS_AddElement
    <2> QED
      BY <1>2, <1>5, <2>2 DEF One
  <1>6. CASE c \notin S /\ c \notin T
    <2>1. S = T
      BY <1>6
    <2> QED
      BY <1>2, <1>6, <2>1 DEF One
  <1> QED
    BY <1>3, <1>4, <1>5, <1>6

(* A step of call c keeps the account if what it gives a player is taken   *)
(* from what the player had, or from a new request or error.               *)
LEMMA AccountStep ==
    ASSUME QueueAssumption, Typed, Typed', SeatsOwed, NEW c \in Calls, NEW r,
           call' = [call EXCEPT ![c] = r],
           \A u \in Users :
               booked'[u] + Due(r, u) + Queued(u)' + asks[u] + faults
                   <= booked[u] + Due(call[c], u) + Queued(u) + asks'[u] + faults'
    PROVE  SeatsOwed'
  <1> SUFFICES ASSUME NEW u \in Users
               PROVE  booked'[u] + Cardinality(Servers(u)') + Cardinality(Hosts(u)') + Queued(u)'
                          <= asks'[u] + faults'
    BY DEF SeatsOwed
  <1>1. \A d \in Calls : call'[d] = IF d = c THEN r ELSE call[d]
    BY DEF Typed, CallsKnown
  <1>2. /\ Cardinality(Servers(u)) \in Nat /\ Cardinality(Servers(u)') \in Nat
        /\ Cardinality(Servers(u)') = Cardinality(Servers(u)) - One(c \in Servers(u))
                                          + One(c \in Servers(u)')
    <2>1. \A d \in Calls \ {c} : d \in Servers(u)' <=> d \in Servers(u)
      BY <1>1 DEF Servers
    <2>2. Servers(u) \in SUBSET Calls /\ Servers(u)' \in SUBSET Calls
      BY DEF Servers
    <2> QED
      BY <2>1, <2>2, CountStep
  <1>3. /\ Cardinality(Hosts(u)) \in Nat /\ Cardinality(Hosts(u)') \in Nat
        /\ Cardinality(Hosts(u)') = Cardinality(Hosts(u)) - One(c \in Hosts(u))
                                        + One(c \in Hosts(u)')
    <2>1. \A d \in Calls \ {c} : d \in Hosts(u)' <=> d \in Hosts(u)
      BY <1>1 DEF Hosts
    <2>2. Hosts(u) \in SUBSET Calls /\ Hosts(u)' \in SUBSET Calls
      BY DEF Hosts
    <2> QED
      BY <2>1, <2>2, CountStep
  <1>4. /\ c \in Servers(u) <=> Serving(call[c], u)
        /\ c \in Servers(u)' <=> Serving(r, u)
        /\ c \in Hosts(u) <=> Hosting(call[c], u)
        /\ c \in Hosts(u)' <=> Hosting(r, u)
    BY <1>1 DEF Servers, Hosts
  <1>5. /\ One(c \in Servers(u)) + One(c \in Hosts(u)) = Due(call[c], u)
        /\ One(c \in Servers(u)') + One(c \in Hosts(u)') = Due(r, u)
    BY <1>4 DEF Due, One
  <1>6. /\ booked[u] \in Nat /\ asks[u] \in Nat /\ faults \in Nat
        /\ booked'[u] \in Nat /\ asks'[u] \in Nat /\ faults' \in Nat
    BY DEF Typed, TypeOK
  <1>7. /\ Queued(u) \in Nat /\ Queued(u)' \in Nat
        /\ One(c \in Servers(u)) \in Nat /\ One(c \in Hosts(u)) \in Nat
        /\ One(c \in Servers(u)') \in Nat /\ One(c \in Hosts(u)') \in Nat
    BY DEF Queued, One
  <1>8. booked[u] + Cardinality(Servers(u)) + Cardinality(Hosts(u)) + Queued(u)
            <= asks[u] + faults
    BY DEF SeatsOwed
  <1>9. booked'[u] + Due(r, u) + Queued(u)' + asks[u] + faults
            <= booked[u] + Due(call[c], u) + Queued(u) + asks'[u] + faults'
    OBVIOUS
  <1> HIDE DEF SeatsOwed
  <1> QED
    BY <1>2, <1>3, <1>5, <1>6, <1>7, <1>8, <1>9

LEMMA QuietAccount ==
    ASSUME QueueAssumption, Typed, Typed', SeatsOwed, NEW c \in Calls, NEW r,
           call' = [call EXCEPT ![c] = r],
           \A u \in Users : Due(r, u) <= Due(call[c], u),
           pool' \subseteq pool, local' \subseteq local,
           faults' = faults \/ faults' = faults + 1,
           UNCHANGED <<booked, asks>>
    PROVE  SeatsOwed'
  <1>1. \A u \in Users :
            /\ Queued(u)' <= Queued(u) /\ Queued(u) \in Nat /\ Queued(u)' \in Nat
            /\ Due(r, u) \in Nat /\ Due(call[c], u) \in Nat
            /\ booked[u] \in Nat /\ asks[u] \in Nat /\ faults \in Nat /\ faults' \in Nat
    BY DEF Queued, Due, One, Typed, TypeOK
  <1>2. \A u \in Users :
            booked'[u] + Due(r, u) + Queued(u)' + asks[u] + faults
                <= booked[u] + Due(call[c], u) + Queued(u) + asks'[u] + faults'
    BY <1>1
  <1> QED
    BY <1>2, AccountStep

\* A move to another step of the same errand gives nobody anything new.
LEMMA QuietGoto ==
    ASSUME QueueAssumption, Typed, Typed', SeatsOwed, NEW c \in Calls,
           NEW step, Goto(c, step),
           call[c].pc \in Seeking \cup {"cancelZrem", "cancelHdel"},
           step \in {"cancelHdel", "botRoom"} => call[c].pc \in {"cancelZrem", "cancelHdel"},
           step = "botRoom" => call[c].then = "botRoom",
           call[c].pc \in {"cancelZrem", "cancelHdel"} => step \in {"cancelHdel", "botRoom"},
           step \notin {"create", "createLocal"},
           pool' \subseteq pool, local' \subseteq local,
           faults' = faults \/ faults' = faults + 1,
           UNCHANGED <<booked, asks>>
    PROVE  SeatsOwed'
  <1> DEFINE r == [call[c] EXCEPT !.pc = step]
  <1>1. call[c] \in Call
    BY DEF Typed, CallsKnown
  <1>2. /\ r.pc = step /\ r.user = call[c].user /\ r.cand = call[c].cand
        /\ r.then = call[c].then
    BY <1>1 DEF Call
  <1>3. call' = [call EXCEPT ![c] = r]
    OBVIOUS
  <1> HIDE DEF r
  <1>4. \A u \in Users : /\ Serving(r, u) => Serving(call[c], u)
                         /\ ~Hosting(r, u)
    BY <1>2 DEF Serving, Hosting, Seeking
  <1>5. \A u \in Users : Due(r, u) <= Due(call[c], u)
    BY <1>4 DEF Due, One
  <1> QED
    BY <1>3, <1>5, QuietAccount

LEMMA QuietDone ==
    ASSUME QueueAssumption, Typed, Typed', SeatsOwed, NEW c \in Calls, Done(c),
           pool' \subseteq pool, local' \subseteq local,
           faults' = faults \/ faults' = faults + 1,
           UNCHANGED <<booked, asks>>
    PROVE  SeatsOwed'
  <1>1. \A u \in Users : ~Serving(Idle, u) /\ ~Hosting(Idle, u)
    BY DEF Serving, Hosting, Seeking, Idle
  <1>2. \A u \in Users : Due(Idle, u) <= Due(call[c], u)
    BY <1>1 DEF Due, One
  <1> QED
    BY <1>2, QuietAccount

(* Steps that seat nobody, enter no queue and are asked for by nobody.     *)
LEMMA QuietSteps ==
    ASSUME QueueAssumption, Typed, Typed', SeatsOwed, NEW c \in Calls,
           \/ LeavePool(c) \/ DropTicket(c) \/ NoCandidate(c) \/ SaveTicket(c)
           \/ CancelPool(c) \/ CancelTicket(c) \/ CancelMisses(c) \/ Announce(c)
    PROVE  SeatsOwed'
  <1>1. CASE LeavePool(c) \/ DropTicket(c) \/ NoCandidate(c) \/ SaveTicket(c)
    BY <1>1, QuietGoto DEF LeavePool, DropTicket, NoCandidate, SaveTicket, Seeking
  <1>2. CASE CancelPool(c)
    <2> DEFINE step == "cancelHdel"
    <2>1. /\ Goto(c, step) /\ pool' \subseteq pool /\ local' \subseteq local
          /\ UNCHANGED <<booked, asks, faults>>
      BY <1>2 DEF CancelPool
    <2>2. call[c].pc \in {"cancelZrem", "cancelHdel"}
      BY <1>2 DEF CancelPool
    <2>3. step # "botRoom" /\ step \notin {"create", "createLocal"} /\ step = "cancelHdel"
      OBVIOUS
    <2> HIDE DEF step
    <2> QED
      BY <2>1, <2>2, <2>3, QuietGoto
  <1>3. CASE CancelTicket(c) \/ CancelMisses(c)
    <2>0. /\ CancelLocal(c) /\ call[c].pc \in {"cancelZrem", "cancelHdel"}
          /\ local' \subseteq local
          /\ faults' = faults \/ faults' = faults + 1
          /\ UNCHANGED <<pool, booked, asks>>
      BY <1>3 DEF CancelTicket, CancelMisses, CancelLocal
    <2>1. CASE call[c].then = "botRoom"
      <3>1. Goto(c, "botRoom")
        BY <2>0, <2>1 DEF CancelLocal
      <3> QED
        BY <2>0, <2>1, <3>1, QuietGoto
    <2>2. CASE call[c].then # "botRoom"
      BY <2>0, <2>2, QuietDone DEF CancelLocal
    <2> QED
      BY <2>1, <2>2
  <1>4. CASE Announce(c)
    BY <1>4, QuietDone DEF Announce
  <1> QED
    BY <1>1, <1>2, <1>3, <1>4

(* Looking through the candidates.                                         *)
LEMMA ScanSteps ==
    ASSUME QueueAssumption, Typed, Typed', SeatsOwed, NEW c \in Calls,
           ListCandidates(c) \/ Inspect(c)
    PROVE  SeatsOwed'
  <1>1. call[c] \in Call /\ call[c].pc \in {"range", "scan"}
    BY DEF Typed, CallsKnown, ListCandidates, Inspect
  <1>2. PICK r : /\ call' = [call EXCEPT ![c] = r]
                 /\ r.user = call[c].user /\ r.pc \in {"scan", "claim"}
    <2>1. CASE ListCandidates(c)
      <3> DEFINE r == [call[c] EXCEPT !.pc = "scan", !.cands = pool \ {call[c].user}]
      <3>1. r.user = call[c].user /\ r.pc = "scan"
        BY <1>1 DEF Call
      <3> QED
        BY <2>1, <3>1 DEF ListCandidates
    <2>2. CASE Inspect(c)
      <3>1. PICK v \in call[c].cands :
               \/ call' = [call EXCEPT ![c].pc = "claim", ![c].cand = v, ![c].cands = @ \ {v}]
               \/ call' = [call EXCEPT ![c].cands = @ \ {v}]
        BY <2>2 DEF Inspect
      <3> DEFINE taken == [call[c] EXCEPT !.pc = "claim", !.cand = v, !.cands = @ \ {v}]
                 passed == [call[c] EXCEPT !.cands = @ \ {v}]
      <3>2. /\ taken.user = call[c].user /\ taken.pc = "claim"
            /\ passed.user = call[c].user /\ passed.pc = call[c].pc
        BY <1>1 DEF Call
      <3>3. call' = [call EXCEPT ![c] = taken] \/ call' = [call EXCEPT ![c] = passed]
        BY <3>1
      <3>4. call[c].pc = "scan"
        BY <2>2 DEF Inspect
      <3> HIDE DEF taken, passed
      <3> QED
        BY <3>2, <3>3, <3>4
    <2> QED
      BY <2>1, <2>2
  <1>3. \A u \in Users : /\ Serving(r, u) => Serving(call[c], u)
                         /\ ~Hosting(r, u)
    BY <1>1, <1>2 DEF Serving, Hosting, Seeking
  <1>4. \A u \in Users : Due(r, u) <= Due(call[c], u)
    BY <1>3 DEF Due, One
  <1> QED
    BY <1>2, <1>4, QuietAccount DEF ListCandidates, Inspect

(* Requests: what is asked for pays for what may follow.                   *)
LEMMA AskSteps ==
    ASSUME QueueAssumption, Typed, Typed', SeatsOwed, NEW c \in Calls, NEW u \in Users,
           FindMatch(c, u) \/ PlayBot(c, u)
    PROVE  SeatsOwed'
  <1>1. PICK r : /\ call' = [call EXCEPT ![c] = r]
                 /\ r.user = u /\ r.cand = NoUser /\ r.pc \in {"zrem", "cancelZrem"}
    <2> DEFINE find == [Idle EXCEPT !.pc = "zrem", !.user = u]
               bot == [Idle EXCEPT !.pc = "cancelZrem", !.user = u, !.then = "botRoom"]
    <2>1. /\ find.user = u /\ find.cand = NoUser /\ find.pc = "zrem"
          /\ bot.user = u /\ bot.cand = NoUser /\ bot.pc = "cancelZrem"
      BY DEF Idle
    <2>2. call' = [call EXCEPT ![c] = find] \/ call' = [call EXCEPT ![c] = bot]
      BY DEF FindMatch, PlayBot
    <2> HIDE DEF find, bot
    <2> QED
      BY <2>1, <2>2
  <1>2. /\ asks' = [asks EXCEPT ![u] = @ + 1] /\ u \in Users
        /\ UNCHANGED <<pool, local, booked, faults>>
    BY DEF FindMatch, PlayBot, Count
  <1>3. ASSUME NEW v \in Users
        PROVE  booked'[v] + Due(r, v) + Queued(v)' + asks[v] + faults
                   <= booked[v] + Due(call[c], v) + Queued(v) + asks'[v] + faults'
    <2>1. /\ booked[v] \in Nat /\ asks[v] \in Nat /\ faults \in Nat
          /\ asks'[v] = IF v = u THEN asks[v] + 1 ELSE asks[v]
      BY <1>2 DEF Typed, TypeOK
    <2>2. Queued(v)' = Queued(v) /\ Queued(v) \in Nat /\ Due(call[c], v) \in Nat
      BY <1>2 DEF Queued, Due, One
    <2>3. ~Hosting(r, v) /\ (Serving(r, v) => v = u)
      BY <1>1 DEF Serving, Hosting
    <2>4. Due(r, v) \in Nat /\ Due(r, v) <= IF v = u THEN 1 ELSE 0
      BY <2>3 DEF Due, One
    <2> QED
      BY <1>2, <2>1, <2>2, <2>4
  <1> QED
    BY <1>1, <1>3, AccountStep

(* Leaving the queue only takes.                                           *)
LEMMA CancelSteps ==
    ASSUME QueueAssumption, Typed, Typed', SeatsOwed, NEW c \in Calls, NEW u \in Users,
           CancelMatch(c, u) \/ TimerFires(c, u) \/ TimerMisses(c, u)
    PROVE  SeatsOwed'
  <1>1. /\ UNCHANGED <<pool, local, booked, asks>>
        /\ faults' = faults \/ faults' = faults + 1
    BY DEF CancelMatch, TimerFires, TimerMisses
  <1>2. CASE Start(c, u, "cancelZrem")
    <2> DEFINE r == [Idle EXCEPT !.pc = "cancelZrem", !.user = u]
    <2>1. r.pc = "cancelZrem" /\ r.then = "idle" /\ call' = [call EXCEPT ![c] = r]
      BY <1>2 DEF Idle
    <2> HIDE DEF r
    <2>2. \A v \in Users : ~Serving(r, v) /\ ~Hosting(r, v)
      BY <2>1 DEF Serving, Hosting, Seeking
    <2>3. \A v \in Users : Due(r, v) <= Due(call[c], v)
      BY <2>2 DEF Due, One
    <2> QED
      BY <1>1, <2>1, <2>3, QuietAccount
  <1>3. CASE UNCHANGED call
    <2>1. call' = [call EXCEPT ![c] = call[c]]
      BY <1>3 DEF Typed, CallsKnown
    <2>2. \A v \in Users : Due(call[c], v) <= Due(call[c], v)
      BY DEF Due, One
    <2> QED
      BY <1>1, <2>1, <2>2, QuietAccount
  <1> QED
    BY <1>2, <1>3 DEF CancelMatch, TimerFires, TimerMisses

\* What a player has of a call and of the queues is a number.
LEMMA AccountNats ==
    ASSUME Typed, Typed'
    PROVE  /\ \A r, u : Due(r, u) \in Nat
           /\ \A u \in Users : /\ Queued(u) \in Nat /\ Queued(u)' \in Nat
                               /\ booked[u] \in Nat /\ booked'[u] \in Nat
                               /\ asks[u] \in Nat /\ asks'[u] \in Nat
           /\ faults \in Nat /\ faults' \in Nat
  BY DEF Due, Queued, One, Typed, TypeOK

(* The claim turns the opponent's entry of the pool into a room to come;   *)
(* tryMatchLocal does the same with an entry of the fallback queue.        *)
LEMMA ClaimSteps ==
    ASSUME QueueAssumption, Typed, Typed', SeatsOwed, NEW c \in Calls,
           Claim(c) \/ MatchLocal(c)
    PROVE  SeatsOwed'
  <1>0. call[c] \in Call
    BY DEF Typed, CallsKnown
  <1>1. UNCHANGED <<booked, asks, faults>>
    BY DEF Claim, MatchLocal
  <1>2. CASE Claim(c) /\ call[c].cand \notin pool
    <2> DEFINE r == [call[c] EXCEPT !.pc = "scan", !.cand = NoUser]
    <2>1. call' = [call EXCEPT ![c] = r] /\ UNCHANGED <<pool, local>> /\ call[c].pc = "claim"
      BY <1>2 DEF Claim, Claimed
    <2>2. r.pc = "scan" /\ r.user = call[c].user
      BY <1>0 DEF Call
    <2> HIDE DEF r
    <2>3. \A u \in Users : ~Hosting(r, u) /\ (Serving(r, u) => Serving(call[c], u))
      BY <2>1, <2>2 DEF Serving, Hosting, Seeking
    <2>4. \A u \in Users : Due(r, u) <= Due(call[c], u)
      BY <2>3 DEF Due, One
    <2> QED
      BY <1>1, <2>1, <2>4, QuietAccount
  <1>3. CASE MatchLocal(c) \/ (Claim(c) /\ call[c].cand \in pool)
    <2>1. PICK r, v : /\ call' = [call EXCEPT ![c] = r]
                      /\ r.user = call[c].user /\ r.cand = v
                      /\ r.pc \in {"create", "createLocal"}
                      /\ pool' \subseteq pool /\ local' \subseteq local
                      /\ (v \in pool /\ v \notin pool') \/ (v \in local /\ v \notin local')
      <3>1. CASE MatchLocal(c)
        <4>1. PICK v \in local \ {call[c].user} :
                 /\ local' = local \ {call[c].user, v}
                 /\ call' = [call EXCEPT ![c].pc = "createLocal", ![c].cand = v]
          BY <3>1 DEF MatchLocal
        <4> DEFINE r == [call[c] EXCEPT !.pc = "createLocal", !.cand = v]
        <4>2. r.user = call[c].user /\ r.cand = v /\ r.pc = "createLocal"
          BY <1>0 DEF Call
        <4>3. call' = [call EXCEPT ![c] = r]
          <5>1. DOMAIN call = Calls
            BY DEF Typed, TypeOK
          <5> QED
            BY ONLY <4>1, <5>1, c \in Calls
        <4>4. pool' = pool
          BY <3>1 DEF MatchLocal
        <4>5. local' \subseteq local /\ v \in local /\ v \notin local'
          BY <4>1
        <4> HIDE DEF r
        <4> WITNESS r, v
        <4> QED
          BY <4>2, <4>3, <4>4, <4>5
      <3>2. CASE Claim(c) /\ call[c].cand \in pool
        <4> DEFINE r == [call[c] EXCEPT !.pc = "create", !.cands = {}]
                   v == call[c].cand
        <4>1. r.user = call[c].user /\ r.cand = v /\ r.pc = "create"
          BY <1>0 DEF Call
        <4>2. /\ call' = [call EXCEPT ![c] = r]
              /\ pool' = pool \ {call[c].user, v} /\ local' = local /\ v \in pool
          BY <3>2 DEF Claim, Claimed
        <4> HIDE DEF r, v
        <4> QED
          BY <4>1, <4>2
      <3> QED
        BY <1>3, <3>1, <3>2
    <2>2. call[c].pc \in {"claim", "local"}
      BY <1>3 DEF Claim, MatchLocal
    <2>3. ASSUME NEW u \in Users
          PROVE  Due(r, u) + Queued(u)' <= Due(call[c], u) + Queued(u)
      <3>1. /\ Serving(r, u) <=> Serving(call[c], u)
            /\ Hosting(r, u) <=> u = v
            /\ ~Hosting(call[c], u)
        BY <2>1, <2>2 DEF Serving, Hosting, Seeking
      <3>2. One(u \in pool') <= One(u \in pool) /\ One(u \in local') <= One(u \in local)
        BY <2>1 DEF One
      <3>3. CASE u = v
        <4>1. \/ One(u \in pool') = 0 /\ One(u \in pool) = 1
              \/ One(u \in local') = 0 /\ One(u \in local) = 1
          BY <2>1, <3>3 DEF One
        <4> QED
          BY <3>1, <3>2, <3>3, <4>1 DEF Due, Queued, One
      <3>4. CASE u # v
        BY <3>1, <3>2, <3>4 DEF Due, Queued, One
      <3> QED
        BY <3>3, <3>4
    <2>4. \A u \in Users :
              booked'[u] + Due(r, u) + Queued(u)' + asks[u] + faults
                  <= booked[u] + Due(call[c], u) + Queued(u) + asks'[u] + faults'
      BY <1>1, <2>3, AccountNats
    <2> QED
      BY <2>1, <2>4, AccountStep
  <1> QED
    BY <1>2, <1>3

(* Seats are given to who was owed one.                                    *)
LEMMA BookSteps ==
    ASSUME QueueAssumption, Typed, Typed', SeatsOwed, NEW c \in Calls,
           \/ CreateRoom(c) \/ SeatJoiner(c) \/ BotRoom(c)
           \/ BotFault(c) /\ booked' = Count(booked, call[c].user)
    PROVE  SeatsOwed'
  <1>0. call[c] \in Call
    BY DEF Typed, CallsKnown
  <1>1. PICK r, v :
            /\ v \in Users
            /\ call' = [call EXCEPT ![c] = r]
            /\ booked' = Count(booked, v)
            /\ UNCHANGED <<pool, local, asks>>
            /\ faults' = faults \/ faults' = faults + 1
            /\ \A u \in Users : Due(r, u) + One(u = v) <= Due(call[c], u)
    <2>1. CASE CreateRoom(c)
      <3> DEFINE step == IF call[c].pc = "create" THEN "seat" ELSE "seatLocal"
                 r == [call[c] EXCEPT !.pc = step]
                 v == call[c].cand
      <3>1. call[c].pc \in {"create", "createLocal"} /\ v \in Users
        BY <2>1 DEF CreateRoom, Typed, CallsKnown, Sound, Paired
      <3>2. r.user = call[c].user /\ r.pc \in {"seat", "seatLocal"}
        BY <1>0 DEF Call
      <3>3. call' = [call EXCEPT ![c] = r]
        BY <2>1 DEF CreateRoom
      <3> HIDE DEF r
      <3>4. ASSUME NEW u \in Users PROVE Due(r, u) + One(u = v) <= Due(call[c], u)
        <4>1. /\ Serving(r, u) <=> Serving(call[c], u)
              /\ ~Hosting(r, u)
              /\ Hosting(call[c], u) <=> u = v
          BY <3>1, <3>2 DEF Serving, Hosting, Seeking
        <4> QED
          BY <4>1 DEF Due, One
      <3>5. booked' = Count(booked, v) /\ UNCHANGED <<pool, local, asks, faults>>
        BY <2>1 DEF CreateRoom
      <3> HIDE DEF v
      <3> QED
        BY <3>1, <3>3, <3>4, <3>5
    <2>2. CASE SeatJoiner(c)
      <3> DEFINE step == IF call[c].pc = "seat" THEN "publish" ELSE "announce"
                 r == [call[c] EXCEPT !.pc = step]
                 v == call[c].user
      <3>1. call[c].pc \in {"seat", "seatLocal"} /\ v \in Users
        BY <2>2 DEF SeatJoiner, Typed, CallsKnown, Sound
      <3>2. r.pc \in {"publish", "announce"}
        BY <1>0 DEF Call
      <3>3. call' = [call EXCEPT ![c] = r]
        BY <2>2 DEF SeatJoiner
      <3> HIDE DEF r
      <3>4. ASSUME NEW u \in Users PROVE Due(r, u) + One(u = v) <= Due(call[c], u)
        <4>1. /\ ~Serving(r, u) /\ ~Hosting(r, u) /\ ~Hosting(call[c], u)
              /\ Serving(call[c], u) <=> u = v
          BY <3>1, <3>2 DEF Serving, Hosting, Seeking
        <4> QED
          BY <4>1 DEF Due, One
      <3>5. booked' = Count(booked, v) /\ UNCHANGED <<pool, local, asks, faults>>
        BY <2>2 DEF SeatJoiner
      <3> HIDE DEF v
      <3> QED
        BY <3>1, <3>3, <3>4, <3>5
    <2>3. CASE BotRoom(c) \/ (BotFault(c) /\ booked' = Count(booked, call[c].user))
      <3> DEFINE v == call[c].user
      <3>1. call[c].pc = "botRoom" /\ v \in Users
        BY <2>3 DEF BotRoom, BotFault, Typed, CallsKnown, Sound
      <3>2. ASSUME NEW u \in Users PROVE Due(Idle, u) + One(u = v) <= Due(call[c], u)
        <4>1. /\ ~Serving(Idle, u) /\ ~Hosting(Idle, u) /\ ~Hosting(call[c], u)
              /\ Serving(call[c], u) <=> u = v
          BY <3>1 DEF Serving, Hosting, Seeking, Idle
        <4> QED
          BY <4>1 DEF Due, One
      <3>3. /\ call' = [call EXCEPT ![c] = Idle] /\ booked' = Count(booked, v)
            /\ UNCHANGED <<pool, local, asks>>
            /\ faults' = faults \/ faults' = faults + 1
        BY <2>3 DEF BotRoom, BotFault
      <3> HIDE DEF v
      <3> QED
        BY <3>1, <3>2, <3>3
    <2> QED
      BY <2>1, <2>2, <2>3
  <1>2. ASSUME NEW u \in Users
        PROVE  booked'[u] + Due(r, u) + Queued(u)' + asks[u] + faults
                   <= booked[u] + Due(call[c], u) + Queued(u) + asks'[u] + faults'
    <2>1. booked'[u] = booked[u] + One(u = v)
      BY <1>1 DEF Count, One, Typed, TypeOK
    <2>2. Queued(u)' = Queued(u) /\ One(u = v) \in Nat
      BY <1>1 DEF Queued, One
    <2>3. Due(r, u) + One(u = v) <= Due(call[c], u)
      BY <1>1
    <2> QED
      BY <1>1, <2>1, <2>2, <2>3, AccountNats
  <1> QED
    BY <1>1, <1>2, AccountStep

(* Waiting in a queue is what remains of the call.                         *)
LEMMA WaitSteps ==
    ASSUME QueueAssumption, Typed, Typed', SeatsOwed, NEW c \in Calls,
           EnterPool(c) \/ WaitLocal(c)
    PROVE  SeatsOwed'
  <1> DEFINE w == call[c].user
  <1>1. /\ call' = [call EXCEPT ![c] = Idle]
        /\ UNCHANGED <<booked, asks, faults>>
        /\ \/ pool' = pool \cup {w} /\ local' = local
           \/ pool' = pool /\ local' = local \cup {w}
    BY DEF EnterPool, WaitLocal
  <1>2. call[c].pc \in {"zadd", "local"}
    BY DEF EnterPool, WaitLocal
  <1>3. ASSUME NEW u \in Users
        PROVE  Due(Idle, u) + Queued(u)' <= Due(call[c], u) + Queued(u)
    <2>1. /\ ~Serving(Idle, u) /\ ~Hosting(Idle, u) /\ ~Hosting(call[c], u)
          /\ Serving(call[c], u) <=> u = w
      BY <1>2 DEF Serving, Hosting, Seeking, Idle
    <2>2. Due(Idle, u) = 0 /\ Due(call[c], u) = One(u = w)
      BY <2>1 DEF Due, One
    <2> HIDE DEF w
    <2>3. Queued(u)' <= One(u = w) + Queued(u)
      BY <1>1 DEF Queued, One
    <2>4. Queued(u) \in Nat /\ Queued(u)' \in Nat /\ One(u = w) \in Nat
      BY DEF Queued, One
    <2> QED
      BY <2>2, <2>3, <2>4
  <1>4. \A u \in Users :
            booked'[u] + Due(Idle, u) + Queued(u)' + asks[u] + faults
                <= booked[u] + Due(call[c], u) + Queued(u) + asks'[u] + faults'
    BY <1>1, <1>3, AccountNats
  <1> QED
    BY <1>1, <1>4, AccountStep

(* An error owes the joiner the seat it may already have given.            *)
LEMMA FaultStep ==
    ASSUME QueueAssumption, Typed, Typed', SeatsOwed, NEW c \in Calls,
           Fault(c) \/ (LostReply(c) /\ call[c].pc = "publish")
    PROVE  SeatsOwed'
  <1> DEFINE r == [Idle EXCEPT !.pc = "local", !.user = call[c].user]
  <1>1. /\ call' = [call EXCEPT ![c] = r]
        /\ faults' = faults + 1
        /\ UNCHANGED <<pool, local, booked, asks>>
    BY DEF Fault, LostReply
  <1>2. r.pc = "local"
    BY DEF Idle
  <1> HIDE DEF r
  <1>3. ASSUME NEW u \in Users
        PROVE  booked'[u] + Due(r, u) + Queued(u)' + asks[u] + faults
                   <= booked[u] + Due(call[c], u) + Queued(u) + asks'[u] + faults'
    <2>1. ~Hosting(r, u)
      BY <1>2 DEF Hosting
    <2>2. Due(r, u) <= 1 /\ Queued(u)' = Queued(u)
      BY <1>1, <2>1 DEF Due, Queued, One
    <2>3. Due(r, u) \in Nat /\ Due(call[c], u) \in Nat
      BY DEF Due, One
    <2> QED
      BY <1>1, <2>2, <2>3, AccountNats
  <1> QED
    BY <1>1, <1>3, AccountStep

(* The entry in the pool whose reply was lost is what the error pays for:  *)
(* the call itself goes on searching.                                      *)
LEMMA LostEntryStep ==
    ASSUME QueueAssumption, Typed, Typed', SeatsOwed, NEW c \in Calls,
           LostReply(c), call[c].pc = "zadd"
    PROVE  SeatsOwed'
  <1> DEFINE w == call[c].user
             r == [Idle EXCEPT !.pc = "local", !.user = w]
  <1>1. /\ call' = [call EXCEPT ![c] = r]
        /\ faults' = faults + 1
        /\ pool' = pool \cup {w}
        /\ UNCHANGED <<local, booked, asks>>
    BY DEF LostReply
  <1>2. r.pc = "local" /\ r.user = w
    BY DEF Idle
  <1> HIDE DEF r
  <1>3. ASSUME NEW u \in Users
        PROVE  booked'[u] + Due(r, u) + Queued(u)' + asks[u] + faults
                   <= booked[u] + Due(call[c], u) + Queued(u) + asks'[u] + faults'
    <2>1. ~Hosting(r, u) /\ (Serving(r, u) => Serving(call[c], u))
      BY <1>2 DEF Serving, Hosting, Seeking
    <2>2. Due(r, u) <= Due(call[c], u)
      BY <2>1 DEF Due, One
    <2>3. Queued(u)' <= Queued(u) + 1
      BY <1>1 DEF Queued, One
    <2>4. Due(r, u) \in Nat /\ Due(call[c], u) \in Nat
      BY DEF Due, One
    <2> QED
      BY <1>1, <2>2, <2>3, <2>4, AccountNats
  <1> QED
    BY <1>1, <1>3, AccountStep

(* Errors that end a call give nothing.                                    *)
LEMMA EndSteps ==
    ASSUME QueueAssumption, Typed, Typed', SeatsOwed, NEW c \in Calls,
           LocalFault(c) \/ (BotFault(c) /\ booked' = booked)
    PROVE  SeatsOwed'
  BY QuietDone DEF LocalFault, BotFault

LEMMA FailSteps ==
    ASSUME QueueAssumption, Typed, Typed', SeatsOwed, NEW c \in Calls, Fails(c)
    PROVE  SeatsOwed'
  <1>1. CASE Fault(c)
    BY <1>1, FaultStep
  <1>2. CASE LostReply(c)
    <2>1. call[c].pc \in {"zadd", "publish"}
      BY <1>2 DEF LostReply
    <2> QED
      BY <1>2, <2>1, FaultStep, LostEntryStep
  <1>3. CASE LocalFault(c)
    BY <1>3, EndSteps
  <1>4. CASE BotFault(c)
    <2>1. booked' = booked \/ booked' = Count(booked, call[c].user)
      BY <1>4 DEF BotFault
    <2> QED
      BY <1>4, <2>1, EndSteps, BookSteps
  <1> QED
    BY <1>1, <1>2, <1>3, <1>4 DEF Fails

(* Doing without Redis is one more step of the same search; the readiness  *)
(* of Redis gives nobody a seat.                                           *)
LEMMA RedisSteps ==
    ASSUME QueueAssumption, Typed, Typed', SeatsOwed,
           (\E c \in Calls : WithoutRedis(c)) \/ RedisReady \/ RedisError
    PROVE  SeatsOwed'
  <1>1. CASE \E c \in Calls : WithoutRedis(c)
    <2>1. PICK c \in Calls : WithoutRedis(c)
      BY <1>1
    <2> DEFINE r == [Idle EXCEPT !.pc = "local", !.user = call[c].user]
    <2>2. /\ call' = [call EXCEPT ![c] = r] /\ call[c].pc = "zrem"
          /\ UNCHANGED <<pool, local, booked, asks, faults>>
      BY <2>1 DEF WithoutRedis
    <2>3. r.pc = "local" /\ r.user = call[c].user
      BY DEF Idle
    <2> HIDE DEF r
    <2>4. \A u \in Users : /\ Serving(r, u) => Serving(call[c], u)
                           /\ ~Hosting(r, u)
      BY <2>2, <2>3 DEF Serving, Hosting, Seeking
    <2>5. \A u \in Users : Due(r, u) <= Due(call[c], u)
      BY <2>4 DEF Due, One
    <2> QED
      BY <2>2, <2>5, QuietAccount
  <1>2. CASE RedisReady \/ RedisError
    <2>1. /\ UNCHANGED <<call, pool, local, booked, asks>>
          /\ faults' = faults \/ faults' = faults + 1
      BY <1>2 DEF RedisReady, RedisError
    <2> SUFFICES ASSUME NEW u \in Users
                 PROVE  booked[u] + Cardinality(Servers(u)) + Cardinality(Hosts(u)) + Queued(u)
                            <= asks[u] + faults'
      BY <2>1 DEF SeatsOwed, Servers, Hosts, Queued
    <2>2. IsFiniteSet(Servers(u)) /\ IsFiniteSet(Hosts(u))
      BY FS_Subset DEF QueueAssumption, Servers, Hosts
    <2>3. Cardinality(Servers(u)) \in Nat /\ Cardinality(Hosts(u)) \in Nat
      BY <2>2, FS_CardinalityType
    <2>4. booked[u] + Cardinality(Servers(u)) + Cardinality(Hosts(u)) + Queued(u)
              <= asks[u] + faults
      BY DEF SeatsOwed
    <2> QED
      BY <2>1, <2>3, <2>4, AccountNats
  <1> QED
    BY <1>1, <1>2

LEMMA InitOwed == Init => SeatsOwed
  <1> SUFFICES ASSUME Init, NEW u \in Users
               PROVE  booked[u] + Cardinality(Servers(u)) + Cardinality(Hosts(u)) + Queued(u)
                          <= asks[u] + faults
    BY DEF SeatsOwed
  <1>1. Servers(u) = {} /\ Hosts(u) = {}
    BY DEF Init, Servers, Hosts, Serving, Hosting, Idle, Seeking
  <1>2. Cardinality(Servers(u)) = 0 /\ Cardinality(Hosts(u)) = 0
    BY <1>1, FS_EmptySet
  <1> QED
    BY <1>2 DEF Init, Queued, One, Zero

(* Every request of a player leads to at most one seat, whoever claims it, *)
(* cancels it or finishes it in the fallback queue, for any number of      *)
(* players and of calls at once: a seat that is still to come is owed      *)
(* either by a call in flight or by an entry of a queue, and each step     *)
(* passes the debt on or pays it.  An error may add one.                   *)
THEOREM SeatsAreAskedFor == Spec => []OneSeatPerAsk
  <1> DEFINE IInv == Typed /\ SeatsOwed
  <1>1. Init => IInv
    BY InitTyped, InitOwed
  <1>2. IInv /\ [Next]_vars => IInv'
    <2> SUFFICES ASSUME IInv, [Next]_vars PROVE SeatsOwed'
      BY StepTyped
    <2>0. Typed' /\ QueueAssumption
      BY StepTyped, QueueAssumption
    <2>1. ASSUME NEW c \in Calls, NEW u \in Users,
                 \/ FindMatch(c, u) \/ CancelMatch(c, u) \/ PlayBot(c, u)
                 \/ TimerFires(c, u) \/ TimerMisses(c, u)
          PROVE  SeatsOwed'
      BY <2>0, <2>1, AskSteps, CancelSteps
    <2>2. ASSUME NEW c \in Calls, Continue(c) \/ Fails(c)
          PROVE  SeatsOwed'
      BY <2>0, <2>2, QuietSteps, ScanSteps, ClaimSteps, BookSteps, WaitSteps, FailSteps,
         RedisSteps
         DEF Continue
    <2>3. CASE RedisReady \/ RedisError
      BY <2>0, <2>3, RedisSteps
    <2>4. CASE UNCHANGED vars
      BY <2>4 DEF vars, SeatsOwed, Servers, Hosts, Queued
    <2> QED
      BY <2>1, <2>2, <2>3, <2>4 DEF Next
  <1>3. IInv => OneSeatPerAsk
    <2> SUFFICES ASSUME IInv, NEW u \in Users PROVE booked[u] <= asks[u] + faults
      BY DEF OneSeatPerAsk
    <2>1. IsFiniteSet(Servers(u)) /\ IsFiniteSet(Hosts(u))
      BY QueueAssumption, FS_Subset DEF QueueAssumption, Servers, Hosts
    <2>2. /\ Cardinality(Servers(u)) \in Nat /\ Cardinality(Hosts(u)) \in Nat
          /\ Queued(u) \in Nat /\ booked[u] \in Nat /\ asks[u] + faults \in Nat
      BY <2>1, FS_CardinalityType DEF Queued, One, Typed, TypeOK
    <2>3. booked[u] + Cardinality(Servers(u)) + Cardinality(Hosts(u)) + Queued(u)
              <= asks[u] + faults
      BY DEF SeatsOwed
    <2> QED
      BY <2>2, <2>3
  <1> QED
    BY <1>1, <1>2, <1>3, PTL DEF Spec

-----------------------------------------------------------------------------
(* The timers                                                              *)

\* Steps of joinQueue.
Joining == Guarded \cup {"local", "createLocal", "seatLocal", "announce"}

\* A call that serves a request of u for an opponent or for the bot.
Errand(r, u) ==
    /\ r.user = u
    /\ \/ r.pc \in Joining \cup {"botRoom"}
       \/ r.pc \in {"cancelZrem", "cancelHdel"} /\ r.then = "botRoom"

Busy == {"asking", "matched"}

\* A player whose request is being served asks for nothing else.
OneErrand ==
    /\ \A c \in Calls, u \in Users : Errand(call[c], u) => client[u] \in Busy
    /\ \A c, d \in Calls, u \in Users :
           Errand(call[c], u) /\ Errand(call[d], u) => c = d

\* Who is looking for an opponent has left the pool.
Away == {"hdel", "range", "scan", "claim", "hset"}
SearchersAway == \A c \in Calls : call[c].pc \in Away => call[c].user \notin pool

Watched(u) ==
    \/ timers[u] > 0
    \/ \E c \in Calls : At(c, "cancelZrem") /\ call[c].user = u
    \/ missed

LEMMA InitWatched == Init => OneErrand /\ SearchersAway /\ EntriesAreWatched
  BY DEF Init, Idle, OneErrand, SearchersAway, EntriesAreWatched, Errand, Joining, Guarded,
         Away

\* A step of call c that takes on no errand.
LEMMA SameErrands ==
    ASSUME Typed, OneErrand, NEW c \in Calls, NEW r, call' = [call EXCEPT ![c] = r],
           \A u \in Users : Errand(r, u) => Errand(call[c], u),
           \A u \in Users : client[u] \in Busy => client'[u] \in Busy
    PROVE  OneErrand'
  <1>1. \A d \in Calls : call'[d] = IF d = c THEN r ELSE call[d]
    BY DEF Typed, CallsKnown
  <1>2. \A d \in Calls, u \in Users : Errand(call'[d], u) => Errand(call[d], u)
    BY <1>1
  <1> QED
    BY <1>2 DEF OneErrand

\* A step of call c that ends its errand and tells only its player.
LEMMA ErrandEnds ==
    ASSUME Typed, OneErrand, NEW c \in Calls, NEW u \in Users, Done(c), Errand(call[c], u),
           \A v \in Users \ {u} : client'[v] = client[v]
    PROVE  OneErrand'
  <1>1. \A d \in Calls : call'[d] = IF d = c THEN Idle ELSE call[d]
    BY DEF Typed, CallsKnown
  <1>2. \A v \in Users : ~Errand(Idle, v)
    BY DEF Errand, Idle, Joining, Guarded
  <1>3. \A d \in Calls, v \in Users : Errand(call'[d], v) => Errand(call[d], v) /\ v # u
    BY <1>1, <1>2 DEF OneErrand
  <1> QED
    BY <1>3 DEF OneErrand

(* A player asks when nothing is being done for them.                      *)
LEMMA ErrandBegins ==
    ASSUME Typed, OneErrand, NEW c \in Calls, NEW u \in Users,
           FindMatch(c, u) \/ PlayBot(c, u)
    PROVE  OneErrand'
  <1>1. PICK r : call' = [call EXCEPT ![c] = r] /\ r.user = u
    <2> DEFINE find == [Idle EXCEPT !.pc = "zrem", !.user = u]
               bot == [Idle EXCEPT !.pc = "cancelZrem", !.user = u, !.then = "botRoom"]
    <2>1. find.user = u /\ bot.user = u
      BY DEF Idle
    <2>2. call' = [call EXCEPT ![c] = find] \/ call' = [call EXCEPT ![c] = bot]
      BY DEF FindMatch, PlayBot
    <2> HIDE DEF find, bot
    <2> QED
      BY <2>1, <2>2
  <1>2. client[u] \notin Busy
    BY DEF FindMatch, PlayBot, Busy
  <1>3. client' = [v \in Users |-> IF v = u THEN "asking" ELSE client[v]]
    BY DEF FindMatch, PlayBot, Tell
  <1>4. \A d \in Calls : call'[d] = IF d = c THEN r ELSE call[d]
    BY <1>1 DEF Typed, CallsKnown
  <1>5. \A d \in Calls, v \in Users :
            Errand(call'[d], v) => IF d = c THEN v = u ELSE Errand(call[d], v) /\ v # u
    BY <1>1, <1>2, <1>4 DEF OneErrand, Errand
  <1>6. \A v \in Users : client'[v] = IF v = u THEN "asking" ELSE client[v]
    BY <1>3
  <1> QED
    BY <1>5, <1>6 DEF OneErrand, Busy

\* A call that goes on to another step of joinQueue.
LEMMA ErrandGoesOn ==
    ASSUME Typed, OneErrand, NEW c \in Calls, NEW r, call' = [call EXCEPT ![c] = r],
           r.user = call[c].user, call[c].pc \in Joining,
           \A u \in Users : client[u] \in Busy => client'[u] \in Busy
    PROVE  OneErrand'
  <1>1. \A u \in Users : Errand(r, u) => Errand(call[c], u)
    BY DEF Errand
  <1> QED
    BY <1>1, SameErrands

LEMMA GotoGoesOn ==
    ASSUME Typed, OneErrand, NEW c \in Calls, NEW step, Goto(c, step),
           call[c].pc \in Joining, UNCHANGED client
    PROVE  OneErrand'
  <1> DEFINE r == [call[c] EXCEPT !.pc = step]
  <1>1. call' = [call EXCEPT ![c] = r] /\ r.user = call[c].user
    BY DEF Typed, CallsKnown, Call
  <1> HIDE DEF r
  <1> QED
    BY <1>1, ErrandGoesOn

LEMMA DoneErrands ==
    ASSUME Typed, OneErrand, NEW c \in Calls, Done(c),
           \A u \in Users : client[u] \in Busy => client'[u] \in Busy
    PROVE  OneErrand'
  <1>1. \A v \in Users : ~Errand(Idle, v)
    BY DEF Errand, Idle, Joining, Guarded
  <1> QED
    BY <1>1, SameErrands

LEMMA TellKeepsBusy ==
    ASSUME Typed, NEW us, Tell(us, "matched")
    PROVE  \A u \in Users : client[u] \in Busy => client'[u] \in Busy
  BY DEF Tell, Busy, Typed, TypeOK

LEMMA JoinErrands ==
    ASSUME Typed, OneErrand, NEW c \in Calls,
           \/ LeavePool(c) \/ WithoutRedis(c) \/ DropTicket(c) \/ ListCandidates(c)
           \/ Inspect(c) \/ NoCandidate(c) \/ Claim(c) \/ CreateRoom(c) \/ SeatJoiner(c)
           \/ Announce(c) \/ SaveTicket(c) \/ MatchLocal(c) \/ Fault(c) \/ LostReply(c)
    PROVE  OneErrand'
  <1>0. call[c] \in Call
    BY DEF Typed, CallsKnown
  <1>1. CASE \/ LeavePool(c) \/ DropTicket(c) \/ NoCandidate(c)
             \/ CreateRoom(c) \/ SeatJoiner(c) \/ SaveTicket(c)
    BY <1>1, GotoGoesOn
       DEF LeavePool, DropTicket, NoCandidate, CreateRoom, SeatJoiner, SaveTicket, Joining,
           Guarded
  <1>2. CASE WithoutRedis(c) \/ Fault(c) \/ LostReply(c)
    <2> DEFINE r == [Idle EXCEPT !.pc = "local", !.user = call[c].user]
    <2>1. call' = [call EXCEPT ![c] = r] /\ call[c].pc \in Joining
      BY <1>2 DEF WithoutRedis, Fault, LostReply, Joining, Guarded
    <2>2. r.user = call[c].user
      BY DEF Idle
    <2> HIDE DEF r
    <2>3. \A u \in Users : client[u] \in Busy => client'[u] \in Busy
      BY <1>2, TellKeepsBusy DEF WithoutRedis, Fault, LostReply
    <2> QED
      BY <2>1, <2>2, <2>3, ErrandGoesOn
  <1>3. CASE ListCandidates(c) \/ Claim(c)
    <2> DEFINE listed == [call[c] EXCEPT !.pc = "scan", !.cands = pool \ {call[c].user}]
               won == [call[c] EXCEPT !.pc = "create", !.cands = {}]
               lost == [call[c] EXCEPT !.pc = "scan", !.cand = NoUser]
    <2>1. /\ listed.user = call[c].user /\ won.user = call[c].user
          /\ lost.user = call[c].user
      BY <1>0 DEF Call
    <2>2. /\ \/ call' = [call EXCEPT ![c] = listed]
             \/ call' = [call EXCEPT ![c] = won]
             \/ call' = [call EXCEPT ![c] = lost]
          /\ call[c].pc \in Joining /\ client' = client
      BY <1>3 DEF ListCandidates, Claim, Joining, Guarded
    <2> HIDE DEF listed, won, lost
    <2> QED
      BY <2>1, <2>2, ErrandGoesOn
  <1>4. CASE Inspect(c)
    <2>1. PICK v \in call[c].cands :
             \/ call' = [call EXCEPT ![c].pc = "claim", ![c].cand = v, ![c].cands = @ \ {v}]
             \/ call' = [call EXCEPT ![c].cands = @ \ {v}]
      BY <1>4 DEF Inspect
    <2> DEFINE taken == [call[c] EXCEPT !.pc = "claim", !.cand = v, !.cands = @ \ {v}]
               passed == [call[c] EXCEPT !.cands = @ \ {v}]
    <2>2. taken.user = call[c].user /\ passed.user = call[c].user
      BY <1>0 DEF Call
    <2>3. /\ call' = [call EXCEPT ![c] = taken] \/ call' = [call EXCEPT ![c] = passed]
          /\ call[c].pc \in Joining /\ client' = client
      BY <1>4, <2>1 DEF Inspect, Joining, Guarded
    <2> HIDE DEF taken, passed
    <2> QED
      BY <2>2, <2>3, ErrandGoesOn
  <1>5. CASE MatchLocal(c)
    <2>1. PICK v \in local : call' = [call EXCEPT ![c].pc = "createLocal", ![c].cand = v]
      BY <1>5 DEF MatchLocal
    <2> DEFINE r == [call[c] EXCEPT !.pc = "createLocal", !.cand = v]
    <2>2. r.user = call[c].user
      BY <1>0 DEF Call
    <2>3. /\ call' = [call EXCEPT ![c] = r]
          /\ call[c].pc \in Joining /\ client' = client
      BY <1>5, <2>1 DEF MatchLocal, Joining
    <2> HIDE DEF r
    <2> QED
      BY <2>2, <2>3, ErrandGoesOn
  <1>6. CASE Announce(c)
    BY <1>6, DoneErrands, TellKeepsBusy DEF Announce
  <1> QED
    BY <1>1, <1>2, <1>3, <1>4, <1>5, <1>6

LEMMA CancelErrands ==
    ASSUME Typed, OneErrand, NEW c \in Calls,
           \/ CancelPool(c) \/ CancelTicket(c) \/ CancelMisses(c) \/ BotRoom(c)
           \/ \E u \in Users : CancelMatch(c, u) \/ TimerFires(c, u) \/ TimerMisses(c, u)
    PROVE  OneErrand'
  <1>0. call[c] \in Call
    BY DEF Typed, CallsKnown
  <1>1. CASE CancelPool(c) \/ CancelTicket(c) \/ CancelMisses(c)
    <2>1. \A u \in Users : client[u] \in Busy => client'[u] \in Busy
      BY <1>1 DEF CancelPool, CancelTicket, CancelMisses, CancelLocal, Busy, Typed, TypeOK
    <2>2. CASE Done(c)
      BY <2>1, <2>2, DoneErrands
    <2>3. CASE ~Done(c)
      <3>1. PICK step \in {"cancelHdel", "botRoom"} :
              Goto(c, step) /\ (step = "botRoom" => call[c].then = "botRoom")
        BY <1>1, <2>3 DEF CancelPool, CancelTicket, CancelMisses, CancelLocal
      <3> DEFINE r == [call[c] EXCEPT !.pc = step]
      <3>2. /\ call' = [call EXCEPT ![c] = r] /\ r.pc = step
            /\ r.user = call[c].user /\ r.then = call[c].then
        BY <1>0, <3>1 DEF Call
      <3>3. call[c].pc \in {"cancelZrem", "cancelHdel"}
        BY <1>1 DEF CancelPool, CancelTicket, CancelMisses
      <3> HIDE DEF r
      <3>4. \A u \in Users : Errand(r, u) => Errand(call[c], u)
        BY <3>1, <3>2, <3>3 DEF Errand, Joining, Guarded
      <3> QED
        BY <2>1, <3>2, <3>4, SameErrands
    <2> QED
      BY <2>2, <2>3
  <1>2. CASE BotRoom(c)
    BY <1>2, DoneErrands, TellKeepsBusy DEF BotRoom
  <1>3. CASE \E u \in Users : CancelMatch(c, u) \/ TimerFires(c, u) \/ TimerMisses(c, u)
    <2>1. PICK u \in Users : CancelMatch(c, u) \/ TimerFires(c, u) \/ TimerMisses(c, u)
      BY <1>3
    <2>2. \A v \in Users : client[v] \in Busy => client'[v] \in Busy
      BY <2>1 DEF CancelMatch, TimerFires, TimerMisses, Tell, Busy
    <2>3. CASE Start(c, u, "cancelZrem")
      <3> DEFINE r == [Idle EXCEPT !.pc = "cancelZrem", !.user = u]
      <3>1. r.pc = "cancelZrem" /\ r.then = "idle" /\ call' = [call EXCEPT ![c] = r]
        BY <2>3 DEF Idle
      <3> HIDE DEF r
      <3>2. \A v \in Users : ~Errand(r, v)
        BY <3>1 DEF Errand, Joining, Guarded
      <3> QED
        BY <2>2, <3>1, <3>2, SameErrands
    <2>4. CASE UNCHANGED call
      BY <2>2, <2>4 DEF OneErrand
    <2> QED
      BY <2>1, <2>3, <2>4 DEF CancelMatch, TimerFires, TimerMisses
  <1> QED
    BY <1>1, <1>2, <1>3

LEMMA EndErrands ==
    ASSUME Typed, OneErrand, NEW c \in Calls,
           EnterPool(c) \/ WaitLocal(c) \/ LocalFault(c) \/ BotFault(c)
    PROVE  OneErrand'
  <1> DEFINE u == call[c].user
  <1>1. u \in Users
    BY DEF EnterPool, WaitLocal, LocalFault, BotFault, Typed, CallsKnown, Sound
  <1>2. Done(c) /\ \A v \in Users \ {u} : client'[v] = client[v]
    BY DEF EnterPool, WaitLocal, Wait, LocalFault, BotFault, Typed, TypeOK
  <1>3. Errand(call[c], u)
    BY DEF EnterPool, WaitLocal, LocalFault, BotFault, Errand, Joining, Guarded
  <1> QED
    BY <1>1, <1>2, <1>3, ErrandEnds

\* A step of call c that puts nobody into the pool.
LEMMA StayAway ==
    ASSUME Typed, SearchersAway, NEW c \in Calls, NEW r, call' = [call EXCEPT ![c] = r],
           pool' \subseteq pool,
           r.pc \in Away => r.user \notin pool'
    PROVE  SearchersAway'
  <1>1. \A d \in Calls : call'[d] = IF d = c THEN r ELSE call[d]
    BY DEF Typed, CallsKnown
  <1> QED
    BY <1>1 DEF SearchersAway

LEMMA AwayGoto ==
    ASSUME Typed, SearchersAway, NEW c \in Calls, NEW step, Goto(c, step),
           pool' \subseteq pool,
           step \in Away => call[c].pc \in Away \/ call[c].user \notin pool'
    PROVE  SearchersAway'
  <1> DEFINE r == [call[c] EXCEPT !.pc = step]
  <1>1. call' = [call EXCEPT ![c] = r] /\ r.user = call[c].user /\ r.pc = step
    BY DEF Typed, CallsKnown, Call
  <1> HIDE DEF r
  <1>2. r.pc \in Away => r.user \notin pool'
    BY <1>1 DEF SearchersAway
  <1> QED
    BY <1>1, <1>2, StayAway

LEMMA AwayRests ==
    ASSUME Typed, SearchersAway, NEW c \in Calls,
           NEW step \in {"idle", "local", "zrem", "cancelZrem"}, NEW r,
           call' = [call EXCEPT ![c] = r], r.pc = step, pool' \subseteq pool
    PROVE  SearchersAway'
  <1>1. step \notin Away
    BY DEF Away
  <1> QED
    BY <1>1, StayAway

\* What the other searchers need: nobody else enters the pool for them.
LEMMA EnterAway ==
    ASSUME Typed, OneErrand, SearchersAway, NEW c \in Calls, NEW r,
           call' = [call EXCEPT ![c] = r], r.pc \notin Away,
           call[c].pc = "zadd", pool' = pool \cup {call[c].user}
    PROVE  SearchersAway'
  <1> DEFINE u == call[c].user
  <1>1. u \in Users /\ Errand(call[c], u)
    BY DEF Typed, CallsKnown, Sound, Errand, Joining, Guarded
  <1>2. \A d \in Calls : call'[d] = IF d = c THEN r ELSE call[d]
    BY DEF Typed, CallsKnown
  <1>3. ASSUME NEW d \in Calls \ {c}, call[d].pc \in Away PROVE call[d].user # u
    <2>1. Errand(call[d], call[d].user)
      BY <1>3 DEF Errand, Joining, Guarded, Away
    <2> QED
      BY <1>1, <2>1 DEF OneErrand
  <1> QED
    BY <1>2, <1>3 DEF SearchersAway

LEMMA StepAway ==
    ASSUME Typed, OneErrand, SearchersAway, NEW c \in Calls,
           \/ \E u \in Users : \/ FindMatch(c, u) \/ CancelMatch(c, u) \/ PlayBot(c, u)
                               \/ TimerFires(c, u) \/ TimerMisses(c, u)
           \/ Continue(c) \/ Fails(c)
    PROVE  SearchersAway'
  <1>0. call[c] \in Call
    BY DEF Typed, CallsKnown
  <1>1. CASE \/ LeavePool(c) \/ DropTicket(c) \/ NoCandidate(c) \/ CreateRoom(c)
             \/ SeatJoiner(c) \/ SaveTicket(c) \/ CancelPool(c)
    <2>1. CASE LeavePool(c) \/ DropTicket(c) \/ NoCandidate(c) \/ SaveTicket(c)
      BY <2>1, AwayGoto DEF LeavePool, DropTicket, NoCandidate, SaveTicket, Away
    <2>2. CASE CreateRoom(c) \/ SeatJoiner(c)
      <3>1. PICK step \in {"seat", "seatLocal", "publish", "announce"} :
              Goto(c, step) /\ pool' = pool
        BY <2>2 DEF CreateRoom, SeatJoiner
      <3>2. step \notin Away
        BY DEF Away
      <3> QED
        BY <3>1, <3>2, AwayGoto
    <2>3. CASE CancelPool(c)
      <3>1. Goto(c, "cancelHdel") /\ pool' \subseteq pool
        BY <2>3 DEF CancelPool
      <3>2. "cancelHdel" \notin Away
        BY DEF Away
      <3> QED
        BY <3>1, <3>2, AwayGoto
    <2> QED
      BY <1>1, <2>1, <2>2, <2>3
  <1>2. CASE ListCandidates(c) \/ Claim(c)
    <2> DEFINE listed == [call[c] EXCEPT !.pc = "scan", !.cands = pool \ {call[c].user}]
               won == [call[c] EXCEPT !.pc = "create", !.cands = {}]
               lost == [call[c] EXCEPT !.pc = "scan", !.cand = NoUser]
    <2>1. /\ listed.user = call[c].user
          /\ won.pc = "create"
          /\ lost.user = call[c].user
      BY <1>0 DEF Call
    <2>2. call[c].user \notin pool
      BY <1>2 DEF ListCandidates, Claim, SearchersAway, Away
    <2>3. /\ \/ call' = [call EXCEPT ![c] = listed]
             \/ call' = [call EXCEPT ![c] = won]
             \/ call' = [call EXCEPT ![c] = lost]
          /\ pool' \subseteq pool
      BY <1>2 DEF ListCandidates, Claim
    <2> HIDE DEF listed, won, lost
    <2>4. "create" \notin Away
      BY DEF Away
    <2> QED
      BY <2>1, <2>2, <2>3, <2>4, StayAway
  <1>3. CASE Inspect(c)
    <2>1. PICK v \in call[c].cands :
             \/ call' = [call EXCEPT ![c].pc = "claim", ![c].cand = v, ![c].cands = @ \ {v}]
             \/ call' = [call EXCEPT ![c].cands = @ \ {v}]
      BY <1>3 DEF Inspect
    <2> DEFINE taken == [call[c] EXCEPT !.pc = "claim", !.cand = v, !.cands = @ \ {v}]
               passed == [call[c] EXCEPT !.cands = @ \ {v}]
    <2>2. taken.user = call[c].user /\ passed.user = call[c].user
      BY <1>0 DEF Call
    <2>3. /\ call' = [call EXCEPT ![c] = taken] \/ call' = [call EXCEPT ![c] = passed]
          /\ pool' = pool
      BY <1>3, <2>1 DEF Inspect
    <2>4. call[c].user \notin pool
      BY <1>3 DEF Inspect, SearchersAway, Away
    <2> HIDE DEF taken, passed
    <2> QED
      BY <2>2, <2>3, <2>4, StayAway
  <1>4. CASE MatchLocal(c)
    <2>1. PICK v \in local : call' = [call EXCEPT ![c].pc = "createLocal", ![c].cand = v]
      BY <1>4 DEF MatchLocal
    <2> DEFINE r == [call[c] EXCEPT !.pc = "createLocal", !.cand = v]
    <2>2. r.pc = "createLocal"
      BY <1>0 DEF Call
    <2>3. call' = [call EXCEPT ![c] = r] /\ pool' = pool
      BY <1>4, <2>1 DEF MatchLocal
    <2> HIDE DEF r
    <2>4. "createLocal" \notin Away
      BY DEF Away
    <2> QED
      BY <2>2, <2>3, <2>4, StayAway
  <1>5. CASE \/ Announce(c) \/ BotRoom(c) \/ WaitLocal(c) \/ LocalFault(c) \/ BotFault(c)
    <2>1. call' = [call EXCEPT ![c] = Idle] /\ pool' = pool /\ Idle.pc = "idle"
      BY <1>5 DEF Announce, BotRoom, WaitLocal, LocalFault, BotFault, Idle
    <2> QED
      BY <2>1, AwayRests
  <1>6. CASE CancelTicket(c) \/ CancelMisses(c)
    <2>1. CancelLocal(c) /\ pool' = pool
      BY <1>6 DEF CancelTicket, CancelMisses
    <2>2. CASE Done(c)
      <3>1. call' = [call EXCEPT ![c] = Idle] /\ Idle.pc = "idle"
        BY <2>2 DEF Idle
      <3> QED
        BY <2>1, <3>1, AwayRests
    <2>3. CASE Goto(c, "botRoom")
      <3>1. "botRoom" \notin Away
        BY DEF Away
      <3> QED
        BY <2>1, <2>3, <3>1, AwayGoto
    <2> QED
      BY <2>1, <2>2, <2>3 DEF CancelLocal
  <1>7. CASE EnterPool(c)
    <2>1. call' = [call EXCEPT ![c] = Idle] /\ Idle.pc \notin Away
      BY <1>7 DEF EnterPool, Idle, Away
    <2> QED
      BY <1>7, <2>1, EnterAway DEF EnterPool
  <1>8. CASE WithoutRedis(c) \/ Fault(c) \/ LostReply(c)
    <2> DEFINE r == [Idle EXCEPT !.pc = "local", !.user = call[c].user]
    <2>1. call' = [call EXCEPT ![c] = r]
      BY <1>8 DEF WithoutRedis, Fault, LostReply
    <2>2. r.pc = "local"
      BY DEF Idle
    <2> HIDE DEF r
    <2>3. CASE pool' = pool
      BY <2>1, <2>2, <2>3, AwayRests
    <2>4. CASE pool' # pool
      <3>1. call[c].pc = "zadd" /\ pool' = pool \cup {call[c].user}
        BY <1>8, <2>4 DEF WithoutRedis, Fault, LostReply
      <3>2. r.pc \notin Away
        BY <2>2 DEF Away
      <3> QED
        BY <2>1, <3>1, <3>2, EnterAway
    <2> QED
      BY <2>3, <2>4
  <1>9. CASE \E u \in Users : \/ FindMatch(c, u) \/ CancelMatch(c, u) \/ PlayBot(c, u)
                             \/ TimerFires(c, u) \/ TimerMisses(c, u)
    <2>1. PICK u \in Users : \/ FindMatch(c, u) \/ CancelMatch(c, u) \/ PlayBot(c, u)
                             \/ TimerFires(c, u) \/ TimerMisses(c, u)
      BY <1>9
    <2> DEFINE find == [Idle EXCEPT !.pc = "zrem", !.user = u]
               leave == [Idle EXCEPT !.pc = "cancelZrem", !.user = u]
               bot == [Idle EXCEPT !.pc = "cancelZrem", !.user = u, !.then = "botRoom"]
    <2>2. find.pc = "zrem" /\ leave.pc = "cancelZrem" /\ bot.pc = "cancelZrem"
      BY DEF Idle
    <2>3. /\ pool' = pool
          /\ \/ call' = [call EXCEPT ![c] = find]
             \/ call' = [call EXCEPT ![c] = leave]
             \/ call' = [call EXCEPT ![c] = bot]
             \/ call' = call
      BY <2>1 DEF FindMatch, CancelMatch, PlayBot, TimerFires, TimerMisses
    <2> HIDE DEF find, leave, bot
    <2>4. CASE call' = call
      BY <2>3, <2>4 DEF SearchersAway
    <2>5. CASE call' # call
      BY <2>2, <2>3, <2>5, AwayRests
    <2> QED
      BY <2>4, <2>5
  <1> QED
    BY <1>1, <1>2, <1>3, <1>4, <1>5, <1>6, <1>7, <1>8, <1>9 DEF Continue, Fails

\* A step that shows no new entry, takes no timer and keeps the cancellations of
\* whoever is still in the pool.
LEMMA StayWatched ==
    ASSUME Typed, EntriesAreWatched, NEW c \in Calls,
           pool' \cap tickets' \subseteq pool \cap tickets,
           \A u \in Users : timers[u] > 0 => timers'[u] > 0,
           missed => missed',
           \A d \in Calls \ {c} : call'[d] = call[d],
           call[c].pc = "cancelZrem" => call[c].user \notin pool'
    PROVE  EntriesAreWatched'
  <1> SUFFICES ASSUME NEW u \in pool' \cap tickets' PROVE Watched(u)'
    BY DEF EntriesAreWatched, Watched
  <1>1. u \in Users /\ Watched(u)
    BY DEF EntriesAreWatched, Watched, Typed, TypeOK
  <1>2. CASE \E d \in Calls : At(d, "cancelZrem") /\ call[d].user = u
    BY <1>2 DEF Watched
  <1>3. CASE timers[u] > 0 \/ missed
    BY <1>1, <1>3 DEF Watched
  <1> QED
    BY <1>1, <1>2, <1>3 DEF Watched

\* Only call c moves.
LEMMA OthersStay ==
    ASSUME Typed, NEW c \in Calls, NEW r, call' = [call EXCEPT ![c] = r]
    PROVE  \A d \in Calls \ {c} : call'[d] = call[d]
  BY DEF Typed, CallsKnown

LEMMA StepMovesOne ==
    ASSUME Typed, NEW c \in Calls,
           \/ \E u \in Users : \/ FindMatch(c, u) \/ CancelMatch(c, u) \/ PlayBot(c, u)
                               \/ TimerFires(c, u) \/ TimerMisses(c, u)
           \/ Continue(c) \/ Fails(c)
    PROVE  \A d \in Calls \ {c} : call'[d] = call[d]
  <1>1. ASSUME NEW step, Goto(c, step)
        PROVE  \A d \in Calls \ {c} : call'[d] = call[d]
    BY <1>1 DEF Typed, CallsKnown
  <1>2. ASSUME Done(c)
        PROVE  \A d \in Calls \ {c} : call'[d] = call[d]
    BY <1>2, OthersStay
  <1>3. CASE \/ LeavePool(c) \/ DropTicket(c) \/ NoCandidate(c) \/ CreateRoom(c)
             \/ SeatJoiner(c) \/ SaveTicket(c) \/ CancelPool(c)
    BY <1>1, <1>3
       DEF LeavePool, DropTicket, NoCandidate, CreateRoom, SeatJoiner, SaveTicket, CancelPool
  <1>4. CASE \/ Announce(c) \/ BotRoom(c) \/ EnterPool(c) \/ WaitLocal(c) \/ LocalFault(c)
             \/ BotFault(c)
    BY <1>2, <1>4 DEF Announce, BotRoom, EnterPool, WaitLocal, LocalFault, BotFault
  <1>5. CASE CancelTicket(c) \/ CancelMisses(c)
    BY <1>1, <1>2, <1>5 DEF CancelTicket, CancelMisses, CancelLocal
  <1>6. CASE WithoutRedis(c) \/ Fault(c) \/ LostReply(c)
    BY <1>6, OthersStay DEF WithoutRedis, Fault, LostReply
  <1>7. CASE ListCandidates(c) \/ Inspect(c) \/ Claim(c) \/ MatchLocal(c)
    BY <1>7 DEF ListCandidates, Inspect, Claim, MatchLocal, Typed, CallsKnown
  <1>8. CASE \E u \in Users : \/ FindMatch(c, u) \/ CancelMatch(c, u) \/ PlayBot(c, u)
                             \/ TimerFires(c, u) \/ TimerMisses(c, u)
    BY <1>8, OthersStay DEF FindMatch, CancelMatch, PlayBot, TimerFires, TimerMisses
  <1> QED
    BY <1>3, <1>4, <1>5, <1>6, <1>7, <1>8 DEF Continue, Fails

(* Steps that neither show an entry nor take a timer or a cancellation.    *)
LEMMA QuietWatched ==
    ASSUME Typed, SearchersAway, EntriesAreWatched, NEW c \in Calls,
           \/ \E u \in Users : FindMatch(c, u) \/ CancelMatch(c, u) \/ PlayBot(c, u)
           \/ LeavePool(c) \/ WithoutRedis(c) \/ DropTicket(c) \/ ListCandidates(c)
           \/ Inspect(c) \/ NoCandidate(c) \/ Claim(c) \/ CreateRoom(c) \/ SeatJoiner(c)
           \/ Announce(c) \/ SaveTicket(c) \/ MatchLocal(c) \/ WaitLocal(c)
           \/ CancelPool(c) \/ CancelTicket(c) \/ BotRoom(c)
           \/ Fault(c) \/ LocalFault(c) \/ BotFault(c)
    PROVE  EntriesAreWatched'
  <1>1. \A d \in Calls \ {c} : call'[d] = call[d]
    BY StepMovesOne DEF Continue, Fails
  <1>2. missed' = missed
    BY DEF FindMatch, CancelMatch, PlayBot, LeavePool, WithoutRedis, DropTicket,
           ListCandidates, Inspect, NoCandidate, Claim, CreateRoom, SeatJoiner, Announce,
           SaveTicket, MatchLocal, WaitLocal, CancelPool, CancelTicket, BotRoom, Fault,
           LocalFault, BotFault
  <1>3. \A u \in Users : timers[u] > 0 => timers'[u] > 0
    <2>1. CASE WaitLocal(c)
      BY <2>1 DEF WaitLocal, Wait, Count, Typed, TypeOK
    <2>2. CASE ~WaitLocal(c)
      BY <2>2 DEF FindMatch, CancelMatch, PlayBot, LeavePool, WithoutRedis, DropTicket,
                  ListCandidates, Inspect, NoCandidate, Claim, CreateRoom, SeatJoiner,
                  Announce, SaveTicket, MatchLocal, CancelPool, CancelTicket, BotRoom,
                  Fault, LocalFault, BotFault
    <2> QED
      BY <2>1, <2>2
  <1>4. pool' \cap tickets' \subseteq pool \cap tickets
    <2>1. CASE SaveTicket(c)
      BY <2>1 DEF SaveTicket, SearchersAway, Away
    <2>2. CASE ~SaveTicket(c)
      BY <2>2 DEF FindMatch, CancelMatch, PlayBot, LeavePool, WithoutRedis, DropTicket,
                  ListCandidates, Inspect, NoCandidate, Claim, CreateRoom, SeatJoiner,
                  Announce, MatchLocal, WaitLocal, CancelPool, CancelTicket, BotRoom,
                  Fault, LocalFault, BotFault
    <2> QED
      BY <2>1, <2>2
  <1>5. call[c].pc = "cancelZrem" => call[c].user \notin pool'
    BY DEF FindMatch, CancelMatch, PlayBot, LeavePool, WithoutRedis, DropTicket,
           ListCandidates, Inspect, NoCandidate, Claim, CreateRoom, SeatJoiner, Announce,
           SaveTicket, MatchLocal, WaitLocal, CancelPool, CancelTicket, BotRoom, Fault,
           LocalFault, BotFault, Guarded
  <1> QED
    BY <1>1, <1>2, <1>3, <1>4, <1>5, StayWatched

(* The timer of a wait is set in the same step in which its entry appears. *)
LEMMA EnterWatched ==
    ASSUME Typed, EntriesAreWatched, NEW c \in Calls, EnterPool(c)
    PROVE  EntriesAreWatched'
  <1> DEFINE w == call[c].user
  <1>1. /\ w \in Users /\ pool' = pool \cup {w} /\ tickets' = tickets
        /\ timers' = [timers EXCEPT ![w] = @ + 1] /\ missed' = missed
        /\ call[c].pc = "zadd"
    BY DEF EnterPool, Wait, Count, Typed, CallsKnown, Sound
  <1>2. \A d \in Calls \ {c} : call'[d] = call[d]
    BY StepMovesOne DEF Continue
  <1> HIDE DEF w
  <1> SUFFICES ASSUME NEW u \in pool' \cap tickets' PROVE Watched(u)'
    BY DEF EntriesAreWatched, Watched
  <1>3. CASE u = w
    BY <1>1, <1>3 DEF Watched, Typed, TypeOK
  <1>4. CASE u # w
    <2>1. Watched(u) /\ u \in Users /\ timers'[u] = timers[u]
      BY <1>1, <1>4 DEF EntriesAreWatched, Watched, Typed, TypeOK
    <2> QED
      BY <1>1, <1>2, <2>1 DEF Watched
  <1> QED
    BY <1>3, <1>4

(* A timer that fires starts the cancellation of what can be claimed.      *)
LEMMA TimerWatched ==
    ASSUME Typed, EntriesAreWatched, NEW c \in Calls, NEW w \in Users, TimerFires(c, w)
    PROVE  EntriesAreWatched'
  <1>1. /\ pool' = pool /\ tickets' = tickets /\ missed' = missed
        /\ \A u \in Users \ {w} : timers'[u] = timers[u]
    BY DEF TimerFires, Typed, TypeOK
  <1>2. \A d \in Calls \ {c} : call'[d] = call[d]
    BY StepMovesOne
  <1>3. call[c].pc = "idle" \/ call' = call
    BY DEF TimerFires
  <1> SUFFICES ASSUME NEW u \in pool' \cap tickets' PROVE Watched(u)'
    BY DEF EntriesAreWatched, Watched
  <1>4. CASE u = w
    <2> DEFINE r == [Idle EXCEPT !.pc = "cancelZrem", !.user = w]
    <2>1. call' = [call EXCEPT ![c] = r]
      BY <1>1, <1>4 DEF TimerFires, IsQueued
    <2>2. r.pc = "cancelZrem" /\ r.user = w
      BY DEF Idle
    <2>3. call'[c] = r
      BY <2>1 DEF Typed, CallsKnown
    <2> HIDE DEF r
    <2> QED
      BY <1>4, <2>2, <2>3 DEF Watched
  <1>5. CASE u # w
    <2>1. Watched(u) /\ u \in Users
      BY <1>1 DEF EntriesAreWatched, Watched, Typed, TypeOK
    <2> QED
      BY <1>1, <1>2, <1>3, <1>5, <2>1 DEF Watched
  <1> QED
    BY <1>4, <1>5

\* What an error leaves behind, and what changes nothing of the queue.
LEMMA OtherWatched ==
    ASSUME Typed, EntriesAreWatched,
           \/ \E c \in Calls : \/ CancelMisses(c) \/ LostReply(c)
                               \/ \E u \in Users : TimerMisses(c, u)
           \/ RedisReady \/ RedisError
    PROVE  EntriesAreWatched'
  <1>1. CASE missed' = TRUE
    BY <1>1 DEF EntriesAreWatched
  <1>2. CASE \E c \in Calls : LostReply(c) /\ call[c].pc = "publish"
    <2>1. PICK c \in Calls : LostReply(c) /\ call[c].pc = "publish"
      BY <1>2
    <2>2. \A d \in Calls \ {c} : call'[d] = call[d]
      BY <2>1, StepMovesOne DEF Fails
    <2>3. UNCHANGED <<pool, tickets, timers, missed>>
      BY <2>1 DEF LostReply
    <2> QED
      BY <2>1, <2>2, <2>3, StayWatched
  <1>3. CASE RedisReady \/ RedisError
    BY <1>3 DEF RedisReady, RedisError, EntriesAreWatched
  <1> QED
    BY <1>1, <1>2, <1>3 DEF CancelMisses, LostReply, TimerMisses

(* An entry of the pool that can be claimed has a timer pending, or its    *)
(* cancellation on the way, whatever calls of one player or of several     *)
(* overlap: timers are never cleared, and the one step that could show an  *)
(* old entry again, saving a ticket, is taken by a searcher who has left   *)
(* the pool and whom nobody else serves.  Errors are the exception.        *)
THEOREM EveryEntryIsWatched == Spec => []EntriesAreWatched
  <1> DEFINE IInv == Typed /\ OneErrand /\ SearchersAway /\ EntriesAreWatched
  <1>1. Init => IInv
    BY InitTyped, InitWatched
  <1>2. IInv /\ [Next]_vars => IInv'
    <2> SUFFICES ASSUME IInv, [Next]_vars
                 PROVE  OneErrand' /\ SearchersAway' /\ EntriesAreWatched'
      BY StepTyped
    <2>1. ASSUME NEW c \in Calls,
                 \/ \E u \in Users : \/ FindMatch(c, u) \/ CancelMatch(c, u)
                                     \/ PlayBot(c, u) \/ TimerFires(c, u)
                                     \/ TimerMisses(c, u)
                 \/ Continue(c) \/ Fails(c)
          PROVE  OneErrand' /\ SearchersAway' /\ EntriesAreWatched'
      <3>1. OneErrand'
        BY <2>1, JoinErrands, ErrandBegins, CancelErrands, EndErrands DEF Continue, Fails
      <3>2. SearchersAway'
        BY <2>1, StepAway
      <3>3. EntriesAreWatched'
        BY <2>1, QuietWatched, EnterWatched, TimerWatched, OtherWatched DEF Continue, Fails
      <3> QED
        BY <3>1, <3>2, <3>3
    <2>2. CASE RedisReady \/ RedisError
      BY <2>2, OtherWatched DEF RedisReady, RedisError, OneErrand, SearchersAway
    <2>3. CASE UNCHANGED vars
      BY <2>3 DEF vars, OneErrand, SearchersAway, EntriesAreWatched
    <2> QED
      BY <2>1, <2>2, <2>3 DEF Next
  <1>3. IInv => EntriesAreWatched
    OBVIOUS
  <1> QED
    BY <1>1, <1>2, <1>3, PTL DEF Spec
=============================================================================
