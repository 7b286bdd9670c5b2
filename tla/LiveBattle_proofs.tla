-------------------------- MODULE LiveBattle_proofs --------------------------
(* Proofs about LiveBattle, for any number of players, problems and calls. *)
(* However calls overlap, repeat and die: types, no checkpoint the server  *)
(* held is lost before the result is announced, only contested battles are *)
(* rated, and an announced winner has solved everything.  Where calls do   *)
(* not overlap and all go through the idempotency guard: ratings move once *)
(* and solvers are ranked first, what racing calls do break.               *)
EXTENDS MCLiveBattle, FiniteSetTheorems, TLAPS

USE DEF Goto, At, Set, Done, redisVars, pgVars, envVars, history

-----------------------------------------------------------------------------
(* Shapes                                                                  *)

\* Who evaluates an answer knows whose and to what; only loops count.
Shape ==
    {r \in Call :
        /\ r.pc \in {"evalRead", "evalWrite"} => r.player \in Players /\ r.problem \in Problems
        /\ r.pc \notin {"migrate", "rank", "rate"} => r.k = 1}

Shaped == proc \in [Actors -> Shape]

Typed == TypeOK /\ Shaped

\* Only the call of a moves.
Aside(a) == \A b \in Actors \ {a} : proc'[b] = proc[b]

\* ... and what the call is about stays.
Keeps(a) ==
    /\ proc'[a].kind = proc[a].kind
    /\ proc'[a].player = proc[a].player /\ proc'[a].problem = proc[a].problem
    /\ proc'[a].winner = proc[a].winner /\ proc'[a].forfeit = proc[a].forfeit

\* ... and so does what it has computed.
Holds(a) ==
    /\ proc'[a].order = proc[a].order /\ proc'[a].elo = proc[a].elo

LEMMA SomePlayers ==
    /\ N \in Nat /\ 1 \in Players /\ 2 \in Players /\ N \in Players
    /\ Players \subseteq Nat /\ Nobody \notin Players
  BY LiveAssumption DEF LiveAssumption, Players, Nobody

LEMMA GoneTyped ==
    /\ Gone \in Document /\ Gone.status = "GONE"
    /\ \A p \in Players : Gone.solved[p] = {}
  BY DEF Gone, Document, NoSolves

LEMMA IdleShaped ==
    /\ Idle \in Shape
    /\ Idle.pc = "idle" /\ Idle.k = 1 /\ Idle.kind = "service" /\ Idle.snap = Gone
    /\ Idle.winner = Nobody /\ Idle.forfeit = Nobody /\ Idle.elo = FALSE
  BY GoneTyped, SomePlayers DEF Idle, Shape, Call, Players

LEMMA CallTyped ==
    ASSUME Shaped, NEW a \in Actors
    PROVE  /\ proc[a] \in Shape /\ proc[a] \in Call
           /\ proc[a].kind \in {"service", "bare", "direct"}
           /\ proc[a].player \in Players \cup {Nobody}
           /\ proc[a].problem \in Problems \cup {Nobody}
           /\ proc[a].winner \in Players \cup {Nobody}
           /\ proc[a].forfeit \in Players \cup {Nobody}
           /\ proc[a].snap \in Document
           /\ proc[a].order \in [Players -> Players]
           /\ proc[a].elo \in BOOLEAN
           /\ proc[a].k \in Players
           /\ proc[a].pc \in {"evalRead", "evalWrite"}
                => proc[a].player \in Players /\ proc[a].problem \in Problems
           /\ proc[a].pc \notin {"migrate", "rank", "rate"} => proc[a].k = 1
  <1>1. proc[a] \in Shape
    BY DEF Shaped
  <1>2. proc[a] \in Call
    BY <1>1 DEF Shape
  <1> QED
    BY <1>1, <1>2 DEF Shape, Call, Players

(* A step that gives one call a record of its shape keeps the shapes.      *)
LEMMA ShapeStep ==
    ASSUME Shaped, NEW a \in Actors, NEW r \in Shape, proc' = [proc EXCEPT ![a] = r]
    PROVE  Shaped' /\ Aside(a) /\ proc'[a] = r
  BY DEF Shaped, Aside

LEMMA DoneStep ==
    ASSUME Shaped, NEW a \in Actors, Done(a)
    PROVE  Shaped' /\ Aside(a) /\ proc'[a] = Idle
  BY IdleShaped, ShapeStep

LEMMA GotoStep ==
    ASSUME Shaped, NEW a \in Actors, NEW step \in {"migrate", "evict", "drop", "publish"},
           Goto(a, step), proc[a].pc \notin {"migrate", "rank", "rate"}
    PROVE  /\ Shaped' /\ Aside(a) /\ Keeps(a) /\ Holds(a)
           /\ proc'[a].pc = step /\ proc'[a].snap = proc[a].snap
           /\ proc[a].k = 1 /\ proc'[a].k = 1
  <1> DEFINE r == [proc[a] EXCEPT !.pc = step]
  <1>1. proc[a] \in Call /\ proc[a].k = 1
    BY CallTyped
  <1>2. r \in Call /\ r.pc = step
    BY <1>1 DEF Call
  <1>3. /\ r.k = proc[a].k /\ r.kind = proc[a].kind /\ r.player = proc[a].player
        /\ r.problem = proc[a].problem /\ r.winner = proc[a].winner
        /\ r.forfeit = proc[a].forfeit /\ r.elo = proc[a].elo /\ r.snap = proc[a].snap
        /\ r.order = proc[a].order
    BY <1>1 DEF Call
  <1>4. proc' = [proc EXCEPT ![a] = r]
    BY DEF Shaped
  <1> HIDE DEF r
  <1>5. r \in Shape
    BY <1>1, <1>2, <1>3 DEF Shape
  <1>6. Shaped' /\ Aside(a) /\ proc'[a] = r
    BY <1>4, <1>5, ShapeStep
  <1> QED
    BY <1>1, <1>2, <1>3, <1>6 DEF Keeps, Holds

(* A loop over the players goes on to the next or leaves for what follows. *)
LEMMA LoopStep ==
    ASSUME Shaped, NEW a \in Actors, NEW after \in {"order", "evict", "rate", "close"},
           Loop(a, after), proc[a].pc \in {"migrate", "rank", "rate"}
    PROVE  /\ Shaped' /\ Aside(a) /\ Keeps(a) /\ Holds(a)
           /\ proc'[a].snap = proc[a].snap
           /\ proc[a].k \in Players
           /\ \/ /\ proc[a].k < N /\ proc'[a].k = proc[a].k + 1
                 /\ proc'[a].pc = proc[a].pc
              \/ proc[a].k = N /\ proc'[a].k = 1 /\ proc'[a].pc = after
  <1>1. proc[a] \in Call /\ proc[a].k \in Players
    BY CallTyped
  <1>2. N \in Nat /\ N >= 1
    BY SomePlayers DEF Players
  <1> DEFINE more == [proc[a] EXCEPT !.k = @ + 1]
             over == [proc[a] EXCEPT !.k = 1, !.pc = after]
  <1>3. CASE proc[a].k < N
    <2>1. more \in Call
      BY <1>1, <1>2, <1>3 DEF Call, Players
    <2>2. /\ more.k = proc[a].k + 1 /\ more.pc = proc[a].pc /\ more.kind = proc[a].kind
          /\ more.player = proc[a].player /\ more.problem = proc[a].problem
          /\ more.winner = proc[a].winner /\ more.forfeit = proc[a].forfeit
          /\ more.elo = proc[a].elo /\ more.snap = proc[a].snap
          /\ more.order = proc[a].order
      BY <1>1 DEF Call
    <2>3. proc' = [proc EXCEPT ![a] = more]
      BY <1>3 DEF Loop, Shaped
    <2> HIDE DEF more
    <2>4. more \in Shape
      BY <2>1, <2>2 DEF Shape
    <2>5. Shaped' /\ Aside(a) /\ proc'[a] = more
      BY <2>3, <2>4, ShapeStep
    <2> QED
      BY <1>1, <1>3, <2>2, <2>5 DEF Keeps, Holds
  <1>4. CASE ~(proc[a].k < N)
    <2>1. over \in Call
      <3>1. 1 \in 1 .. N
        BY <1>2
      <3> QED
        BY <1>1, <3>1 DEF Call
    <2>2. /\ over.k = 1 /\ over.pc = after /\ over.kind = proc[a].kind
          /\ over.player = proc[a].player /\ over.problem = proc[a].problem
          /\ over.winner = proc[a].winner /\ over.forfeit = proc[a].forfeit
          /\ over.elo = proc[a].elo /\ over.snap = proc[a].snap
          /\ over.order = proc[a].order
      BY <1>1 DEF Call
    <2>3. proc' = [proc EXCEPT ![a] = over]
      BY <1>4 DEF Loop, Shaped
    <2> HIDE DEF over
    <2>4. over \in Shape
      BY <2>1, <2>2 DEF Shape
    <2>5. Shaped' /\ Aside(a) /\ proc'[a] = over
      BY <2>3, <2>4, ShapeStep
    <2>6. proc[a].k = N
      BY <1>1, <1>2, <1>4 DEF Players
    <2> QED
      BY <1>1, <2>2, <2>5, <2>6 DEF Keeps, Holds
  <1> QED
    BY <1>3, <1>4

-----------------------------------------------------------------------------
(* What each step does to its call                                         *)

\* A call that has just arrived: its loops start at the first player.
Fresh(a) ==
    /\ proc'[a].pc \in {"evalRead", "evalWrite", "finRead", "leaveWrite", "order"}
    /\ proc'[a].pc = "order" <=> proc'[a].kind = "direct"
    /\ proc'[a].k = 1
    /\ proc'[a].elo = FALSE

LEMMA SubmitShape ==
    ASSUME Typed, NEW a \in Actors, NEW p \in Players, NEW q \in Problems, Submit(a, p, q)
    PROVE  /\ Shaped' /\ Aside(a) /\ Fresh(a)
           /\ proc'[a].pc = "evalWrite" /\ proc'[a].snap = redis
           /\ proc'[a].player = p /\ proc'[a].problem = q
           /\ proc'[a].winner = Nobody /\ proc'[a].forfeit = Nobody
  <1> DEFINE r == [Idle EXCEPT !.pc = "evalWrite", !.player = p, !.problem = q, !.snap = redis]
  <1>1. Idle \in Call /\ redis \in Document
    BY IdleShaped DEF Shape, Typed, TypeOK
  <1>2. r \in Call
    BY <1>1 DEF Call
  <1>3. /\ r.pc = "evalWrite" /\ r.snap = redis /\ r.player = p /\ r.problem = q
        /\ r.k = 1 /\ r.kind = "service" /\ r.elo = FALSE
        /\ r.winner = Nobody /\ r.forfeit = Nobody
    BY <1>1, IdleShaped DEF Call
  <1>4. proc' = [proc EXCEPT ![a] = r]
    BY DEF Submit
  <1> HIDE DEF r
  <1>5. r \in Shape
    BY <1>2, <1>3 DEF Shape
  <1>6. Shaped' /\ Aside(a) /\ proc'[a] = r
    BY <1>4, <1>5, ShapeStep DEF Typed
  <1> QED
    BY <1>3, <1>6 DEF Fresh

LEMMA WorkerShape ==
    ASSUME Typed, NEW a \in Actors, NEW p \in Players, NEW q \in Problems,
           WorkerVerdict(a, p, q)
    PROVE  /\ Shaped' /\ Aside(a) /\ Fresh(a)
           /\ proc'[a].pc = "evalRead" /\ proc'[a].snap = Gone
           /\ proc'[a].player = p /\ proc'[a].problem = q
           /\ proc'[a].winner = Nobody /\ proc'[a].forfeit = Nobody
  <1> DEFINE r == [Idle EXCEPT !.pc = "evalRead", !.kind = "bare", !.player = p, !.problem = q]
  <1>1. Idle \in Call
    BY IdleShaped DEF Shape
  <1>2. r \in Call
    BY <1>1 DEF Call
  <1>3. /\ r.pc = "evalRead" /\ r.snap = Gone /\ r.player = p /\ r.problem = q
        /\ r.k = 1 /\ r.kind = "bare" /\ r.elo = FALSE
        /\ r.winner = Nobody /\ r.forfeit = Nobody
    BY <1>1, IdleShaped DEF Call
  <1>4. proc' = [proc EXCEPT ![a] = r]
    BY DEF WorkerVerdict
  <1> HIDE DEF r
  <1>5. r \in Shape
    BY <1>2, <1>3 DEF Shape
  <1>6. Shaped' /\ Aside(a) /\ proc'[a] = r
    BY <1>4, <1>5, ShapeStep DEF Typed
  <1> QED
    BY <1>3, <1>6 DEF Fresh

LEMMA OpponentPlays ==
    \A p \in Players : Opponent(p) \in Players \cup {Nobody}
  BY SomePlayers DEF Opponent

LEMMA GoesAwayShape ==
    ASSUME Typed, NEW a \in Actors, NEW p \in Players, NEW spared,
           NEW fallback \in Players \cup {Nobody},
           GoesAway(a, p, spared, fallback)
    PROVE  /\ Shaped' /\ Aside(a) /\ Fresh(a)
           /\ \/ /\ proc'[a].pc = "finRead" /\ proc'[a].forfeit = p
                 /\ proc'[a].snap = Gone
              \/ /\ proc'[a].pc = "leaveWrite" /\ proc'[a].forfeit = Nobody
                 /\ proc'[a].winner = Nobody
                 /\ proc'[a].snap.status = redis.status
                 /\ proc'[a].snap.solved = redis.solved
  <1> DEFINE doc == [redis EXCEPT !.left = @ \cup {p}]
  <1>1. Idle \in Call
    BY IdleShaped DEF Shape
  <1>2. doc \in Document /\ doc.status = redis.status /\ doc.solved = redis.solved
    BY DEF Typed, TypeOK, Document
  <1>3. PICK w \in Players \cup {Nobody} :
           \/ Set(a, [Idle EXCEPT !.pc = "finRead", !.winner = w, !.forfeit = p])
           \/ Set(a, [Idle EXCEPT !.pc = "leaveWrite", !.snap = doc])
    BY DEF GoesAway
  <1> DEFINE fin == [Idle EXCEPT !.pc = "finRead", !.winner = w, !.forfeit = p]
             wr == [Idle EXCEPT !.pc = "leaveWrite", !.snap = doc]
  <1> HIDE DEF doc
  <1>4. fin \in Call /\ wr \in Call
    BY <1>1, <1>2 DEF Call
  <1>5. /\ fin.pc = "finRead" /\ fin.k = 1 /\ fin.elo = FALSE /\ fin.kind = "service"
        /\ fin.forfeit = p /\ fin.snap = Gone
    BY <1>1, IdleShaped DEF Call
  <1>6. /\ wr.pc = "leaveWrite" /\ wr.k = 1 /\ wr.elo = FALSE /\ wr.kind = "service"
        /\ wr.forfeit = Nobody /\ wr.winner = Nobody /\ wr.snap = doc
    BY <1>1, IdleShaped DEF Call
  <1>7. proc' = [proc EXCEPT ![a] = fin] \/ proc' = [proc EXCEPT ![a] = wr]
    BY <1>3
  <1> HIDE DEF fin, wr
  <1>8. fin \in Shape /\ wr \in Shape
    BY <1>4, <1>5, <1>6 DEF Shape
  <1>9. Shaped' /\ Aside(a) /\ (proc'[a] = fin \/ proc'[a] = wr)
    BY <1>7, <1>8, ShapeStep DEF Typed
  <1> QED
    BY <1>2, <1>5, <1>6, <1>9 DEF Fresh

LEMMA DirectShape ==
    ASSUME Typed, NEW a \in Actors, TimerFires(a) \/ Sweep(a) \/ FinishRoute(a)
    PROVE  /\ Shaped' /\ Aside(a) /\ Fresh(a)
           /\ proc'[a].forfeit = Nobody /\ proc'[a].snap = Gone
           /\ proc'[a].winner = Nobody
           /\ proc'[a].pc = IF TimerFires(a) THEN "finRead" ELSE "order"
  <1> DEFINE fin == [Idle EXCEPT !.pc = "finRead"]
             ord == [Idle EXCEPT !.pc = "order", !.kind = "direct"]
  <1>1. Idle \in Call
    BY IdleShaped DEF Shape
  <1>2. fin \in Call /\ ord \in Call
    BY <1>1 DEF Call
  <1>3. /\ fin.pc = "finRead" /\ fin.k = 1 /\ fin.elo = FALSE /\ fin.kind = "service"
        /\ fin.forfeit = Nobody /\ fin.winner = Nobody /\ fin.snap = Gone
    BY <1>1, IdleShaped DEF Call
  <1>4. /\ ord.pc = "order" /\ ord.k = 1 /\ ord.elo = FALSE /\ ord.kind = "direct"
        /\ ord.forfeit = Nobody /\ ord.winner = Nobody /\ ord.snap = Gone
    BY <1>1, IdleShaped DEF Call
  <1>5. /\ TimerFires(a) => proc' = [proc EXCEPT ![a] = fin]
        /\ Sweep(a) \/ FinishRoute(a) => proc' = [proc EXCEPT ![a] = ord]
    BY DEF TimerFires, Sweep, FinishRoute
  <1> HIDE DEF fin, ord
  <1>6. fin \in Shape /\ ord \in Shape
    BY <1>2, <1>3, <1>4 DEF Shape
  <1>7. CASE TimerFires(a)
    <2>1. Shaped' /\ Aside(a) /\ proc'[a] = fin
      BY <1>5, <1>6, <1>7, ShapeStep DEF Typed
    <2> QED
      BY <1>3, <1>7, <2>1 DEF Fresh
  <1>8. CASE ~TimerFires(a)
    <2>1. Shaped' /\ Aside(a) /\ proc'[a] = ord
      BY <1>5, <1>6, <1>8, ShapeStep DEF Typed
    <2> QED
      BY <1>4, <1>8, <2>1 DEF Fresh
  <1> QED
    BY <1>7, <1>8

\* Two steps take a copy of the document with them.
LEMMA ReadStep ==
    ASSUME Typed, NEW a \in Actors, NEW step,
           \/ step = "evalWrite" /\ proc[a].pc = "evalRead"
           \/ step = "finClaim" /\ proc[a].pc = "finRead",
           proc' = [proc EXCEPT ![a].pc = step, ![a].snap = redis]
    PROVE  /\ Shaped' /\ Aside(a) /\ Keeps(a) /\ Holds(a)
           /\ proc'[a].pc = step /\ proc'[a].snap = redis
           /\ proc'[a].k = 1
  <1> DEFINE r == [proc[a] EXCEPT !.pc = step, !.snap = redis]
  <1>1. Shaped /\ redis \in Document
    BY DEF Typed, TypeOK
  <1>2. /\ proc[a] \in Call /\ proc[a].k = 1
        /\ step = "evalWrite" => proc[a].player \in Players /\ proc[a].problem \in Problems
    BY <1>1, CallTyped
  <1>3. r \in Call /\ r.pc = step /\ r.snap = redis
    BY <1>1, <1>2 DEF Call
  <1>4. /\ r.k = proc[a].k /\ r.kind = proc[a].kind /\ r.player = proc[a].player
        /\ r.problem = proc[a].problem /\ r.winner = proc[a].winner
        /\ r.forfeit = proc[a].forfeit /\ r.elo = proc[a].elo /\ r.order = proc[a].order
    BY <1>2 DEF Call
  <1>5. proc' = [proc EXCEPT ![a] = r]
    BY <1>1 DEF Shaped
  <1> HIDE DEF r
  <1>6. r \in Shape
    BY <1>2, <1>3, <1>4 DEF Shape
  <1>7. Shaped' /\ Aside(a) /\ proc'[a] = r
    BY <1>1, <1>5, <1>6, ShapeStep
  <1> QED
    BY <1>2, <1>3, <1>4, <1>7 DEF Keeps, Holds

LEMMA EvalReadShape ==
    ASSUME Typed, NEW a \in Actors, EvalRead(a)
    PROVE  /\ Shaped' /\ Aside(a)
           /\ \/ proc'[a] = Idle
              \/ /\ Keeps(a) /\ Holds(a) /\ proc'[a].k = 1
                 /\ proc'[a].pc = "evalWrite" /\ proc'[a].snap = redis
  BY DoneStep, ReadStep DEF EvalRead, Typed

LEMMA FinReadShape ==
    ASSUME Typed, NEW a \in Actors, FinRead(a)
    PROVE  /\ Shaped' /\ Aside(a)
           /\ \/ proc'[a] = Idle
              \/ /\ Keeps(a) /\ Holds(a) /\ proc'[a].k = 1
                 /\ proc'[a].pc = "finClaim" /\ proc'[a].snap = redis
                 /\ Claimable(redis)
  BY DoneStep, ReadStep DEF FinRead, Typed

LEMMA EvalWriteShape ==
    ASSUME Typed, NEW a \in Actors, EvalWrite(a)
    PROVE  /\ Shaped' /\ Aside(a)
           /\ proc[a].player \in Players /\ proc[a].problem \in Problems
           /\ redis' \in Document /\ redis'.status = proc[a].snap.status
           /\ \A r \in Players : redis'.solved[r] =
                 IF r = proc[a].player THEN proc[a].snap.solved[r] \cup {proc[a].problem}
                                       ELSE proc[a].snap.solved[r]
           /\ \/ proc'[a] = Idle
              \/ /\ proc'[a].pc = "finRead" /\ proc'[a].k = 1 /\ proc'[a].elo = FALSE
                 /\ proc'[a].kind = proc[a].kind /\ proc'[a].snap = Gone
                 /\ proc'[a].winner = proc[a].player /\ proc'[a].forfeit = Nobody
                 /\ Cardinality(redis'.solved[proc[a].player]) >= TotalQuestions
  <1> DEFINE p == proc[a].player
             q == proc[a].problem
             kind == proc[a].kind
             r == [Idle EXCEPT !.pc = "finRead", !.kind = kind, !.winner = p]
  <1>1. /\ Shaped /\ p \in Players /\ q \in Problems /\ proc[a].snap \in Document
        /\ kind \in {"service", "bare", "direct"}
    BY CallTyped DEF EvalWrite, Typed
  <1>2. redis' = [proc[a].snap EXCEPT !.solved[p] = @ \cup {q}]
    BY DEF EvalWrite
  <1>3. Done(a) \/ (Set(a, r) /\ Cardinality(redis'.solved[p]) >= TotalQuestions)
    BY <1>2 DEF EvalWrite, SolvedAll
  <1> HIDE DEF p, q, kind
  <1>4. /\ redis' \in Document /\ redis'.status = proc[a].snap.status
        /\ \A s \in Players : redis'.solved[s] =
              IF s = p THEN proc[a].snap.solved[s] \cup {q} ELSE proc[a].snap.solved[s]
    BY <1>1, <1>2 DEF Document
  <1>5. Idle \in Call
    BY IdleShaped DEF Shape
  <1>6. r \in Call
    BY <1>1, <1>5 DEF Call
  <1>7. /\ r.pc = "finRead" /\ r.k = 1 /\ r.elo = FALSE /\ r.kind = kind
        /\ r.winner = p /\ r.forfeit = Nobody /\ r.snap = Gone
    BY <1>5, IdleShaped DEF Call
  <1> HIDE DEF r
  <1>8. r \in Shape
    BY <1>6, <1>7 DEF Shape
  <1>9. CASE Done(a)
    <2>1. Shaped' /\ Aside(a) /\ proc'[a] = Idle
      BY <1>1, <1>9, DoneStep
    <2> QED
      BY <1>1, <1>4, <2>1 DEF p, q
  <1>10. CASE Set(a, r) /\ Cardinality(redis'.solved[p]) >= TotalQuestions
    <2>1. Shaped' /\ Aside(a) /\ proc'[a] = r
      BY <1>1, <1>8, <1>10, ShapeStep
    <2> QED
      BY <1>1, <1>4, <1>7, <1>10, <2>1 DEF p, q, kind
  <1> QED
    BY <1>3, <1>9, <1>10

LEMMA OrderShape ==
    ASSUME Typed, NEW a \in Actors, Order(a)
    PROVE  /\ Shaped' /\ Aside(a) /\ Keeps(a)
           /\ proc'[a].pc = "rank" /\ proc'[a].k = 1 /\ proc'[a].snap = Gone
           /\ proc'[a].order \in Ranking(proc[a].forfeit)
           /\ proc'[a].elo = ShouldApplyElo(proc[a].forfeit)
  <1> DEFINE elo == ShouldApplyElo(proc[a].forfeit)
  <1>1. PICK order \in Ranking(proc[a].forfeit) :
          proc' = [proc EXCEPT ![a].pc = "rank", ![a].snap = Gone,
                               ![a].order = order, ![a].elo = elo]
    BY DEF Order
  <1> DEFINE r == [proc[a] EXCEPT !.pc = "rank", !.snap = Gone, !.order = order, !.elo = elo]
  <1>2. order \in [Players -> Players] /\ elo \in BOOLEAN
    BY DEF Ranking, ShouldApplyElo
  <1>3. Shaped /\ proc[a] \in Call /\ proc[a].k = 1
    BY CallTyped DEF Typed, Order
  <1>4. proc' = [proc EXCEPT ![a] = r]
    BY <1>1, <1>3 DEF Shaped
  <1> HIDE DEF elo
  <1>5. r \in Call
    BY <1>2, <1>3, GoneTyped DEF Call
  <1>6. /\ r.pc = "rank" /\ r.snap = Gone /\ r.order = order /\ r.elo = elo
        /\ r.k = proc[a].k /\ r.kind = proc[a].kind /\ r.player = proc[a].player
        /\ r.problem = proc[a].problem /\ r.winner = proc[a].winner
        /\ r.forfeit = proc[a].forfeit
    BY <1>3 DEF Call
  <1> HIDE DEF r
  <1>7. r \in Shape
    BY <1>5, <1>6 DEF Shape
  <1>8. Shaped' /\ Aside(a) /\ proc'[a] = r
    BY <1>3, <1>4, <1>7, ShapeStep
  <1> QED
    BY <1>1, <1>3, <1>6, <1>8 DEF Keeps, elo

-----------------------------------------------------------------------------
(* Types                                                                   *)

\* Everything but the calls.
Stored ==
    /\ redis \in Document
    /\ cp \in [Players -> Nat]
    /\ saved \in [Players -> Nat]
    /\ room \in {"RUNNING", "FINISHED"}
    /\ solvedAt \in [Players -> 0 .. N]
    /\ rank \in [Players -> 0 .. N]
    /\ rated \in [Players -> Nat]
    /\ results \subseteq [winner : Players \cup {Nobody}, forfeit : Players \cup {Nobody}]
    /\ expired \in BOOLEAN
    /\ calls \in Nat /\ aborts \in Nat
    /\ accepted \in Seq(Players \X Problems)
    /\ quit \subseteq Players
    /\ claimed \in BOOLEAN
    /\ acked \in [Players -> Nat]
    /\ unsaved \subseteq Players

LEMMA TypedParts ==
    /\ Typed <=> Stored /\ Shaped
    /\ Typed' <=> Stored' /\ Shaped'
  <1>1. Shape \subseteq Call
    BY DEF Shape
  <1>2. Shaped => proc \in [Actors -> Call]
    BY <1>1 DEF Shaped
  <1>3. Shaped' => proc' \in [Actors -> Call]
    BY <1>1 DEF Shaped
  <1> QED
    BY <1>2, <1>3 DEF Typed, TypeOK, Stored

LEMMA InitTyped == Init => Typed
  <1> SUFFICES ASSUME Init PROVE Typed
    OBVIOUS
  <1>1. redis \in Document
    BY GoneTyped DEF Init, Document
  <1>2. Stored
    <2>1. 0 \in 0 .. N /\ 0 \in Nat
      BY SomePlayers
    <2>2. /\ solvedAt \in [Players -> 0 .. N]
          /\ rank \in [Players -> 0 .. N]
          /\ rated \in [Players -> Nat]
          /\ cp \in [Players -> Nat] /\ saved \in [Players -> Nat] /\ acked \in [Players -> Nat]
      BY <2>1 DEF Init, NoRevision
    <2>3. accepted \in Seq(Players \X Problems)
      BY DEF Init
    <2> QED
      BY <1>1, <2>1, <2>2, <2>3 DEF Init, Stored
  <1>3. Shaped
    BY IdleShaped DEF Init, Shaped
  <1> QED
    BY <1>2, <1>3, TypedParts

(* A player who is stamped has a place, and nobody else loses theirs.      *)
LEMMA StampStep ==
    ASSUME Typed, NEW p \in Players, Stamp(p)
    PROVE  /\ solvedAt' \in [Players -> 0 .. N]
           /\ solvedAt'[p] # 0
           /\ \A q \in Players : q # p => (solvedAt'[q] # 0 <=> solvedAt[q] # 0)
  <1> DEFINE set == {q \in Players : solvedAt[q] # 0} \cup {p}
  <1>1. Cardinality(set) \in 1 .. N
    <2>1. IsFiniteSet(Players) /\ Cardinality(Players) = N
      BY FS_Interval, SomePlayers DEF Players
    <2>2. set \subseteq Players /\ set # {}
      OBVIOUS
    <2> HIDE DEF set
    <2>3. IsFiniteSet(set) /\ Cardinality(set) <= Cardinality(Players)
      BY <2>1, <2>2, FS_Subset
    <2>4. Cardinality(set) # 0 /\ Cardinality(set) \in Nat
      BY <2>2, <2>3, FS_EmptySet, FS_CardinalityType
    <2> QED
      BY <2>1, <2>3, <2>4, SomePlayers
  <1>2. solvedAt \in [Players -> 0 .. N]
    BY DEF Typed, TypeOK
  <1>3. solvedAt' =
          [q \in Players |->
              IF q = p THEN Cardinality(set)
              ELSE solvedAt[q] - (IF solvedAt[p] # 0 /\ solvedAt[q] > solvedAt[p] THEN 1 ELSE 0)]
    BY DEF Stamp
  <1> HIDE DEF set
  <1>4. solvedAt'[p] \in 1 .. N
    BY <1>1, <1>3
  <1>5. ASSUME NEW q \in Players, q # p
        PROVE  /\ solvedAt'[q] \in 0 .. N
               /\ solvedAt'[q] # 0 <=> solvedAt[q] # 0
    <2>1. solvedAt[q] \in 0 .. N /\ solvedAt[p] \in 0 .. N
      BY <1>2
    <2>2. solvedAt'[q] =
            solvedAt[q] - (IF solvedAt[p] # 0 /\ solvedAt[q] > solvedAt[p] THEN 1 ELSE 0)
      BY <1>3, <1>5
    <2> QED
      BY <2>1, <2>2, SomePlayers
  <1>6. \A q \in Players : solvedAt'[q] \in 0 .. N
    BY <1>4, <1>5
  <1>7. solvedAt' \in [Players -> 0 .. N]
    BY <1>3, <1>6
  <1> QED
    BY <1>4, <1>5, <1>7

(* An accepted answer is remembered, and nothing accepted is forgotten.    *)
LEMMA AcceptedStep ==
    ASSUME Typed, NEW p \in Players, NEW q \in Problems, Accepted(p, q)
    PROVE  /\ accepted' \in Seq(Players \X Problems)
           /\ Members(accepted') = Members(accepted) \cup {<<p, q>>}
  <1>1. accepted \in Seq(Players \X Problems)
    BY DEF Typed, TypeOK
  <1>2. CASE <<p, q>> \in Members(accepted)
    BY <1>1, <1>2 DEF Accepted
  <1>3. CASE <<p, q>> \notin Members(accepted)
    <2>1. accepted' = Append(accepted, <<p, q>>)
      BY <1>3 DEF Accepted
    <2>2. accepted' \in Seq(Players \X Problems)
      BY <1>1, <2>1
    <2>3. /\ Len(accepted) \in Nat /\ DOMAIN accepted = 1 .. Len(accepted)
          /\ DOMAIN accepted' = 1 .. Len(accepted) + 1
          /\ \A i \in 1 .. Len(accepted) : accepted'[i] = accepted[i]
          /\ accepted'[Len(accepted) + 1] = <<p, q>>
      BY <1>1, <2>1
    <2>4. 1 .. Len(accepted) + 1 = (1 .. Len(accepted)) \cup {Len(accepted) + 1}
      BY <2>3
    <2>5. ASSUME NEW x
          PROVE  x \in Members(accepted')
                     <=> \E i \in 1 .. Len(accepted) + 1 : x = accepted'[i]
      BY <2>3 DEF Members
    <2>6. ASSUME NEW x
          PROVE  x \in Members(accepted) <=> \E i \in 1 .. Len(accepted) : x = accepted[i]
      BY <2>3 DEF Members
    <2>7. ASSUME NEW x
          PROVE  x \in Members(accepted') <=> x \in Members(accepted) \/ x = <<p, q>>
      <3>1. CASE x = <<p, q>>
        BY <2>3, <2>5, <3>1
      <3>2. CASE x # <<p, q>>
        <4> DEFINE n == Len(accepted)
        <4>1. \A i \in 1 .. n + 1 : x = accepted'[i] => i \in 1 .. n /\ x = accepted[i]
          BY <2>3, <2>4, <3>2
        <4>2. \A i \in 1 .. n : x = accepted[i] => i \in 1 .. n + 1 /\ x = accepted'[i]
          BY <2>3, <2>4
        <4> QED
          BY <2>5, <2>6, <3>2, <4>1, <4>2
      <3> QED
        BY <3>1, <3>2
    <2> QED
      BY <2>2, <2>7
  <1> QED
    BY <1>2, <1>3

LEMMA ArriveTyped ==
    ASSUME Typed, NEW a \in Actors, Arrive(a) \/ Sweep(a)
    PROVE  Typed'
  <1>0. Stored
    BY TypedParts
  <1>1. ASSUME NEW p \in Players, NEW q \in Problems, Submit(a, p, q) \/ WorkerVerdict(a, p, q)
        PROVE  Typed'
    <2>1. accepted' \in Seq(Players \X Problems) /\ UNCHANGED <<quit, claimed, acked, unsaved>>
      BY <1>1, AcceptedStep DEF Submit, WorkerVerdict, Accepted
    <2>2. solvedAt' \in [Players -> 0 .. N]
      BY <1>0, <1>1, StampStep DEF Submit, WorkerVerdict, Stored
    <2>3. calls' \in Nat /\ UNCHANGED <<expired, aborts>>
      BY <1>0, <1>1 DEF Submit, WorkerVerdict, Arrives, Stored
    <2>4. Stored'
      BY <1>0, <1>1, <2>1, <2>2, <2>3 DEF Submit, WorkerVerdict, Stored
    <2> QED
      BY <1>1, <2>4, SubmitShape, WorkerShape, TypedParts
  <1>2. ASSUME NEW p \in Players, LeaveBattle(a, p) \/ DisconnectTimeout(a, p)
        PROVE  Typed'
    <2>1. /\ quit' = quit \cup {p} /\ calls' = calls + 1
          /\ UNCHANGED <<redis, cp, saved, room, solvedAt, rank, rated, results, expired,
                         aborts, accepted, claimed, acked, unsaved>>
      BY <1>2 DEF LeaveBattle, DisconnectTimeout, Arrives, GoesAway
    <2>2. calls' \in Nat /\ quit' \subseteq Players
      BY <1>0, <2>1 DEF Stored
    <2>3. Stored'
      BY <1>0, <2>1, <2>2 DEF Stored
    <2> QED
      BY <1>2, <2>3, GoesAwayShape, OpponentPlays, TypedParts DEF LeaveBattle, DisconnectTimeout
  <1>3. CASE TimerFires(a) \/ FinishRoute(a) \/ Sweep(a)
    <2>1. Stored'
      BY <1>0, <1>3 DEF TimerFires, FinishRoute, Sweep, Arrives, Stored
    <2> QED
      BY <1>3, <2>1, DirectShape, TypedParts
  <1> QED
    BY <1>1, <1>2, <1>3 DEF Arrive

LEMMA SolveTyped ==
    ASSUME Typed, NEW a \in Actors,
           \/ EvalRead(a) \/ EvalWrite(a) \/ LeaveWrite(a)
           \/ FinRead(a) \/ FinClaim(a) \/ Abort(a)
    PROVE  Typed'
  <1>0. Stored /\ Shaped
    BY TypedParts
  <1>1. CASE EvalRead(a) \/ FinRead(a)
    <2>1. Stored'
      BY <1>0, <1>1 DEF EvalRead, FinRead, Stored
    <2> QED
      BY <1>1, <2>1, EvalReadShape, FinReadShape, TypedParts
  <1>2. CASE EvalWrite(a)
    <2>1. Stored'
      BY <1>0, <1>2, EvalWriteShape DEF EvalWrite, Stored
    <2> QED
      BY <1>2, <2>1, EvalWriteShape, TypedParts
  <1>3. CASE LeaveWrite(a)
    <2>1. Stored'
      BY <1>0, <1>3, CallTyped DEF LeaveWrite, Stored
    <2> QED
      BY <1>0, <1>3, <2>1, DoneStep, TypedParts DEF LeaveWrite
  <1>4. CASE FinClaim(a)
    <2>1. redis' \in Document
      BY <1>0, <1>4, CallTyped DEF FinClaim, Document
    <2>2. Stored'
      BY <1>0, <1>4, <2>1 DEF FinClaim, Stored
    <2> QED
      BY <1>0, <1>4, <2>2, GotoStep, TypedParts DEF FinClaim
  <1>5. CASE Abort(a)
    <2>1. /\ aborts' = aborts + 1
          /\ UNCHANGED <<redis, cp, saved, room, solvedAt, rank, rated, results, expired,
                         calls, accepted, quit, claimed, acked, unsaved>>
      BY <1>5 DEF Abort
    <2>2. aborts' \in Nat
      BY <1>0, <2>1 DEF Stored
    <2>3. Stored'
      BY <1>0, <2>1, <2>2 DEF Stored
    <2> QED
      BY <1>0, <1>5, <2>3, DoneStep, TypedParts DEF Abort
  <1> QED
    BY <1>1, <1>2, <1>3, <1>4, <1>5

LEMMA MigrateShape ==
    ASSUME Typed, NEW a \in Actors, Migrate(a)
    PROVE  /\ Shaped' /\ Aside(a) /\ Keeps(a) /\ Holds(a)
           /\ proc'[a].snap = proc[a].snap
           /\ proc[a].k \in Players
           /\ \/ proc[a].k < N /\ proc'[a].k = proc[a].k + 1 /\ proc'[a].pc = "migrate"
              \/ /\ proc[a].k = N /\ proc'[a].k = 1
                 /\ proc'[a].pc = IF proc[a].kind = "bare" THEN "evict" ELSE "order"
  <1> DEFINE after == IF proc[a].kind = "bare" THEN "evict" ELSE "order"
  <1>1. Loop(a, after) /\ proc[a].pc = "migrate" /\ after \in {"order", "evict", "rate", "close"}
    BY DEF Migrate
  <1> HIDE DEF after
  <1> QED
    BY <1>1, LoopStep DEF Typed, after

LEMMA RankShape ==
    ASSUME Typed, NEW a \in Actors, Rank(a)
    PROVE  /\ Shaped' /\ Aside(a) /\ Keeps(a) /\ Holds(a)
           /\ proc'[a].snap = proc[a].snap
           /\ proc[a].k \in Players
           /\ \/ proc[a].k < N /\ proc'[a].k = proc[a].k + 1 /\ proc'[a].pc = "rank"
              \/ /\ proc[a].k = N /\ proc'[a].k = 1
                 /\ proc'[a].pc = IF proc[a].elo THEN "rate" ELSE "close"
  <1> DEFINE after == IF proc[a].elo THEN "rate" ELSE "close"
  <1>1. Loop(a, after) /\ proc[a].pc = "rank" /\ after \in {"order", "evict", "rate", "close"}
    BY DEF Rank
  <1> HIDE DEF after
  <1> QED
    BY <1>1, LoopStep DEF Typed, after

LEMMA RateShape ==
    ASSUME Typed, NEW a \in Actors, Rate(a)
    PROVE  /\ Shaped' /\ Aside(a) /\ Keeps(a) /\ Holds(a)
           /\ proc'[a].snap = proc[a].snap
           /\ proc[a].k \in Players
           /\ \/ proc[a].k < N /\ proc'[a].k = proc[a].k + 1 /\ proc'[a].pc = "rate"
              \/ proc[a].k = N /\ proc'[a].k = 1 /\ proc'[a].pc = "close"
  BY LoopStep DEF Typed, Rate

LEMMA CloseShape ==
    ASSUME Typed, NEW a \in Actors,
           Close(a) \/ Evict(a) \/ Drop(a) \/ Publish(a)
    PROVE  /\ Shaped' /\ Aside(a)
           /\ \/ proc'[a] = Idle
              \/ /\ Keeps(a) /\ Holds(a) /\ proc'[a].snap = proc[a].snap /\ proc'[a].k = 1
                 /\ \/ /\ proc[a].pc = "close" /\ proc[a].kind # "direct"
                       /\ proc'[a].pc = "evict"
                    \/ proc[a].pc = "evict" /\ proc'[a].pc = "drop"
                    \/ proc[a].pc = "drop" /\ proc'[a].pc = "publish"
  <1>0. Shaped
    BY DEF Typed
  <1>1. CASE Done(a)
    BY <1>0, <1>1, DoneStep
  <1>2. ASSUME NEW step \in {"evict", "drop", "publish"}, Goto(a, step),
               proc[a].pc \in {"close", "evict", "drop"}
        PROVE  /\ Shaped' /\ Aside(a) /\ Keeps(a) /\ Holds(a)
               /\ proc'[a].snap = proc[a].snap /\ proc'[a].k = 1 /\ proc'[a].pc = step
    BY <1>0, <1>2, GotoStep
  <1>3. CASE Close(a)
    BY <1>1, <1>2, <1>3 DEF Close
  <1>4. CASE Evict(a)
    BY <1>2, <1>4 DEF Evict
  <1>5. CASE Drop(a)
    BY <1>2, <1>5 DEF Drop
  <1>6. CASE Publish(a)
    BY <1>1, <1>6 DEF Publish
  <1> QED
    BY <1>3, <1>4, <1>5, <1>6

LEMMA FinishTyped ==
    ASSUME Typed, NEW a \in Actors,
           \/ Migrate(a) \/ Order(a) \/ Rank(a) \/ Rate(a) \/ Close(a)
           \/ Evict(a) \/ Drop(a) \/ Publish(a)
    PROVE  Typed'
  <1>0. Stored /\ Shaped
    BY TypedParts
  <1>1. CASE Migrate(a)
    <2>1. proc[a].k \in Players
      BY <1>0, CallTyped
    <2>2. solvedAt' \in [Players -> 0 .. N]
      BY <1>0, <1>1, <2>1, StampStep DEF Migrate, Record, Stored
    <2>3. saved' \in [Players -> Nat]
      BY <1>0, <1>1, <2>1 DEF Migrate, Store, StoreFails, Stored, Max2
    <2>4. unsaved' \subseteq Players
      BY <1>0, <1>1, <2>1 DEF Migrate, Store, StoreFails, Stored
    <2>5. UNCHANGED <<redis, cp, room, rank, rated, results, expired, calls, aborts,
                      accepted, quit, claimed, acked>>
      BY <1>1 DEF Migrate
    <2>6. Stored'
      BY <1>0, <2>2, <2>3, <2>4, <2>5 DEF Stored
    <2> QED
      BY <1>1, <2>6, MigrateShape, TypedParts
  <1>2. CASE Order(a)
    <2>1. Stored'
      BY <1>0, <1>2 DEF Order, Stored
    <2> QED
      BY <1>2, <2>1, OrderShape, TypedParts
  <1>3. CASE Rank(a)
    <2>1. proc[a].k \in 0 .. N
      BY <1>0, CallTyped DEF Players
    <2>2. rank' \in [Players -> 0 .. N]
      BY <1>0, <1>3, <2>1 DEF Rank, Stored
    <2>3. Stored'
      BY <1>0, <1>3, <2>2 DEF Rank, Stored
    <2> QED
      BY <1>3, <2>3, RankShape, TypedParts
  <1>4. CASE Rate(a)
    <2>1. rated' \in [Players -> Nat]
      <3>1. PICK p \in Players : rated' = [rated EXCEPT ![p] = @ + 1]
        BY <1>0, <1>4, CallTyped DEF Rate
      <3> QED
        BY <1>0, <3>1 DEF Stored
    <2>2. Stored'
      BY <1>0, <1>4, <2>1 DEF Rate, Stored
    <2> QED
      BY <1>4, <2>2, RateShape, TypedParts
  <1>5. CASE Close(a) \/ Evict(a) \/ Drop(a) \/ Publish(a)
    <2>1. redis' \in Document /\ cp' \in [Players -> Nat]
      <3>1. redis' \in {redis, Gone} /\ cp' \in {cp, NoRevision}
        BY <1>5 DEF Close, Evict, Drop, Publish
      <3>2. redis \in Document /\ cp \in [Players -> Nat] /\ NoRevision \in [Players -> Nat]
        BY <1>0 DEF Stored, NoRevision
      <3> QED
        BY <3>1, <3>2, GoneTyped
    <2>2. results' \subseteq [winner : Players \cup {Nobody}, forfeit : Players \cup {Nobody}]
      <3>1. \/ results' = results
            \/ results' = results \cup {[winner |-> proc[a].winner, forfeit |-> proc[a].forfeit]}
        BY <1>5 DEF Close, Evict, Drop, Publish
      <3>2. proc[a].winner \in Players \cup {Nobody} /\ proc[a].forfeit \in Players \cup {Nobody}
        BY <1>0, CallTyped
      <3>3. results \subseteq [winner : Players \cup {Nobody}, forfeit : Players \cup {Nobody}]
        BY <1>0 DEF Stored
      <3> QED
        BY <3>1, <3>2, <3>3
    <2>3. room' \in {room, "FINISHED"}
      BY <1>5 DEF Close, Evict, Drop, Publish
    <2>4. UNCHANGED <<saved, solvedAt, rank, rated, expired, calls, aborts,
                      accepted, quit, claimed, acked, unsaved>>
      BY <1>5 DEF Close, Evict, Drop, Publish
    <2>5. Stored'
      BY <1>0, <2>1, <2>2, <2>3, <2>4 DEF Stored
    <2> QED
      BY <1>5, <2>5, CloseShape, TypedParts
  <1> QED
    BY <1>1, <1>2, <1>3, <1>4, <1>5

LEMMA WorldTyped ==
    ASSUME Typed, (\E p \in Players : CheckpointSync(p)) \/ TimeUp \/ StateExpires \/ UNCHANGED vars
    PROVE  Typed'
  <1>0. Stored /\ Shaped
    BY TypedParts
  <1>1. Shaped'
    BY <1>0 DEF CheckpointSync, TimeUp, StateExpires, vars, Shaped
  <1>2. Stored'
    <2>1. CASE \E p \in Players : CheckpointSync(p)
      <3>1. cp' \in [Players -> Nat]
        BY <1>0, <2>1 DEF CheckpointSync, Max2, Stored
      <3>2. UNCHANGED <<redis, saved, room, solvedAt, rank, rated, results, expired, calls,
                        aborts, accepted, quit, claimed, acked, unsaved>>
        BY <2>1 DEF CheckpointSync
      <3> QED
        BY <1>0, <3>1, <3>2 DEF Stored
    <2>2. CASE TimeUp
      BY <1>0, <2>2 DEF TimeUp, Stored
    <2>3. CASE StateExpires
      BY <1>0, <2>3, GoneTyped DEF StateExpires, Stored
    <2>4. CASE UNCHANGED vars
      BY <1>0, <2>4 DEF vars, Stored
    <2> QED
      BY <2>1, <2>2, <2>3, <2>4
  <1> QED
    BY <1>1, <1>2, TypedParts

LEMMA NextTyped == Typed /\ [Next]_vars => Typed'
  BY ArriveTyped, SolveTyped, FinishTyped, WorldTyped DEF Next, Continue

LEMMA AlwaysTyped == Spec => []Typed
  BY InitTyped, NextTyped, PTL DEF Spec

(* However calls overlap and die, the document, the checkpoints, ranks and *)
(* ratings keep their types; in particular every ranking that is written   *)
(* gives players places among 1 .. N, and every announced winner plays.    *)
THEOREM LiveTyped == Spec => []TypeOK
  <1>1. Typed => TypeOK
    BY DEF Typed
  <1> QED
    BY <1>1, AlwaysTyped, PTL

-----------------------------------------------------------------------------
(* Checkpoints                                                             *)

\* The battle is claimed and the first players' checkpoints, up to m, are stored,
\* those that could be.
Banked(m) ==
    claimed /\ \A p \in Players : p <= m => p \in unsaved \/ saved[p] >= acked[p]

\* Calls of finishBattle that have left their migration loop behind.
Migrated(r) ==
    \/ r.pc \in {"evict", "drop", "publish"}
    \/ r.pc \in {"order", "rank", "rate", "close"} /\ r.kind # "direct"

\* What a call may rely on.
Relies(a) ==
    /\ proc[a].pc = "migrate" => Banked(proc[a].k - 1)
    /\ Migrated(proc[a]) => Banked(N)

\* What was held at the claim is still held, or stored.
HeldOrStored ==
    claimed => \A p \in Players : p \in unsaved \/ acked[p] <= Max2(saved[p], cp[p])

Announced == results # {} => Banked(N)

CheckpointInv ==
    /\ \A a \in Actors : Relies(a)
    /\ HeldOrStored
    /\ Announced

LEMMA InitCheckpoint == Init => CheckpointInv
  <1>1. Init => \A a \in Actors : proc[a].pc = "idle"
    BY IdleShaped DEF Init
  <1> QED
    BY <1>1 DEF CheckpointInv, Relies, Migrated, HeldOrStored, Announced, Init

LEMMA RevisionsTyped ==
    /\ Typed => cp \in [Players -> Nat] /\ saved \in [Players -> Nat] /\ acked \in [Players -> Nat]
    /\ Typed'
         => cp' \in [Players -> Nat] /\ saved' \in [Players -> Nat] /\ acked' \in [Players -> Nat]
  BY TypedParts DEF Stored

\* Nothing that was banked is ever lost.
Steady == \A m \in 0 .. N : Banked(m) => Banked(m)'

(* A step of one call keeps the invariant if it loses nothing and leaves   *)
(* that call something it may rely on.                                     *)
LEMMA RelyStep ==
    ASSUME Typed, CheckpointInv, NEW a \in Actors, Aside(a), Steady,
           Relies(a)', HeldOrStored', Announced'
    PROVE  CheckpointInv'
  <1>1. ASSUME NEW b \in Actors, b # a PROVE Relies(b)'
    <2>1. proc'[b] = proc[b] /\ Relies(b)
      BY <1>1 DEF Aside, CheckpointInv
    <2>2. proc[b].k \in Players
      BY CallTyped DEF Typed
    <2>3. N \in 0 .. N /\ proc[b].k - 1 \in 0 .. N
      BY <2>2, SomePlayers DEF Players
    <2>4. Banked(proc[b].k - 1) => Banked(proc[b].k - 1)'
      BY <2>1, <2>3 DEF Steady, Banked
    <2>5. Banked(N) => Banked(N)'
      BY <2>3 DEF Steady
    <2> QED
      BY <2>1, <2>4, <2>5 DEF Relies, Migrated
  <1> QED
    BY <1>1 DEF CheckpointInv

\* Steps that leave checkpoints and the claim alone are steady.
LEMMA SteadyStep ==
    ASSUME CheckpointInv, UNCHANGED <<cp, saved, acked, unsaved, claimed>>
    PROVE  Steady /\ HeldOrStored' /\ (results' = results => Announced')
  BY DEF Steady, Banked, HeldOrStored, CheckpointInv, Announced

\* A call at one of these steps relies on nothing yet, or no longer.
LEMMA FreeStep ==
    ASSUME Typed, CheckpointInv, NEW a \in Actors, Aside(a),
           \/ proc'[a].pc \in {"idle", "evalRead", "evalWrite", "finRead", "finClaim",
                               "leaveWrite"}
           \/ proc'[a].pc \in {"order", "rank", "rate", "close"} /\ proc'[a].kind = "direct",
           UNCHANGED <<cp, saved, acked, unsaved, claimed, results>>
    PROVE  CheckpointInv'
  <1>1. Steady /\ HeldOrStored' /\ Announced'
    BY SteadyStep
  <1>2. Relies(a)'
    BY DEF Relies, Migrated
  <1> QED
    BY <1>1, <1>2, RelyStep

LEMMA ArriveShape ==
    ASSUME Typed, NEW a \in Actors, Arrive(a) \/ Sweep(a)
    PROVE  Aside(a) /\ Fresh(a)
  <1>1. CASE \E p \in Players, q \in Problems : Submit(a, p, q) \/ WorkerVerdict(a, p, q)
    BY <1>1, SubmitShape, WorkerShape
  <1>2. CASE \E p \in Players : LeaveBattle(a, p) \/ DisconnectTimeout(a, p)
    BY <1>2, GoesAwayShape, OpponentPlays DEF LeaveBattle, DisconnectTimeout
  <1>3. CASE TimerFires(a) \/ FinishRoute(a) \/ Sweep(a)
    BY <1>3, DirectShape
  <1> QED
    BY <1>1, <1>2, <1>3 DEF Arrive

LEMMA ArriveKeeps ==
    ASSUME Typed, CheckpointInv, NEW a \in Actors, Arrive(a) \/ Sweep(a)
    PROVE  CheckpointInv'
  <1>1. Aside(a) /\ Fresh(a)
    BY ArriveShape
  <1>2. UNCHANGED <<redis, cp, saved, acked, unsaved, claimed, results>>
    BY DEF Arrive, Sweep, Submit, WorkerVerdict, Accepted, LeaveBattle, DisconnectTimeout,
           GoesAway, TimerFires, FinishRoute
  <1> QED
    BY <1>1, <1>2, FreeStep DEF Fresh

LEMMA SolveKeeps ==
    ASSUME Typed, CheckpointInv, NEW a \in Actors,
           EvalRead(a) \/ EvalWrite(a) \/ LeaveWrite(a) \/ FinRead(a) \/ Abort(a)
    PROVE  CheckpointInv'
  <1>1. UNCHANGED <<cp, saved, acked, unsaved, claimed, results>>
    BY DEF EvalRead, EvalWrite, LeaveWrite, FinRead, Abort
  <1>2. Aside(a) /\ proc'[a].pc \in {"idle", "evalWrite", "finRead", "finClaim"}
    <2>1. CASE Done(a)
      BY <2>1, DoneStep, IdleShaped DEF Typed
    <2>2. CASE EvalRead(a) \/ EvalWrite(a) \/ FinRead(a)
      BY <2>2, EvalReadShape, EvalWriteShape, FinReadShape, IdleShaped
    <2> QED
      BY <2>1, <2>2 DEF LeaveWrite, Abort
  <1> QED
    BY <1>1, <1>2, FreeStep

(* The claim fixes what has to be stored; only the first one does.         *)
LEMMA ClaimKeeps ==
    ASSUME Typed, CheckpointInv, NEW a \in Actors, FinClaim(a)
    PROVE  CheckpointInv'
  <1>1. Aside(a) /\ proc'[a].pc = "migrate" /\ proc'[a].k = 1
    BY GotoStep DEF FinClaim, Typed
  <1>2. /\ claimed' = TRUE
        /\ acked' = IF claimed THEN acked ELSE cp
        /\ UNCHANGED <<cp, saved, unsaved, results>>
    BY DEF FinClaim
  <1>3. Steady
    BY <1>2 DEF Steady, Banked
  <1>4. HeldOrStored'
    BY <1>2, RevisionsTyped DEF HeldOrStored, CheckpointInv, Max2
  <1>5. Announced'
    BY <1>2 DEF Announced, CheckpointInv, Banked
  <1>6. Relies(a)'
    <2>1. proc'[a].k - 1 = 0
      BY <1>1
    <2>2. Banked(0)'
      BY <1>2 DEF Banked, Players
    <2>3. Banked(proc[a].k - 1)'
      BY <2>1, <2>2 DEF Banked
    <2> QED
      BY <1>1, <2>3 DEF Relies, Migrated
  <1> QED
    BY <1>1, <1>3, <1>4, <1>5, <1>6, RelyStep

(* Each turn of the migration loop stores one player's checkpoints.        *)
LEMMA MigrateKeeps ==
    ASSUME Typed, CheckpointInv, NEW a \in Actors, Migrate(a)
    PROVE  CheckpointInv'
  <1>0. PICK k : k = proc[a].k
    OBVIOUS
  <1>1. /\ Aside(a) /\ k \in Players
        /\ \/ k < N /\ proc'[a].k = k + 1 /\ proc'[a].pc = "migrate"
           \/ k = N /\ proc'[a].pc \in {"evict", "order"}
    BY <1>0, MigrateShape
  <1>2. /\ UNCHANGED <<cp, acked, claimed, results>>
        /\ Banked(k - 1) /\ HeldOrStored
        /\ Store(k) \/ StoreFails(k)
    BY <1>0 DEF Migrate, CheckpointInv, Relies
  <1>3. k \in Nat /\ N \in Nat
    BY <1>1, SomePlayers
  <1>4. /\ unsaved \subseteq unsaved'
        /\ \A p \in Players : saved'[p] >= saved[p]
        /\ k \in unsaved' \/ saved'[k] >= acked[k]
    <2>1. CASE Store(k)
      BY <1>1, <1>2, <2>1, RevisionsTyped DEF Store, Max2, HeldOrStored, Banked
    <2>2. CASE StoreFails(k)
      BY <1>1, <1>2, <2>2, RevisionsTyped DEF StoreFails
    <2> QED
      BY <1>2, <2>1, <2>2
  <1>5. \A p \in Players : /\ saved'[p] \in Nat /\ saved[p] \in Nat
                           /\ acked[p] \in Nat /\ cp[p] \in Nat
    BY <1>1, <1>2, RevisionsTyped DEF Store, StoreFails, Max2
  <1>6. Steady
    BY <1>2, <1>4, <1>5 DEF Steady, Banked
  <1>7. HeldOrStored'
    BY <1>2, <1>4, <1>5 DEF HeldOrStored, Max2
  <1>8. Announced'
    BY <1>2, <1>3, <1>6 DEF Announced, CheckpointInv, Steady
  <1>9. Banked(k)'
    <2>1. ASSUME NEW p \in Players, p <= k PROVE p \in unsaved' \/ saved'[p] >= acked[p]
      <3>1. CASE p = k
        BY <1>4, <3>1
      <3>2. CASE p # k
        <4>1. p <= k - 1
          BY <1>3, <2>1, <3>2, SomePlayers
        <4> QED
          BY <1>2, <1>4, <1>5, <4>1 DEF Banked
      <3> QED
        BY <3>1, <3>2
    <2> QED
      BY <1>2, <2>1 DEF Banked
  <1>10. Relies(a)'
    <2>1. CASE proc'[a].k = k + 1 /\ proc'[a].pc = "migrate"
      <3>1. k = proc'[a].k - 1
        BY <1>3, <2>1
      <3>2. Banked(proc[a].k - 1)'
        BY <1>9, <3>1 DEF Banked
      <3> QED
        BY <2>1, <3>2 DEF Relies, Migrated
    <2>2. CASE k = N /\ proc'[a].pc \in {"evict", "order"}
      <3>1. Banked(N)'
        BY <1>9, <2>2 DEF Banked
      <3> QED
        BY <2>2, <3>1 DEF Relies, Migrated
    <2> QED
      BY <1>1, <2>1, <2>2
  <1> QED
    BY <1>1, <1>6, <1>7, <1>8, <1>10, RelyStep

(* The steps of BattleRoomService.finishBattle.                            *)
LEMMA ResolveKeeps ==
    ASSUME Typed, CheckpointInv, NEW a \in Actors,
           Order(a) \/ Rank(a) \/ Rate(a) \/ Close(a)
    PROVE  CheckpointInv'
  <1>1. UNCHANGED <<redis, cp, saved, acked, unsaved, claimed, results>>
    BY DEF Order, Rank, Rate, Close
  <1>2. Steady /\ HeldOrStored' /\ Announced'
    BY <1>1, SteadyStep
  <1>3. Banked(N) => Banked(N)'
    BY <1>2, SomePlayers DEF Steady
  <1>4. /\ Aside(a)
        /\ proc[a].pc \in {"order", "rank", "rate", "close"}
        /\ \/ proc'[a].pc \in {"rank", "rate", "close"} /\ proc'[a].kind = proc[a].kind
           \/ proc[a].kind # "direct" /\ proc'[a].pc = "evict"
           \/ proc'[a].pc = "idle"
    <2>1. CASE Order(a)
      BY <2>1, OrderShape DEF Order, Keeps
    <2>2. CASE Rank(a) \/ Rate(a)
      BY <2>2, RankShape, RateShape DEF Rank, Rate, Keeps
    <2>3. CASE Close(a)
      <3>1. proc[a].pc = "close"
        BY <2>3 DEF Close
      <3> QED
        BY <2>3, <3>1, CloseShape, IdleShaped
    <2> QED
      BY <2>1, <2>2, <2>3
  <1>5. Relies(a)'
    BY <1>3, <1>4 DEF Relies, Migrated, CheckpointInv
  <1> QED
    BY <1>2, <1>4, <1>5, RelyStep

(* Only a call with everything banked evicts, drops and announces.         *)
LEMMA CleanKeeps ==
    ASSUME Typed, CheckpointInv, NEW a \in Actors, Evict(a) \/ Drop(a) \/ Publish(a)
    PROVE  CheckpointInv'
  <1>1. Banked(N) /\ UNCHANGED <<saved, acked, unsaved, claimed>>
    BY DEF Evict, Drop, Publish, CheckpointInv, Relies, Migrated
  <1>2. Steady /\ Banked(N)'
    BY <1>1 DEF Steady, Banked
  <1>3. cp' \in [Players -> Nat]
    BY RevisionsTyped DEF Evict, Drop, Publish, NoRevision
  <1>4. HeldOrStored'
    BY <1>1, <1>3, RevisionsTyped, SomePlayers DEF HeldOrStored, Banked, Max2, Players
  <1>5. Aside(a) /\ proc'[a].pc \in {"evict", "drop", "publish", "idle"}
    BY CloseShape, IdleShaped
  <1>6. Relies(a)' /\ Announced'
    BY <1>2, <1>5 DEF Relies, Announced
  <1> QED
    BY <1>2, <1>4, <1>5, <1>6, RelyStep

(* Players and the clock take nothing away.                                *)
LEMMA WorldKeeps ==
    ASSUME Typed, CheckpointInv,
           (\E p \in Players : CheckpointSync(p)) \/ TimeUp \/ StateExpires \/ UNCHANGED vars
    PROVE  CheckpointInv'
  <1>1. UNCHANGED <<saved, acked, unsaved, claimed, results, proc>>
    BY DEF CheckpointSync, TimeUp, StateExpires, vars
  <1>2. cp' \in [Players -> Nat] /\ \A p \in Players : cp'[p] >= cp[p]
    <2>1. CASE \E p \in Players : CheckpointSync(p)
      BY <2>1, RevisionsTyped DEF CheckpointSync, Max2
    <2>2. CASE TimeUp \/ StateExpires \/ UNCHANGED vars
      BY <2>2, RevisionsTyped DEF TimeUp, StateExpires, vars
    <2> QED
      BY <2>1, <2>2
  <1>3. HeldOrStored'
    BY <1>1, <1>2, RevisionsTyped DEF HeldOrStored, Max2, CheckpointInv
  <1>4. (\A a \in Actors : Relies(a)') /\ Announced'
    BY <1>1 DEF CheckpointInv, Relies, Migrated, Banked, Announced
  <1> QED
    BY <1>3, <1>4 DEF CheckpointInv

(* Every checkpoint the server held when the battle was first claimed is   *)
(* in Postgres before anybody hears of the result, but for players whose   *)
(* checkpoint Postgres refused, for any number of players, of calls racing *)
(* to finish the battle, and of calls that die half way: who evicts, drops *)
(* the document or announces has the whole migration behind it, and what   *)
(* it stored is never taken back.                                          *)
THEOREM NoAckedWorkIsLost == Spec => []AckedWorkSurvives
  <1>1. Typed /\ CheckpointInv /\ [Next]_vars => CheckpointInv'
    BY ArriveKeeps, SolveKeeps, ClaimKeeps, MigrateKeeps, ResolveKeeps, CleanKeeps, WorldKeeps
       DEF Next, Continue
  <1>2. CheckpointInv => AckedWorkSurvives
    BY SomePlayers DEF CheckpointInv, Announced, Banked, AckedWorkSurvives, Players
  <1> QED
    BY <1>1, <1>2, InitCheckpoint, AlwaysTyped, PTL DEF Spec

-----------------------------------------------------------------------------
(* Ratings                                                                 *)

Contested == quit # {} \/ accepted # <<>>

\* A call that knows of no solve and of nobody who left.
Calm(r) ==
    /\ r.pc \notin {"evalRead", "evalWrite", "leaveWrite", "rate"}
    /\ r.elo = FALSE
    /\ r.forfeit = Nobody
    /\ \A p \in Players : r.snap.solved[p] = {}

\* Before anything happened there is nothing to rate.
Untouched ==
    /\ \A p \in Players : redis.solved[p] = {} /\ rated[p] = 0 /\ solvedAt[p] = 0
    /\ \A a \in Actors : Calm(proc[a])

PeaceInv == Contested \/ Untouched

LEMMA IdleCalm == Calm(Idle)
  BY IdleShaped, GoneTyped DEF Calm

LEMMA InitPeace == Init => PeaceInv
  <1> SUFFICES ASSUME Init PROVE Untouched
    BY DEF PeaceInv
  <1>1. \A p \in Players : redis.solved[p] = {}
    BY GoneTyped DEF Init, Gone
  <1> QED
    BY <1>1, IdleCalm DEF Init, Untouched

(* A step of one call that finds and leaves everything untouched.          *)
LEMMA CalmStep ==
    ASSUME Untouched, NEW a \in Actors, Aside(a), Calm(proc'[a]),
           \A p \in Players : redis'.solved[p] = {} /\ rated'[p] = 0 /\ solvedAt'[p] = 0
    PROVE  Untouched'
  BY DEF Untouched, Aside, Calm

LEMMA ArrivePeace ==
    ASSUME Typed, PeaceInv, NEW a \in Actors, Arrive(a) \/ Sweep(a)
    PROVE  PeaceInv'
  <1>1. ASSUME NEW p \in Players, NEW q \in Problems, Submit(a, p, q) \/ WorkerVerdict(a, p, q)
        PROVE  Contested'
    <2>1. <<p, q>> \in Members(accepted')
      BY <1>1, AcceptedStep DEF Submit, WorkerVerdict
    <2> QED
      BY <2>1 DEF Contested, Members
  <1>2. CASE \E p \in Players : LeaveBattle(a, p) \/ DisconnectTimeout(a, p)
    BY <1>2 DEF LeaveBattle, DisconnectTimeout, GoesAway, Contested, PeaceInv
  <1>3. CASE TimerFires(a) \/ FinishRoute(a) \/ Sweep(a)
    <2>1. UNCHANGED <<redis, rated, solvedAt, accepted, quit>>
      BY <1>3 DEF TimerFires, FinishRoute, Sweep
    <2>2. Aside(a) /\ Calm(proc'[a])
      BY <1>3, DirectShape, GoneTyped DEF Fresh, Calm
    <2> QED
      BY <2>1, <2>2, CalmStep DEF PeaceInv, Contested, Untouched
  <1> QED
    BY <1>1, <1>2, <1>3 DEF Arrive, PeaceInv

LEMMA SolvePeace ==
    ASSUME Typed, Untouched, NEW a \in Actors,
           EvalRead(a) \/ EvalWrite(a) \/ LeaveWrite(a) \/ FinRead(a) \/ FinClaim(a) \/ Abort(a)
    PROVE  Untouched'
  <1>1. proc[a].pc \notin {"evalRead", "evalWrite", "leaveWrite"} /\ Calm(proc[a])
    BY DEF Untouched, Calm
  <1>2. UNCHANGED <<rated, solvedAt>>
    BY <1>1 DEF EvalRead, EvalWrite, LeaveWrite, FinRead, FinClaim, Abort
  <1>3. CASE FinRead(a)
    <2>1. redis' = redis /\ Aside(a) /\ Calm(proc'[a])
      BY <1>1, <1>3, FinReadShape, IdleCalm DEF FinRead, Calm, Keeps, Holds, Untouched
    <2> QED
      BY <1>2, <2>1, CalmStep DEF Untouched
  <1>4. CASE FinClaim(a)
    <2>1. Aside(a) /\ Calm(proc'[a])
      BY <1>1, <1>4, GotoStep DEF FinClaim, Typed, Calm, Keeps, Holds
    <2>2. redis'.solved = proc[a].snap.solved
      BY <1>4, CallTyped DEF FinClaim, Typed, Document
    <2> QED
      BY <1>1, <1>2, <2>1, <2>2, CalmStep DEF Untouched, Calm
  <1>5. CASE Abort(a)
    <2>1. redis' = redis /\ Aside(a) /\ Calm(proc'[a])
      BY <1>5, DoneStep, IdleCalm DEF Abort, Typed
    <2> QED
      BY <1>2, <2>1, CalmStep DEF Untouched
  <1> QED
    BY <1>1, <1>3, <1>4, <1>5 DEF EvalRead, EvalWrite, LeaveWrite

LEMMA FinishPeace ==
    ASSUME Typed, Untouched, NEW a \in Actors,
           \/ Migrate(a) \/ Order(a) \/ Rank(a) \/ Rate(a) \/ Close(a)
           \/ Evict(a) \/ Drop(a) \/ Publish(a)
    PROVE  Untouched'
  <1>0. Calm(proc[a])
    BY DEF Untouched
  <1>1. CASE Migrate(a)
    <2>1. Aside(a) /\ Calm(proc'[a]) /\ proc[a].k \in Players
      BY <1>0, <1>1, MigrateShape DEF Calm, Keeps, Holds
    <2>2. UNCHANGED <<redis, rated, solvedAt>>
      BY <1>0, <1>1, <2>1 DEF Migrate, Record, Calm
    <2> QED
      BY <2>1, <2>2, CalmStep DEF Untouched
  <1>2. CASE Order(a)
    <2>1. UNCHANGED <<redis, rated, solvedAt>> /\ ~ShouldApplyElo(proc[a].forfeit)
      BY <1>0, <1>2 DEF Order, ShouldApplyElo, Calm, Untouched
    <2>2. Aside(a) /\ Calm(proc'[a])
      BY <1>0, <1>2, <2>1, OrderShape, GoneTyped DEF Calm, Keeps
    <2> QED
      BY <2>1, <2>2, CalmStep DEF Untouched
  <1>3. CASE Rank(a)
    <2>1. Aside(a) /\ Calm(proc'[a])
      BY <1>0, <1>3, RankShape DEF Calm, Keeps, Holds
    <2> QED
      BY <1>3, <2>1, CalmStep DEF Untouched, Rank
  <1>4. ~Rate(a)
    BY <1>0 DEF Rate, Calm
  <1>5. CASE Close(a) \/ Evict(a) \/ Drop(a) \/ Publish(a)
    <2>1. UNCHANGED <<rated, solvedAt>> /\ redis' \in {redis, Gone}
      BY <1>5 DEF Close, Evict, Drop, Publish
    <2>2. Aside(a) /\ Calm(proc'[a])
      BY <1>0, <1>5, CloseShape, IdleCalm DEF Calm, Keeps, Holds
    <2> QED
      BY <2>1, <2>2, GoneTyped, CalmStep DEF Untouched
  <1> QED
    BY <1>1, <1>2, <1>3, <1>4, <1>5

LEMMA WorldPeace ==
    ASSUME Untouched,
           (\E p \in Players : CheckpointSync(p)) \/ TimeUp \/ StateExpires \/ UNCHANGED vars
    PROVE  Untouched'
  <1>1. UNCHANGED <<rated, solvedAt, proc>> /\ redis' \in {redis, Gone}
    BY DEF CheckpointSync, TimeUp, StateExpires, vars
  <1> QED
    BY <1>1, GoneTyped DEF Untouched

\* Only arrivals add answers and quitters.
LEMMA HistoryStep ==
    ASSUME \/ \E a \in Actors : Continue(a) \/ Abort(a)
           \/ \E p \in Players : CheckpointSync(p)
           \/ TimeUp \/ StateExpires \/ UNCHANGED vars
    PROVE  UNCHANGED <<accepted, quit>>
  BY DEF Continue, EvalRead, EvalWrite, LeaveWrite, FinRead, FinClaim, Migrate,
         Order, Rank, Rate, Close, Evict, Drop, Publish, Abort, CheckpointSync,
         TimeUp, StateExpires, vars

(* However calls overlap, a rating moves only in a battle somebody solved  *)
(* a problem of or left: until then no copy of the document, no timestamp  *)
(* and no call in flight has anything for finishBattle to rate.            *)
THEOREM OnlyContestedBattlesAreRated == Spec => []RatedOnlyIfContested
  <1>1. Typed /\ PeaceInv /\ [Next]_vars => PeaceInv'
    <2> SUFFICES ASSUME Typed, PeaceInv, [Next]_vars PROVE PeaceInv'
      OBVIOUS
    <2>1. CASE \E a \in Actors : Arrive(a) \/ Sweep(a)
      BY <2>1, ArrivePeace
    <2>2. CASE \/ \E a \in Actors : Continue(a) \/ Abort(a)
               \/ \E p \in Players : CheckpointSync(p)
               \/ TimeUp \/ StateExpires \/ UNCHANGED vars
      <3>1. UNCHANGED <<accepted, quit>>
        BY <2>2, HistoryStep
      <3>2. Untouched => Untouched'
        BY <2>2, SolvePeace, FinishPeace, WorldPeace DEF Continue
      <3> QED
        BY <3>1, <3>2 DEF PeaceInv, Contested
    <2> QED
      BY <2>1, <2>2 DEF Next
  <1>2. PeaceInv => RatedOnlyIfContested
    BY DEF PeaceInv, Contested, Untouched, RatedOnlyIfContested
  <1> QED
    BY <1>1, <1>2, InitPeace, AlwaysTyped, PTL DEF Spec

-----------------------------------------------------------------------------
(* Winners                                                                 *)

\* A document shows only answers that were accepted.
Genuine(doc) == \A p \in Players : doc.solved[p] \subseteq Solves(p)

Earned(winner, forfeit) ==
    winner # Nobody /\ forfeit = Nobody => Cardinality(Solves(winner)) >= TotalQuestions

\* What a call carries: a genuine copy, an accepted answer, an earned victory.
Honest(r) ==
    /\ Genuine(r.snap)
    /\ r.pc \in {"evalRead", "evalWrite"} => r.problem \in Solves(r.player)
    /\ Earned(r.winner, r.forfeit)

HonestInv ==
    /\ Genuine(redis)
    /\ \A a \in Actors : Honest(proc[a])
    /\ WinnerEarnedIt

\* Answers are only added.
Grows == \A p \in Players : Solves(p) \subseteq Solves(p)'

LEMMA SolvesInProblems == \A p : Solves(p) \subseteq Problems /\ Solves(p)' \subseteq Problems
  BY DEF Solves

\* Who has enough problems and gains some still has enough.
LEMMA EnoughStays ==
    ASSUME NEW S, NEW T, S \subseteq T, T \subseteq Problems,
           Cardinality(S) >= TotalQuestions
    PROVE  Cardinality(T) >= TotalQuestions
  <1>1. IsFiniteSet(T)
    BY FS_Subset, LiveAssumption DEF LiveAssumption
  <1>2. IsFiniteSet(S) /\ Cardinality(S) <= Cardinality(T)
    BY <1>1, FS_Subset
  <1>3. Cardinality(S) \in Nat /\ Cardinality(T) \in Nat /\ TotalQuestions \in Nat
    BY <1>1, <1>2, FS_CardinalityType, LiveAssumption DEF LiveAssumption
  <1> QED
    BY <1>2, <1>3

LEMMA GoneGenuine == Genuine(Gone) /\ Genuine(Gone)'
  BY GoneTyped DEF Genuine

LEMMA IdleHonest == Honest(Idle) /\ Honest(Idle)'
  BY IdleShaped, GoneGenuine DEF Honest, Earned, Genuine

LEMMA InitHonest == Init => HonestInv
  <1> SUFFICES ASSUME Init PROVE HonestInv
    OBVIOUS
  <1>1. Genuine(redis)
    BY GoneTyped DEF Init, Gone, Genuine
  <1> QED
    BY <1>1, IdleHonest DEF Init, HonestInv, WinnerEarnedIt

LEMMA StillGenuine ==
    ASSUME Grows, NEW doc, Genuine(doc)
    PROVE  Genuine(doc)'
  BY DEF Genuine, Grows

LEMMA StillEarned ==
    ASSUME Grows, NEW w \in Players \cup {Nobody}, NEW f, Earned(w, f)
    PROVE  Earned(w, f)'
  <1> SUFFICES ASSUME w # Nobody, f = Nobody
               PROVE  Cardinality(Solves(w)') >= TotalQuestions
    BY DEF Earned
  <1>1. w \in Players /\ Cardinality(Solves(w)) >= TotalQuestions
    BY DEF Earned
  <1> QED
    BY <1>1, SolvesInProblems, EnoughStays DEF Grows

LEMMA StillHonest ==
    ASSUME Typed, Grows, NEW b \in Actors, Honest(proc[b]), proc'[b] = proc[b]
    PROVE  Honest(proc[b])'
  <1>1. /\ proc[b].winner \in Players \cup {Nobody}
        /\ proc[b].pc \in {"evalRead", "evalWrite"} => proc[b].player \in Players
    BY CallTyped DEF Typed
  <1>2. Genuine(proc[b].snap)' /\ Earned(proc[b].winner, proc[b].forfeit)'
    <2>1. Genuine(proc[b].snap) /\ Earned(proc[b].winner, proc[b].forfeit)
      BY DEF Honest
    <2>2. PICK s, w, f : s = proc[b].snap /\ w = proc[b].winner /\ f = proc[b].forfeit
      OBVIOUS
    <2>3. Genuine(s)' /\ Earned(w, f)'
      BY <1>1, <2>1, <2>2, StillGenuine, StillEarned
    <2> QED
      BY <2>2, <2>3 DEF Genuine, Earned
  <1>3. proc[b].pc \in {"evalRead", "evalWrite"}
          => proc[b].problem \in Solves(proc[b].player)'
    BY <1>1 DEF Honest, Grows
  <1> QED
    BY <1>2, <1>3 DEF Honest, Solves

(* A step of one call that leaves it, the document and the results honest. *)
LEMMA HonestStep ==
    ASSUME Typed, HonestInv, NEW a \in Actors, Grows, Aside(a),
           Genuine(redis)', Honest(proc[a])', results' = results \/ WinnerEarnedIt'
    PROVE  HonestInv'
  <1>1. ASSUME NEW b \in Actors PROVE Honest(proc[b])'
    BY <1>1, StillHonest DEF Aside, HonestInv
  <1>2. ASSUME results' = results PROVE WinnerEarnedIt'
    <2> SUFFICES ASSUME NEW r \in results, r.winner # Nobody, r.forfeit = Nobody
                 PROVE  Cardinality(Solves(r.winner)') >= TotalQuestions
      BY <1>2 DEF WinnerEarnedIt
    <2>1. r.winner \in Players /\ Cardinality(Solves(r.winner)) >= TotalQuestions
      BY DEF HonestInv, WinnerEarnedIt, Typed, TypeOK
    <2>2. PICK w : w = r.winner
      OBVIOUS
    <2>3. Cardinality(Solves(w)') >= TotalQuestions
      BY <2>1, <2>2, SolvesInProblems, EnoughStays DEF Grows
    <2> QED
      BY <2>2, <2>3 DEF Solves
  <1> QED
    BY <1>1, <1>2 DEF HonestInv

LEMMA AcceptedSolves ==
    ASSUME Typed, NEW p \in Players, NEW q \in Problems, Accepted(p, q)
    PROVE  Grows /\ q \in Solves(p)'
  BY AcceptedStep DEF Grows, Solves

LEMMA NothingAccepted == accepted' = accepted => Grows /\ \A p : Solves(p)' = Solves(p)
  BY DEF Grows, Solves

LEMMA ArriveHonest ==
    ASSUME Typed, HonestInv, NEW a \in Actors, Arrive(a) \/ Sweep(a)
    PROVE  HonestInv'
  <1>0. redis' = redis /\ results' = results /\ Genuine(redis)
    BY DEF Arrive, Sweep, Submit, WorkerVerdict, LeaveBattle, DisconnectTimeout,
           GoesAway, TimerFires, FinishRoute, HonestInv
  <1>1. ASSUME NEW p \in Players, NEW q \in Problems, Submit(a, p, q) \/ WorkerVerdict(a, p, q)
        PROVE  HonestInv'
    <2>1. Grows /\ q \in Solves(p)'
      BY <1>1, AcceptedSolves DEF Submit, WorkerVerdict
    <2>2. Genuine(redis)'
      BY <1>0, <2>1 DEF Genuine, Grows
    <2>3. /\ Aside(a)
          /\ proc'[a].snap \in {redis, Gone} /\ proc'[a].player = p /\ proc'[a].problem = q
          /\ proc'[a].winner = Nobody
      BY <1>1, SubmitShape, WorkerShape
    <2>4. Honest(proc[a])'
      BY <1>0, <2>1, <2>2, <2>3, GoneGenuine DEF Honest, Earned, Genuine
    <2> QED
      BY <1>0, <2>1, <2>2, <2>3, <2>4, HonestStep
  <1>2. CASE \/ \E p \in Players : LeaveBattle(a, p) \/ DisconnectTimeout(a, p)
             \/ TimerFires(a) \/ FinishRoute(a) \/ Sweep(a)
    <2>1. accepted' = accepted
      BY <1>2 DEF LeaveBattle, DisconnectTimeout, GoesAway, TimerFires, FinishRoute, Sweep
    <2>2. Grows /\ Genuine(redis)'
      BY <1>0, <2>1, NothingAccepted DEF Genuine, Grows
    <2>3. /\ Aside(a) /\ proc'[a].pc \in {"finRead", "leaveWrite", "order"}
          /\ proc'[a].winner = Nobody \/ proc'[a].forfeit \in Players
          /\ proc'[a].snap = Gone \/ proc'[a].snap.solved = redis.solved
      <3>1. CASE \E p \in Players : LeaveBattle(a, p) \/ DisconnectTimeout(a, p)
        BY <3>1, GoesAwayShape, OpponentPlays DEF LeaveBattle, DisconnectTimeout
      <3>2. CASE TimerFires(a) \/ FinishRoute(a) \/ Sweep(a)
        BY <3>2, DirectShape
      <3> QED
        BY <1>2, <3>1, <3>2
    <2>4. Honest(proc[a])'
      BY <1>0, <2>2, <2>3, GoneGenuine, SomePlayers DEF Honest, Earned, Genuine
    <2> QED
      BY <1>0, <2>2, <2>3, <2>4, HonestStep
  <1> QED
    BY <1>1, <1>2 DEF Arrive

LEMMA SolveHonest ==
    ASSUME Typed, HonestInv, NEW a \in Actors,
           EvalRead(a) \/ EvalWrite(a) \/ LeaveWrite(a) \/ FinRead(a) \/ FinClaim(a) \/ Abort(a)
    PROVE  HonestInv'
  <1>1. accepted' = accepted /\ results' = results
    BY DEF EvalRead, EvalWrite, LeaveWrite, FinRead, FinClaim, Abort
  <1>2. Grows /\ \A p : Solves(p)' = Solves(p)
    BY <1>1, NothingAccepted
  <1>3. Honest(proc[a]) /\ Genuine(redis)
    BY DEF HonestInv
  <1>4. /\ Aside(a)
        /\ \A p \in Players : redis'.solved[p] \subseteq Solves(p)
        /\ Honest(proc[a])'
    <2>1. CASE EvalRead(a) \/ FinRead(a)
      <3>1. redis' = redis /\ (FinRead(a) => proc[a].pc = "finRead")
                           /\ (EvalRead(a) => proc[a].pc = "evalRead")
        BY <2>1 DEF EvalRead, FinRead
      <3>2. /\ Aside(a)
            /\ \/ proc'[a] = Idle
               \/ /\ Keeps(a) /\ proc'[a].snap = redis
                  /\ proc'[a].pc = "finClaim" \/ proc[a].pc = "evalRead"
        BY <2>1, <3>1, EvalReadShape, FinReadShape
      <3>3. CASE proc'[a] = Idle
        BY <1>3, <3>1, <3>2, <3>3, IdleHonest DEF Genuine, Honest
      <3>4. CASE /\ Keeps(a) /\ proc'[a].snap = redis
                 /\ proc'[a].pc = "finClaim" \/ proc[a].pc = "evalRead"
        BY <1>2, <1>3, <3>1, <3>2, <3>4 DEF Genuine, Honest, Keeps, Earned
      <3> QED
        BY <3>2, <3>3, <3>4
    <2>2. CASE EvalWrite(a)
      <3>1. proc[a].pc = "evalWrite"
        BY <2>2 DEF EvalWrite
      <3>2. \A p \in Players : redis'.solved[p] \subseteq Solves(p)
        <4>1. proc[a].problem \in Solves(proc[a].player)
          BY <1>3, <3>1 DEF Honest
        <4>2. \A p \in Players : proc[a].snap.solved[p] \subseteq Solves(p)
          BY <1>3 DEF Honest, Genuine
        <4>3. \A p \in Players : redis'.solved[p] =
                IF p = proc[a].player THEN proc[a].snap.solved[p] \cup {proc[a].problem}
                                      ELSE proc[a].snap.solved[p]
          BY <2>2, EvalWriteShape
        <4> QED
          BY <4>1, <4>2, <4>3
      <3>3. CASE proc'[a] = Idle
        BY <2>2, <3>2, <3>3, EvalWriteShape, IdleHonest DEF Honest
      <3>4. CASE proc'[a] # Idle
        <4>1. /\ Aside(a) /\ proc[a].player \in Players /\ proc'[a].pc = "finRead"
              /\ proc'[a].snap = Gone /\ proc'[a].winner = proc[a].player
              /\ Cardinality(redis'.solved[proc[a].player]) >= TotalQuestions
          BY <2>2, <3>4, EvalWriteShape
        <4>2. Cardinality(Solves(proc[a].player)) >= TotalQuestions
          BY <3>2, <4>1, SolvesInProblems, EnoughStays
        <4> QED
          BY <1>2, <3>2, <4>1, <4>2, GoneGenuine DEF Honest, Earned, Genuine
      <3> QED
        BY <3>3, <3>4
    <2>3. CASE LeaveWrite(a) \/ Abort(a)
      <3>1. Aside(a) /\ proc'[a] = Idle /\ redis' \in {redis, proc[a].snap}
        BY <2>3, DoneStep DEF LeaveWrite, Abort, Typed
      <3> QED
        BY <1>3, <3>1, IdleHonest DEF Honest, Genuine
    <2>4. CASE FinClaim(a)
      <3>1. Aside(a) /\ Keeps(a) /\ proc'[a].pc = "migrate" /\ proc'[a].snap = proc[a].snap
        BY <2>4, GotoStep DEF FinClaim, Typed
      <3>2. redis'.solved = proc[a].snap.solved
        BY <2>4, CallTyped DEF FinClaim, Typed, Document
      <3> QED
        BY <1>2, <1>3, <3>1, <3>2 DEF Honest, Genuine, Keeps, Earned
    <2> QED
      BY <2>1, <2>2, <2>3, <2>4
  <1>5. Genuine(redis)'
    BY <1>2, <1>4 DEF Genuine
  <1> QED
    BY <1>1, <1>2, <1>4, <1>5, HonestStep

LEMMA FinishHonest ==
    ASSUME Typed, HonestInv, NEW a \in Actors,
           \/ Migrate(a) \/ Order(a) \/ Rank(a) \/ Rate(a) \/ Close(a)
           \/ Evict(a) \/ Drop(a) \/ Publish(a)
    PROVE  HonestInv'
  <1>1. accepted' = accepted /\ redis' \in {redis, Gone}
    BY DEF Migrate, Order, Rank, Rate, Close, Evict, Drop, Publish
  <1>2. Grows /\ \A p : Solves(p)' = Solves(p)
    BY <1>1, NothingAccepted
  <1>3. Honest(proc[a]) /\ Genuine(redis)
    BY DEF HonestInv
  <1>4. Genuine(redis)'
    BY <1>1, <1>2, <1>3, GoneTyped DEF Genuine
  <1>5. /\ Aside(a)
        /\ \/ proc'[a] = Idle
           \/ /\ Keeps(a) /\ proc'[a].snap \in {proc[a].snap, Gone}
              /\ proc'[a].pc \notin {"evalRead", "evalWrite"}
    BY MigrateShape, OrderShape, RankShape, RateShape, CloseShape
  <1>6. Honest(proc[a])'
    BY <1>2, <1>3, <1>5, IdleHonest, GoneGenuine DEF Honest, Genuine, Keeps, Earned
  <1>7. results' = results \/ WinnerEarnedIt'
    <2>1. CASE Publish(a)
      <3> SUFFICES ASSUME NEW r \in results', r.winner # Nobody, r.forfeit = Nobody
                   PROVE  Cardinality(Solves(r.winner)) >= TotalQuestions
        <4>1. \A p : Solves(p)' = Solves(p)
          BY <1>2
        <4> QED
          BY <4>1 DEF WinnerEarnedIt
      <3>1. r \in results \/ r = [winner |-> proc[a].winner, forfeit |-> proc[a].forfeit]
        BY <2>1 DEF Publish
      <3> QED
        BY <1>3, <3>1 DEF HonestInv, WinnerEarnedIt, Honest, Earned
    <2>2. CASE ~Publish(a)
      BY <2>2 DEF Migrate, Order, Rank, Rate, Close, Evict, Drop
    <2> QED
      BY <2>1, <2>2
  <1> QED
    BY <1>2, <1>4, <1>5, <1>6, <1>7, HonestStep

LEMMA WorldHonest ==
    ASSUME HonestInv,
           (\E p \in Players : CheckpointSync(p)) \/ TimeUp \/ StateExpires \/ UNCHANGED vars
    PROVE  HonestInv'
  <1>1. UNCHANGED <<accepted, results, proc>> /\ redis' \in {redis, Gone}
    BY DEF CheckpointSync, TimeUp, StateExpires, vars
  <1>2. \A p : Solves(p)' = Solves(p)
    BY <1>1, NothingAccepted
  <1> QED
    BY <1>1, <1>2, GoneTyped DEF HonestInv, Genuine, Honest, Earned, WinnerEarnedIt

(* BATTLE_FINISHED never names a winner by solving who had not as many     *)
(* problems accepted as the room has: a document, however stale the copy   *)
(* it was written from, shows only answers that were accepted, and a call  *)
(* that counted enough of them keeps being right about it until it         *)
(* announces.                                                              *)
THEOREM WinnersEarnedIt == Spec => []WinnerEarnedIt
  <1>1. Typed /\ HonestInv /\ [Next]_vars => HonestInv'
    BY ArriveHonest, SolveHonest, FinishHonest, WorldHonest DEF Next, Continue
  <1>2. HonestInv => WinnerEarnedIt
    BY DEF HonestInv
  <1> QED
    BY <1>1, <1>2, InitHonest, AlwaysTyped, PTL DEF Spec

-----------------------------------------------------------------------------
(* One call at a time                                                      *)

\* Calls do not overlap.
Serial == \A a, b \in Actors : At(a, "idle") \/ At(b, "idle") \/ a = b

\* What a call relies on so as not to rate anybody twice.
RatesOnce(r) ==
    /\ r.pc \in {"evalWrite", "leaveWrite"} /\ claimed => r.snap.status # "RUNNING"
    /\ r.pc = "finClaim" => ~claimed
    /\ r.pc \in {"migrate", "order", "rank", "rate"} => claimed
    /\ r.pc \in {"migrate", "order", "rank"} => \A p \in Players : rated[p] = 0
    /\ r.pc \in {"rank", "rate"} => \A i, j \in Players : i # j => r.order[i] # r.order[j]
    /\ r.pc = "rate" => \A j \in Players : j >= r.k => rated[r.order[j]] = 0

\* A claimed document never says RUNNING again, and nobody is rated before.
OnceInv ==
    /\ claimed => redis.status # "RUNNING"
    /\ ~claimed => \A p \in Players : rated[p] = 0
    /\ RatedOnce
    /\ \A a \in Actors : RatesOnce(proc[a])

(* Where calls do not overlap, who takes a step is the only one there.     *)
LEMMA Alone ==
    ASSUME Serial, Serial', NEW a \in Actors, Aside(a),
           proc[a].pc # "idle" \/ proc'[a].pc # "idle"
    PROVE  \A b \in Actors \ {a} : proc'[b] = proc[b] /\ proc[b].pc = "idle"
  BY DEF Serial, Aside

LEMMA Guarded ==
    ASSUME Kinds \subseteq GuardedPaths, NEW a \in Actors
    PROVE  ~Sweep(a) /\ ~FinishRoute(a)
  BY DEF GuardedPaths, Sweep, FinishRoute, Arrives

\* Nobody has two places in a ranking.
LEMMA RankingOnce ==
    ASSUME Typed, NEW forfeit, NEW order \in Ranking(forfeit),
           NEW i \in Players, NEW j \in Players, i # j
    PROVE  order[i] # order[j]
  <1>1. \A x \in Players : ~Above(x, x)
    BY SomePlayers DEF Above, Typed, TypeOK
  <1>2. /\ order \in [Players -> Players]
        /\ \A k, l \in Players : k < l =>
              order[k] # forfeit /\ (order[l] = forfeit \/ Above(order[k], order[l]))
    BY DEF Ranking
  <1>3. i < j \/ j < i
    BY SomePlayers
  <1> QED
    BY <1>1, <1>2, <1>3

LEMMA InitOnce == Init => OnceInv
  <1> SUFFICES ASSUME Init PROVE OnceInv
    OBVIOUS
  <1>1. \A a \in Actors : RatesOnce(proc[a])
    BY IdleShaped DEF Init, RatesOnce
  <1> QED
    BY <1>1 DEF Init, OnceInv, RatedOnce

(* A lone step that rates nobody and leaves its call with nothing amiss.   *)
LEMMA OnceStep ==
    ASSUME OnceInv, Serial, Serial', NEW a \in Actors, Aside(a),
           proc[a].pc # "idle" \/ proc'[a].pc # "idle",
           RatesOnce(proc[a])',
           claimed' => redis'.status # "RUNNING",
           ~claimed' => \A p \in Players : rated'[p] = 0,
           rated' = rated \/ RatedOnce'
    PROVE  OnceInv'
  <1>1. ASSUME NEW b \in Actors PROVE RatesOnce(proc[b])'
    BY <1>1, Alone DEF RatesOnce
  <1>2. rated' = rated => RatedOnce'
    BY DEF OnceInv, RatedOnce
  <1> QED
    BY <1>1, <1>2 DEF OnceInv

LEMMA ArriveOnce ==
    ASSUME Kinds \subseteq GuardedPaths, Typed, OnceInv, Serial, Serial',
           NEW a \in Actors, Arrive(a) \/ Sweep(a)
    PROVE  OnceInv'
  <1>1. UNCHANGED <<redis, claimed, rated>>
    BY DEF Arrive, Sweep, Submit, WorkerVerdict, Accepted, LeaveBattle, DisconnectTimeout,
           GoesAway, TimerFires, FinishRoute
  <1>2. /\ Aside(a)
        /\ proc'[a].pc \in {"evalRead", "evalWrite", "finRead", "leaveWrite"}
        /\ proc'[a].pc \in {"evalWrite", "leaveWrite"} => proc'[a].snap.status = redis.status
    <2>1. CASE \E p \in Players, q \in Problems : Submit(a, p, q) \/ WorkerVerdict(a, p, q)
      BY <2>1, SubmitShape, WorkerShape
    <2>2. CASE \E p \in Players : LeaveBattle(a, p) \/ DisconnectTimeout(a, p)
      BY <2>2, GoesAwayShape, OpponentPlays DEF LeaveBattle, DisconnectTimeout
    <2>3. CASE TimerFires(a)
      BY <2>3, DirectShape
    <2> QED
      BY <2>1, <2>2, <2>3, Guarded DEF Arrive
  <1>3. RatesOnce(proc[a])'
    BY <1>1, <1>2 DEF RatesOnce, OnceInv
  <1> QED
    BY <1>1, <1>2, <1>3, OnceStep DEF OnceInv

LEMMA SolveOnce ==
    ASSUME Typed, OnceInv, Serial, Serial', NEW a \in Actors,
           EvalRead(a) \/ EvalWrite(a) \/ LeaveWrite(a) \/ FinRead(a) \/ FinClaim(a) \/ Abort(a)
    PROVE  OnceInv'
  <1>1. rated' = rated /\ proc[a].pc # "idle" /\ RatesOnce(proc[a])
    BY DEF EvalRead, EvalWrite, LeaveWrite, FinRead, FinClaim, Abort, OnceInv
  <1>2. CASE EvalRead(a) \/ FinRead(a)
    <2>1. UNCHANGED <<redis, claimed>>
      BY <1>2 DEF EvalRead, FinRead
    <2>2. /\ Aside(a) /\ proc'[a].pc \in {"idle", "evalWrite", "finClaim"}
          /\ proc'[a].pc = "evalWrite" => proc'[a].snap = redis
          /\ proc'[a].pc = "finClaim" => redis.status = "RUNNING"
      BY <1>2, EvalReadShape, FinReadShape, IdleShaped DEF Claimable
    <2>3. RatesOnce(proc[a])'
      BY <2>1, <2>2 DEF RatesOnce, OnceInv
    <2> QED
      BY <1>1, <2>1, <2>2, <2>3, OnceStep DEF OnceInv
  <1>3. CASE EvalWrite(a) \/ LeaveWrite(a) \/ Abort(a)
    <2>1. /\ claimed' = claimed
          /\ \/ redis' = redis
             \/ /\ proc[a].pc \in {"evalWrite", "leaveWrite"}
                /\ redis'.status = proc[a].snap.status
      BY <1>3, EvalWriteShape DEF EvalWrite, LeaveWrite, Abort
    <2>2. Aside(a) /\ proc'[a].pc \in {"idle", "finRead"}
      BY <1>3, EvalWriteShape, DoneStep, IdleShaped DEF LeaveWrite, Abort, Typed
    <2>3. RatesOnce(proc[a])' /\ (claimed' => redis'.status # "RUNNING")
      BY <1>1, <2>1, <2>2 DEF RatesOnce, OnceInv
    <2> QED
      BY <1>1, <2>1, <2>2, <2>3, OnceStep DEF OnceInv
  <1>4. CASE FinClaim(a)
    <2>1. claimed' = TRUE /\ redis'.status = "FINISHING" /\ ~claimed
      <3>1. proc[a].snap \in Document /\ proc[a].pc = "finClaim"
        BY <1>4, CallTyped DEF FinClaim, Typed
      <3> QED
        BY <1>1, <1>4, <3>1 DEF FinClaim, Document, RatesOnce
    <2>2. Aside(a) /\ proc'[a].pc = "migrate"
      BY <1>4, GotoStep DEF FinClaim, Typed
    <2>3. RatesOnce(proc[a])'
      BY <1>1, <2>1, <2>2 DEF RatesOnce, OnceInv
    <2> QED
      BY <1>1, <2>1, <2>2, <2>3, OnceStep
  <1> QED
    BY <1>2, <1>3, <1>4

LEMMA RateOnce ==
    ASSUME Typed, OnceInv, Serial, Serial', NEW a \in Actors, Rate(a)
    PROVE  OnceInv'
  <1>1. PICK k, order : k = proc[a].k /\ order = proc[a].order
    OBVIOUS
  <1>2. /\ k \in Players /\ order \in [Players -> Players]
        /\ rated \in [Players -> Nat]
        /\ proc[a].pc = "rate" /\ claimed
        /\ \A i, j \in Players : i # j => order[i] # order[j]
        /\ \A j \in Players : j >= k => rated[order[j]] = 0
    BY <1>1, CallTyped DEF Rate, Typed, TypeOK, OnceInv, RatesOnce
  <1>3. rated' = [rated EXCEPT ![order[k]] = @ + 1] /\ UNCHANGED <<redis, claimed>>
    BY <1>1 DEF Rate
  <1>4. /\ rated'[order[k]] = 1
        /\ \A p \in Players : p # order[k] => rated'[p] = rated[p]
    BY <1>2, <1>3, SomePlayers
  <1>5. RatedOnce'
    BY <1>4 DEF RatedOnce, OnceInv
  <1>6. /\ Aside(a) /\ proc'[a].order = order
        /\ proc'[a].pc \in {"rate", "close"}
        /\ proc'[a].pc = "rate" => proc'[a].k = k + 1
    BY <1>1, RateShape DEF Holds
  <1>7. \A j \in Players : j >= k + 1 => rated'[order[j]] = 0
    <2> SUFFICES ASSUME NEW j \in Players, j >= k + 1 PROVE rated'[order[j]] = 0
      OBVIOUS
    <2>1. j # k /\ j >= k
      BY <1>2, SomePlayers
    <2>2. order[j] # order[k] /\ order[j] \in Players /\ rated[order[j]] = 0
      BY <1>2, <2>1
    <2> QED
      BY <1>4, <2>2
  <1>8. RatesOnce(proc[a])'
    BY <1>2, <1>3, <1>6, <1>7 DEF RatesOnce
  <1> QED
    BY <1>2, <1>3, <1>5, <1>6, <1>8, OnceStep DEF OnceInv

LEMMA FinishOnce ==
    ASSUME Typed, OnceInv, Serial, Serial', NEW a \in Actors,
           \/ Migrate(a) \/ Order(a) \/ Rank(a) \/ Close(a)
           \/ Evict(a) \/ Drop(a) \/ Publish(a)
    PROVE  OnceInv'
  <1>1. /\ UNCHANGED <<rated, claimed>> /\ redis' \in {redis, Gone}
        /\ proc[a].pc # "idle"
    BY DEF Migrate, Order, Rank, Close, Evict, Drop, Publish
  <1>2. claimed' => redis'.status # "RUNNING"
    BY <1>1, GoneTyped DEF OnceInv
  <1>3. RatesOnce(proc[a])
    BY DEF OnceInv
  <1>4. Aside(a) /\ RatesOnce(proc[a])'
    <2>1. CASE Migrate(a)
      <3>1. Aside(a) /\ proc[a].pc = "migrate" /\ proc'[a].pc \in {"migrate", "order", "evict"}
        BY <2>1, MigrateShape DEF Migrate
      <3> QED
        BY <1>1, <1>3, <3>1 DEF RatesOnce
    <2>2. CASE Order(a)
      <3>1. /\ Aside(a) /\ proc[a].pc = "order" /\ proc'[a].pc = "rank"
            /\ proc'[a].order \in Ranking(proc[a].forfeit)
        BY <2>2, OrderShape DEF Order
      <3>2. \A i, j \in Players : i # j => proc'[a].order[i] # proc'[a].order[j]
        <4>1. PICK forfeit, order : forfeit = proc[a].forfeit /\ order = proc'[a].order
          OBVIOUS
        <4> QED
          BY <3>1, <4>1, RankingOnce
      <3> QED
        BY <1>1, <1>3, <3>1, <3>2 DEF RatesOnce
    <2>3. CASE Rank(a)
      <3>1. /\ Aside(a) /\ proc[a].pc = "rank" /\ proc'[a].order = proc[a].order
            /\ proc'[a].pc \in {"rank", "rate", "close"}
        BY <2>3, RankShape DEF Rank, Holds
      <3>2. \A j \in Players : proc[a].order[j] \in Players
        BY CallTyped DEF Typed
      <3>3. \A j \in Players : rated'[proc'[a].order[j]] = 0
        BY <1>1, <1>3, <3>1, <3>2 DEF RatesOnce
      <3> QED
        BY <1>1, <1>3, <3>1, <3>3 DEF RatesOnce
    <2>4. CASE Close(a) \/ Evict(a) \/ Drop(a) \/ Publish(a)
      <3>1. Aside(a) /\ proc'[a].pc \in {"idle", "evict", "drop", "publish"}
        BY <2>4, CloseShape, IdleShaped
      <3> QED
        BY <3>1 DEF RatesOnce
    <2> QED
      BY <2>1, <2>2, <2>3, <2>4
  <1> QED
    BY <1>1, <1>2, <1>4, OnceStep DEF OnceInv

LEMMA WorldOnce ==
    ASSUME OnceInv,
           (\E p \in Players : CheckpointSync(p)) \/ TimeUp \/ StateExpires \/ UNCHANGED vars
    PROVE  OnceInv'
  <1>1. UNCHANGED <<claimed, rated, proc>> /\ redis' \in {redis, Gone}
    BY DEF CheckpointSync, TimeUp, StateExpires, vars
  <1> QED
    BY <1>1, GoneTyped DEF OnceInv, RatesOnce, RatedOnce

(* Where every call goes through the idempotency guard and calls do not    *)
(* overlap, a battle moves each rating once, whatever calls die half way:  *)
(* once claimed, the document never says RUNNING again, so the ranking     *)
(* that rates each player in turn is the only one.  The run in which two   *)
(* calls overlap shows that the hypothesis is needed: both may read the    *)
(* document before either has written FINISHING.                           *)
THEOREM SerialBattlesRateOnce ==
    ASSUME Kinds \subseteq GuardedPaths
    PROVE  Spec /\ []Serial => []RatedOnce
  <1>1. Typed /\ OnceInv /\ Serial /\ Serial' /\ [Next]_vars => OnceInv'
    BY ArriveOnce, SolveOnce, FinishOnce, RateOnce, WorldOnce DEF Next, Continue
  <1>2. OnceInv => RatedOnce
    BY DEF OnceInv
  <1> QED
    BY <1>1, <1>2, InitOnce, AlwaysTyped, PTL DEF Spec

-----------------------------------------------------------------------------
(* Ranks                                                                   *)

\* The ranking will find p among the solvers: by timestamp or by the document.
Marked(doc, p) == solvedAt[p] # 0 \/ doc.solved[p] # {}

\* A document that may still be claimed shows all solvers but those in who.
Shows(doc, who) ==
    doc.status = "RUNNING" => \A p \in Players \ who : Solves(p) # {} => Marked(doc, p)

\* A ranking in which who solved nothing is above no solver who stayed.
Deserved(order) ==
    \A i, j \in Players : i < j =>
        /\ order[i] # order[j]
        /\ Solves(order[j]) # {} /\ order[j] \notin quit => Solves(order[i]) # {}

\* What a call relies on so as to rank the solvers first.
RanksWell(r) ==
    /\ r.kind # "direct"
    /\ r.forfeit \in quit \cup {Nobody}
    /\ r.pc \in {"evalRead", "finRead"} => Shows(redis, {})
    /\ r.pc = "evalWrite" => Shows(r.snap, {r.player})
    /\ r.pc \in {"leaveWrite", "finClaim"} => Shows(r.snap, {})
    /\ r.pc = "finClaim" => r.snap.status = "RUNNING"
    /\ r.pc = "migrate" /\ r.kind # "bare" =>
          \A p \in Players : Solves(p) # {} =>
              solvedAt[p] # 0 \/ (p >= r.k /\ r.snap.solved[p] # {})
    /\ r.pc = "order" => \A p \in Players : Solves(p) # {} => solvedAt[p] # 0
    /\ r.pc \in {"rank", "rate", "close"} => Deserved(r.order)
    /\ r.pc = "rank" => \A j \in Players : j < r.k => rank[r.order[j]] = j
    /\ r.pc \in {"rate", "close"} => \A j \in Players : rank[r.order[j]] = j
    /\ r.pc = "publish" => redis.status # "RUNNING"

RanksInv ==
    /\ \A p \in Players : solvedAt[p] # 0 => Solves(p) # {}
    /\ (\A a \in Actors : At(a, "idle")) => Shows(redis, {})
    /\ \A a \in Actors : RanksWell(proc[a])

(* Every player has a place in a ranking that gives nobody two.            *)
LEMMA RankingComplete ==
    ASSUME NEW order \in [Players -> Players],
           \A i, j \in Players : i < j => order[i] # order[j],
           NEW p \in Players
    PROVE  \E i \in Players : order[i] = p
  <1> SUFFICES ASSUME \A i \in Players : order[i] # p PROVE FALSE
    OBVIOUS
  <1>1. IsFiniteSet(Players) /\ Cardinality(Players) = N
    BY FS_Interval, SomePlayers DEF Players
  <1>2. IsFiniteSet(Players \ {p}) /\ Cardinality(Players \ {p}) < Cardinality(Players)
    <2>1. /\ IsFiniteSet(Players \ {p})
          /\ Cardinality(Players \ {p}) = Cardinality(Players) - 1
      BY <1>1, FS_RemoveElement
    <2> QED
      BY <1>1, <2>1, SomePlayers
  <1>3. order \in [Players -> Players \ {p}]
    OBVIOUS
  <1>4. PICK i, j \in Players : i # j /\ order[i] = order[j]
    BY <1>1, <1>2, <1>3, FS_PigeonHole
  <1> QED
    BY <1>4, SomePlayers

LEMMA InitRanks == Init => RanksInv
  <1> SUFFICES ASSUME Init PROVE RanksInv
    OBVIOUS
  <1>1. \A p \in Players : Solves(p) = {}
    BY DEF Init, Solves, Members
  <1>2. \A a \in Actors : RanksWell(proc[a])
    BY IdleShaped DEF Init, RanksWell
  <1> QED
    BY <1>1, <1>2 DEF Init, RanksInv, Shows

\* Where calls do not overlap, an idle one starts with everybody idle.
LEMMA FirstCall ==
    ASSUME Serial', NEW a \in Actors, Aside(a), proc[a].pc = "idle", proc'[a].pc # "idle"
    PROVE  \A b \in Actors : proc[b].pc = "idle" /\ (b # a => proc'[b] = proc[b])
  BY DEF Serial, Aside

(* What a lone step has to establish.                                      *)
LEMMA RanksStep ==
    ASSUME RanksInv, Serial, Serial', NEW a \in Actors, Aside(a),
           proc[a].pc # "idle" \/ proc'[a].pc # "idle",
           \A p \in Players : solvedAt'[p] # 0 => Solves(p)' # {},
           proc'[a].pc = "idle" => Shows(redis, {})',
           quit \subseteq quit',
           RanksWell(proc[a])'
    PROVE  RanksInv'
  <1>1. ASSUME NEW b \in Actors PROVE RanksWell(proc[b])'
    <2>1. CASE b # a
      <3>1. proc'[b] = proc[b] /\ proc[b].pc = "idle" /\ RanksWell(proc[b])
        BY <2>1, Alone DEF RanksInv
      <3> QED
        BY <3>1 DEF RanksWell
    <2> QED
      BY <2>1
  <1>2. (\A b \in Actors : proc'[b].pc = "idle") => Shows(redis, {})'
    OBVIOUS
  <1> QED
    BY <1>1, <1>2 DEF RanksInv

LEMMA NewSolver ==
    ASSUME Typed, NEW p \in Players, NEW q \in Problems, Accepted(p, q)
    PROVE  /\ Solves(p)' # {}
           /\ \A r \in Players : r # p => Solves(r)' = Solves(r)
           /\ \A r \in Players : Solves(r) # {} => Solves(r)' # {}
           /\ quit' = quit
  <1>1. Members(accepted') = Members(accepted) \cup {<<p, q>>}
    BY AcceptedStep
  <1> QED
    BY <1>1 DEF Solves, Accepted

LEMMA SubmitRanks ==
    ASSUME Typed, RanksInv, Serial, Serial', NEW a \in Actors,
           NEW p \in Players, NEW q \in Problems, Submit(a, p, q)
    PROVE  RanksInv'
  <1>1. /\ Aside(a) /\ proc'[a].pc = "evalWrite" /\ proc'[a].snap = redis
        /\ proc'[a].player = p /\ proc'[a].kind # "direct" /\ proc'[a].forfeit = Nobody
    BY SubmitShape DEF Fresh
  <1>2. Shows(redis, {})
    BY <1>1, FirstCall DEF Submit, Arrives, RanksInv
  <1>3. /\ UNCHANGED <<redis, solvedAt>>
        /\ Solves(p)' # {} /\ quit' = quit
        /\ \A r \in Players : r # p => Solves(r)' = Solves(r)
        /\ \A r \in Players : Solves(r) # {} => Solves(r)' # {}
    BY NewSolver DEF Submit
  <1>4. RanksWell(proc[a])'
    <2>1. Shows(redis, {p})'
      BY <1>2, <1>3 DEF Shows, Marked
    <2>2. Shows(proc[a].snap, {proc[a].player})'
      BY <1>1, <1>3, <2>1 DEF Shows, Marked
    <2> QED
      BY <1>1, <2>2 DEF RanksWell
  <1> QED
    BY <1>1, <1>3, <1>4, RanksStep DEF RanksInv

LEMMA WorkerRanks ==
    ASSUME Typed, RanksInv, Serial, Serial', NEW a \in Actors,
           NEW p \in Players, NEW q \in Problems, WorkerVerdict(a, p, q)
    PROVE  RanksInv'
  <1>1. /\ Aside(a) /\ proc'[a].pc = "evalRead"
        /\ proc'[a].kind # "direct" /\ proc'[a].forfeit = Nobody
    BY WorkerShape DEF Fresh
  <1>2. Shows(redis, {})
    BY <1>1, FirstCall DEF WorkerVerdict, Arrives, RanksInv
  <1>3. /\ redis' = redis
        /\ Solves(p)' # {} /\ quit' = quit
        /\ \A r \in Players : r # p => Solves(r)' = Solves(r)
        /\ \A r \in Players : Solves(r) # {} => Solves(r)' # {}
    BY NewSolver DEF WorkerVerdict
  <1>4. /\ solvedAt'[p] # 0
        /\ \A r \in Players : r # p => (solvedAt'[r] # 0 <=> solvedAt[r] # 0)
    BY StampStep DEF WorkerVerdict
  <1>5. \A r \in Players : solvedAt'[r] # 0 => Solves(r)' # {}
    BY <1>3, <1>4 DEF RanksInv
  <1>6. Shows(redis, {})'
    BY <1>2, <1>3, <1>4 DEF Shows, Marked
  <1>7. RanksWell(proc[a])'
    BY <1>1, <1>6 DEF RanksWell
  <1> QED
    BY <1>1, <1>3, <1>5, <1>7, RanksStep

LEMMA LeaveRanks ==
    ASSUME Typed, RanksInv, Serial, Serial', NEW a \in Actors,
           \/ \E p \in Players : LeaveBattle(a, p) \/ DisconnectTimeout(a, p)
           \/ TimerFires(a)
    PROVE  RanksInv'
  <1>0. \/ \E p \in Players : LeaveBattle(a, p) \/ DisconnectTimeout(a, p)
        \/ TimerFires(a)
    OBVIOUS
  <1>1. UNCHANGED <<redis, solvedAt, accepted>> /\ proc[a].pc = "idle"
    BY DEF LeaveBattle, DisconnectTimeout, GoesAway, TimerFires, Arrives
  <1>2. /\ Aside(a) /\ proc'[a].pc \in {"finRead", "leaveWrite"} /\ proc'[a].kind # "direct"
        /\ proc'[a].forfeit \in quit' \cup {Nobody} /\ quit \subseteq quit'
        /\ proc'[a].pc = "leaveWrite" => /\ proc'[a].snap.status = redis.status
                                         /\ proc'[a].snap.solved = redis.solved
    <2>1. CASE \E p \in Players : LeaveBattle(a, p) \/ DisconnectTimeout(a, p)
      <3>1. PICK p \in Players : LeaveBattle(a, p) \/ DisconnectTimeout(a, p)
        BY <2>1
      <3>2. quit' = quit \cup {p}
        BY <3>1 DEF LeaveBattle, DisconnectTimeout, GoesAway
      <3>3. /\ Aside(a) /\ Fresh(a)
            /\ \/ proc'[a].pc = "finRead" /\ proc'[a].forfeit = p
               \/ /\ proc'[a].pc = "leaveWrite" /\ proc'[a].forfeit = Nobody
                  /\ proc'[a].snap.status = redis.status
                  /\ proc'[a].snap.solved = redis.solved
        BY <3>1, GoesAwayShape, OpponentPlays DEF LeaveBattle, DisconnectTimeout
      <3> QED
        BY <3>2, <3>3 DEF Fresh
    <2>2. CASE TimerFires(a)
      <3>1. quit' = quit
        BY <2>2 DEF TimerFires
      <3>2. Aside(a) /\ Fresh(a) /\ proc'[a].pc = "finRead" /\ proc'[a].forfeit = Nobody
        BY <2>2, DirectShape
      <3> QED
        BY <3>1, <3>2 DEF Fresh
    <2> QED
      BY <1>0, <2>1, <2>2
  <1>3. Shows(redis, {}) /\ \A p : Solves(p)' = Solves(p)
    BY <1>1, <1>2, FirstCall, NothingAccepted DEF RanksInv
  <1>4. Shows(redis, {})' /\ (proc'[a].pc = "leaveWrite" => Shows(proc[a].snap, {})')
    BY <1>1, <1>2, <1>3 DEF Shows, Marked
  <1>5. RanksWell(proc[a])'
    BY <1>2, <1>4 DEF RanksWell
  <1> QED
    BY <1>1, <1>2, <1>3, <1>5, RanksStep DEF RanksInv

LEMMA SolveRanks ==
    ASSUME Typed, RanksInv, Serial, Serial', NEW a \in Actors,
           EvalRead(a) \/ EvalWrite(a) \/ LeaveWrite(a) \/ FinRead(a) \/ FinClaim(a)
    PROVE  RanksInv'
  <1>1. UNCHANGED <<solvedAt, accepted, quit>> /\ proc[a].pc # "idle"
    BY DEF EvalRead, EvalWrite, LeaveWrite, FinRead, FinClaim
  <1>2. \A p : Solves(p)' = Solves(p)
    BY <1>1, NothingAccepted
  <1>3. RanksWell(proc[a])
    BY DEF RanksInv
  <1>4. \A doc, who : Shows(doc, who) => Shows(doc, who)'
    BY <1>1, <1>2 DEF Shows, Marked
  <1>5. RanksWell(Idle)'
    BY IdleShaped DEF RanksWell
  <1>6. /\ Aside(a)
        /\ proc'[a].pc = "idle" => Shows(redis, {})'
        /\ RanksWell(proc[a])'
    <2>1. CASE EvalRead(a) \/ FinRead(a)
      <3>1. redis' = redis /\ proc[a].pc \in {"evalRead", "finRead"}
        BY <2>1 DEF EvalRead, FinRead
      <3>2. /\ Aside(a)
            /\ \/ proc'[a] = Idle
               \/ /\ Keeps(a) /\ proc'[a].pc \in {"evalWrite", "finClaim"}
                  /\ proc'[a].snap = redis
                  /\ proc'[a].pc = "finClaim" => redis.status = "RUNNING"
        BY <2>1, EvalReadShape, FinReadShape DEF Claimable
      <3>3. Shows(redis, {})
        BY <1>3, <3>1 DEF RanksWell
      <3>4. Shows(redis, {})'
        BY <1>1, <1>2, <3>1, <3>3 DEF Shows, Marked
      <3>5. ASSUME proc'[a] # Idle PROVE RanksWell(proc[a])'
        <4>1. Shows(proc[a].snap, {})' /\ Shows(proc[a].snap, {proc[a].player})'
          BY <3>1, <3>2, <3>4, <3>5 DEF Shows, Marked
        <4> QED
          BY <1>1, <1>3, <3>2, <3>5, <4>1 DEF RanksWell, Keeps
      <3> QED
        BY <1>5, <3>2, <3>4, <3>5 DEF RanksWell
    <2>2. CASE EvalWrite(a)
      <3>1. Shows(proc[a].snap, {proc[a].player})
        BY <1>3, <2>2 DEF RanksWell, EvalWrite
      <3>2. /\ redis'.status = proc[a].snap.status
            /\ \A r \in Players : redis'.solved[r] =
                  IF r = proc[a].player THEN proc[a].snap.solved[r] \cup {proc[a].problem}
                                        ELSE proc[a].snap.solved[r]
        BY <2>2, EvalWriteShape
      <3>3. Shows(redis, {})'
        BY <1>1, <1>2, <3>1, <3>2 DEF Shows, Marked
      <3>4. /\ Aside(a)
            /\ \/ proc'[a] = Idle
               \/ /\ proc'[a].pc = "finRead" /\ proc'[a].kind = proc[a].kind
                  /\ proc'[a].forfeit = Nobody
        BY <2>2, EvalWriteShape
      <3> QED
        BY <1>3, <1>5, <3>3, <3>4 DEF RanksWell
    <2>3. CASE LeaveWrite(a)
      <3>1. Aside(a) /\ proc'[a] = Idle /\ redis' = proc[a].snap /\ proc[a].pc = "leaveWrite"
        BY <2>3, DoneStep DEF LeaveWrite, Typed
      <3>2. Shows(redis, {})'
        BY <1>1, <1>2, <1>3, <3>1 DEF RanksWell, Shows, Marked
      <3> QED
        BY <1>5, <3>1, <3>2 DEF RanksWell
    <2>4. CASE FinClaim(a)
      <3>1. /\ Aside(a) /\ Keeps(a) /\ proc'[a].pc = "migrate" /\ proc'[a].k = 1
            /\ proc'[a].snap = proc[a].snap
        BY <2>4, GotoStep DEF FinClaim, Typed
      <3>2. Shows(proc[a].snap, {}) /\ proc[a].snap.status = "RUNNING"
        BY <1>3, <2>4 DEF RanksWell, FinClaim
      <3>3. \A p \in Players : Solves(p)' # {} =>
               solvedAt'[p] # 0 \/ (p >= 1 /\ proc[a].snap.solved[p] # {})
        BY <1>1, <1>2, <3>2 DEF Shows, Marked, Players
      <3> QED
        BY <1>1, <1>3, <3>1, <3>3 DEF RanksWell, Keeps
    <2> QED
      BY <2>1, <2>2, <2>3, <2>4
  <1> QED
    BY <1>1, <1>2, <1>6, RanksStep DEF RanksInv

(* The migration gives a timestamp to every solver the document shows.     *)
LEMMA MigrateRanks ==
    ASSUME DbFails = FALSE,
           Typed, HonestInv, RanksInv, Serial, Serial', NEW a \in Actors, Migrate(a)
    PROVE  RanksInv'
  <1>1. PICK k : k = proc[a].k
    OBVIOUS
  <1>2. UNCHANGED <<redis, accepted, quit, rank>> /\ proc[a].pc = "migrate"
    BY DEF Migrate
  <1>3. \A p : Solves(p)' = Solves(p)
    BY <1>2, NothingAccepted
  <1>4. RanksWell(proc[a]) /\ Honest(proc[a])
    BY DEF RanksInv, HonestInv
  <1>5. /\ Aside(a) /\ Keeps(a) /\ proc'[a].snap = proc[a].snap
        /\ k \in Players
        /\ \/ k < N /\ proc'[a].k = k + 1 /\ proc'[a].pc = "migrate"
           \/ k = N /\ proc'[a].pc = IF proc[a].kind = "bare" THEN "evict" ELSE "order"
    BY <1>1, MigrateShape
  <1>6. /\ \A p \in Players : p # k => (solvedAt'[p] # 0 <=> solvedAt[p] # 0)
        /\ proc[a].kind = "service" /\ proc[a].snap.solved[k] # {} => solvedAt'[k] # 0
        /\ solvedAt'[k] # 0 => solvedAt[k] # 0 \/ proc[a].snap.solved[k] # {}
        /\ solvedAt[k] # 0 => solvedAt'[k] # 0
    <2>1. CASE proc[a].kind = "service" /\ proc[a].snap.solved[k] # {}
      <3>1. Stamp(k)
        BY <1>1, <2>1 DEF Migrate, Record
      <3> QED
        BY <1>5, <2>1, <3>1, StampStep
    <2>2. CASE ~(proc[a].kind = "service" /\ proc[a].snap.solved[k] # {})
      <3>1. solvedAt' = solvedAt
        BY <1>1, <2>2 DEF Migrate, Record
      <3> QED
        BY <2>2, <3>1
    <2> QED
      BY <2>1, <2>2
  <1>7. \A p \in Players : solvedAt'[p] # 0 => Solves(p)' # {}
    <2>1. proc[a].snap.solved[k] # {} => Solves(k) # {}
      BY <1>4, <1>5 DEF Honest, Genuine
    <2> QED
      BY <1>3, <1>6, <2>1 DEF RanksInv
  <1>8. ASSUME proc[a].kind # "bare"
        PROVE  \A p \in Players : Solves(p)' # {} =>
                  solvedAt'[p] # 0 \/ (p >= k + 1 /\ proc[a].snap.solved[p] # {})
    <2>1. proc[a].kind = "service"
      BY <1>4, <1>8, CallTyped DEF RanksWell, Typed
    <2>2. \A p \in Players : Solves(p) # {} =>
             solvedAt[p] # 0 \/ (p >= k /\ proc[a].snap.solved[p] # {})
      BY <1>1, <1>2, <1>4, <1>8 DEF RanksWell
    <2> SUFFICES ASSUME NEW p \in Players, Solves(p) # {}, solvedAt'[p] = 0
                 PROVE  p >= k + 1 /\ proc[a].snap.solved[p] # {}
      BY <1>3
    <2>3. p # k
      BY <1>6, <2>1, <2>2
    <2>4. p >= k /\ proc[a].snap.solved[p] # {}
      BY <1>6, <2>2, <2>3
    <2> QED
      BY <1>5, <2>3, <2>4, SomePlayers
  <1>9. RanksWell(proc[a])'
    <2>1. CASE proc'[a].k = k + 1 /\ proc'[a].pc = "migrate"
      BY <1>2, <1>4, <1>5, <1>8, <2>1 DEF RanksWell, Keeps
    <2>2. CASE proc'[a].pc = "evict"
      BY <1>2, <1>4, <1>5, <2>2 DEF RanksWell, Keeps
    <2>3. CASE k = N /\ proc[a].kind # "bare" /\ proc'[a].pc = "order"
      <3>1. \A p \in Players : ~(p >= N + 1)
        BY SomePlayers DEF Players
      <3>2. \A p \in Players : Solves(p)' # {} => solvedAt'[p] # 0
        BY <1>8, <2>3, <3>1
      <3> QED
        BY <1>2, <1>4, <1>5, <2>3, <3>2 DEF RanksWell, Keeps
    <2> QED
      BY <1>5, <2>1, <2>2, <2>3
  <1> QED
    BY <1>2, <1>5, <1>7, <1>9, RanksStep

(* The ranking computed from the timestamps is deserved.                   *)
LEMMA OrderRanks ==
    ASSUME Typed, RanksInv, Serial, Serial', NEW a \in Actors, Order(a)
    PROVE  RanksInv'
  <1>1. UNCHANGED <<redis, solvedAt, accepted, quit, rank>> /\ proc[a].pc = "order"
    BY DEF Order
  <1>2. \A p : Solves(p)' = Solves(p)
    BY <1>1, NothingAccepted
  <1>3. /\ RanksWell(proc[a])
        /\ \A p \in Players : Solves(p) # {} <=> solvedAt[p] # 0
    BY <1>1 DEF RanksInv, RanksWell
  <1>4. /\ Aside(a) /\ Keeps(a) /\ proc'[a].pc = "rank" /\ proc'[a].k = 1
        /\ proc'[a].order \in Ranking(proc[a].forfeit)
    BY OrderShape
  <1>5. Deserved(proc'[a].order)
    <2>1. PICK forfeit, order : forfeit = proc[a].forfeit /\ order = proc'[a].order
      OBVIOUS
    <2>2. order \in Ranking(forfeit) /\ order \in [Players -> Players]
      BY <1>4, <2>1 DEF Ranking
    <2>3. ASSUME NEW i \in Players, NEW j \in Players, i < j
          PROVE  /\ order[i] # order[j]
                 /\ Solves(order[j]) # {} /\ order[j] \notin quit => Solves(order[i]) # {}
      <3>1. order[i] # order[j]
        BY <2>2, <2>3, RankingOnce, SomePlayers
      <3>2. ASSUME Solves(order[j]) # {}, order[j] \notin quit
            PROVE  Solves(order[i]) # {}
        <4>1. order[i] \in Players /\ order[j] \in Players
          BY <2>2
        <4>2. order[j] # forfeit
          BY <1>3, <2>1, <3>2, <4>1, SomePlayers DEF RanksWell
        <4>3. Above(order[i], order[j])
          BY <2>2, <2>3, <4>2 DEF Ranking
        <4>4. solvedAt[order[j]] # 0
          BY <1>3, <3>2, <4>1
        <4> QED
          BY <1>3, <4>1, <4>3, <4>4 DEF Above
      <3> QED
        BY <3>1, <3>2
    <2> QED
      BY <2>1, <2>3 DEF Deserved
  <1>6. RanksWell(proc[a])'
    <2>1. Deserved(proc[a].order)'
      BY <1>1, <1>2, <1>5 DEF Deserved
    <2>2. \A j \in Players : ~(j < proc'[a].k)
      BY <1>4 DEF Players
    <2> QED
      BY <1>1, <1>3, <1>4, <2>1, <2>2 DEF RanksWell, Keeps
  <1> QED
    BY <1>1, <1>2, <1>4, <1>6, RanksStep DEF RanksInv

(* One place after the other is written, and none twice.                   *)
LEMMA RankRanks ==
    ASSUME Typed, RanksInv, Serial, Serial', NEW a \in Actors, Rank(a)
    PROVE  RanksInv'
  <1>1. PICK k, order : k = proc[a].k /\ order = proc[a].order
    OBVIOUS
  <1>2. /\ UNCHANGED <<redis, solvedAt, accepted, quit>> /\ proc[a].pc = "rank"
        /\ rank' = [rank EXCEPT ![order[k]] = k]
    BY <1>1 DEF Rank
  <1>3. \A p : Solves(p)' = Solves(p)
    BY <1>2, NothingAccepted
  <1>4. RanksWell(proc[a])
    BY DEF RanksInv
  <1>5. /\ Aside(a) /\ Keeps(a) /\ proc'[a].order = order
        /\ k \in Players
        /\ \/ k < N /\ proc'[a].k = k + 1 /\ proc'[a].pc = "rank"
           \/ k = N /\ proc'[a].pc \in {"rate", "close"}
    BY <1>1, RankShape DEF Holds
  <1>6. \A j \in Players : j <= k => rank'[order[j]] = j
    <2> SUFFICES ASSUME NEW j \in Players, j <= k PROVE rank'[order[j]] = j
      OBVIOUS
    <2>1. rank \in [Players -> 0 .. N] /\ order \in [Players -> Players]
      BY <1>1, CallTyped DEF Typed, TypeOK
    <2>2. CASE j = k
      BY <1>2, <1>5, <2>1, <2>2
    <2>3. CASE j # k
      <3>1. j < k
        BY <1>5, <2>3, SomePlayers
      <3>2. order[j] # order[k] /\ rank[order[j]] = j
        BY <1>1, <1>2, <1>4, <1>5, <3>1 DEF RanksWell, Deserved
      <3> QED
        BY <1>2, <2>1, <3>2
    <2> QED
      BY <2>2, <2>3
  <1>7. Deserved(proc[a].order)'
    BY <1>1, <1>2, <1>3, <1>4, <1>5 DEF RanksWell, Deserved
  <1>8. RanksWell(proc[a])'
    <2>1. CASE proc'[a].k = k + 1 /\ proc'[a].pc = "rank"
      <3>1. \A j \in Players : j < k + 1 => j <= k
        BY <1>5, SomePlayers
      <3> QED
        BY <1>2, <1>4, <1>5, <1>6, <1>7, <2>1, <3>1 DEF RanksWell, Keeps
    <2>2. CASE k = N /\ proc'[a].pc \in {"rate", "close"}
      <3>1. \A j \in Players : j <= N
        BY SomePlayers DEF Players
      <3> QED
        BY <1>2, <1>4, <1>5, <1>6, <1>7, <2>2, <3>1 DEF RanksWell, Keeps
    <2> QED
      BY <1>5, <2>1, <2>2
  <1> QED
    BY <1>2, <1>3, <1>5, <1>8, RanksStep DEF RanksInv

LEMMA CloseRanks ==
    ASSUME Typed, RanksInv, Serial, Serial', NEW a \in Actors,
           Rate(a) \/ Close(a) \/ Evict(a) \/ Drop(a) \/ Publish(a)
    PROVE  RanksInv'
  <1>1. /\ UNCHANGED <<solvedAt, accepted, quit, rank>>
        /\ proc[a].pc \in {"rate", "close", "evict", "drop", "publish"}
        /\ redis' = IF proc[a].pc = "drop" THEN Gone ELSE redis
    BY DEF Rate, Close, Evict, Drop, Publish
  <1>2. \A p : Solves(p)' = Solves(p)
    BY <1>1, NothingAccepted
  <1>3. RanksWell(proc[a])
    BY DEF RanksInv
  <1>4. /\ Aside(a)
        /\ \/ proc[a].pc = "publish" /\ proc'[a] = Idle
           \/ Keeps(a) /\ Holds(a) /\ \/ /\ proc[a].pc = "rate"
                                         /\ proc'[a].pc \in {"rate", "close"}
                                      \/ proc[a].pc = "close" /\ proc'[a].pc = "evict"
                                      \/ proc[a].pc = "evict" /\ proc'[a].pc = "drop"
                                      \/ proc[a].pc = "drop" /\ proc'[a].pc = "publish"
    <2>1. CASE Rate(a)
      <3>1. proc[a].pc = "rate"
        BY <2>1 DEF Rate
      <3> QED
        BY <2>1, <3>1, RateShape
    <2>2. CASE Close(a) \/ Evict(a) \/ Drop(a) \/ Publish(a)
      <3>1. proc'[a] # Idle \/ proc[a].pc = "publish"
        BY <1>3, <2>2, GotoStep, IdleShaped
           DEF Close, Evict, Drop, Publish, RanksWell, Typed
      <3> QED
        BY <2>2, <3>1, CloseShape
    <2> QED
      BY <2>1, <2>2
  <1>5. proc'[a].pc = "idle" => Shows(redis, {})'
    BY <1>1, <1>3, <1>4 DEF RanksWell, Shows
  <1>6. RanksWell(proc[a])'
    <2>1. CASE proc'[a] = Idle
      BY <2>1, IdleShaped DEF RanksWell
    <2>2. CASE proc[a].pc = "rate" /\ Keeps(a) /\ Holds(a) /\ proc'[a].pc \in {"rate", "close"}
      <3>1. Deserved(proc[a].order)'
        BY <1>1, <1>2, <1>3, <2>2 DEF RanksWell, Deserved, Holds
      <3> QED
        BY <1>1, <1>3, <2>2, <3>1 DEF RanksWell, Keeps, Holds
    <2>3. CASE Keeps(a) /\ proc'[a].pc \in {"evict", "drop"}
      BY <1>1, <1>3, <2>3 DEF RanksWell, Keeps
    <2>4. CASE Keeps(a) /\ proc[a].pc = "drop" /\ proc'[a].pc = "publish"
      BY <1>1, <1>3, <2>4, GoneTyped DEF RanksWell, Keeps
    <2> QED
      BY <1>4, <2>1, <2>2, <2>3, <2>4
  <1> QED
    BY <1>1, <1>2, <1>4, <1>5, <1>6, RanksStep DEF RanksInv

LEMMA WorldRanks ==
    ASSUME Typed, RanksInv,
           (\E p \in Players : CheckpointSync(p)) \/ TimeUp \/ StateExpires \/ UNCHANGED vars
    PROVE  RanksInv'
  <1>1. /\ UNCHANGED <<solvedAt, accepted, quit, rank, proc>>
        /\ redis' \in {redis, Gone}
    BY DEF CheckpointSync, TimeUp, StateExpires, vars
  <1>2. \A p : Solves(p)' = Solves(p)
    BY <1>1, NothingAccepted
  <1>3. \A doc, who : Shows(doc, who) => Shows(doc, who)'
    BY <1>1, <1>2 DEF Shows, Marked
  <1>4. \A who : Shows(redis, who) => Shows(redis, who)'
    BY <1>1, <1>2, GoneTyped DEF Shows, Marked
  <1>5. ASSUME NEW a \in Actors PROVE RanksWell(proc[a])'
    <2>1. RanksWell(proc[a])
      BY DEF RanksInv
    <2>2. Deserved(proc[a].order) => Deserved(proc[a].order)'
      BY <1>1, <1>2 DEF Deserved
    <2>3. \A who : Shows(proc[a].snap, who) => Shows(proc[a].snap, who)'
      BY <1>1, <1>2 DEF Shows, Marked
    <2>4. redis.status # "RUNNING" => redis'.status # "RUNNING"
      BY <1>1, GoneTyped
    <2> QED
      BY <1>1, <1>2, <1>4, <2>1, <2>2, <2>3, <2>4 DEF RanksWell
  <1> QED
    BY <1>1, <1>2, <1>4, <1>5 DEF RanksInv

\* Nothing aborts.
LEMMA NoAbort ==
    ASSUME MaxAborts = 0, Typed, NEW a \in Actors
    PROVE  ~Abort(a)
  BY DEF Abort, Typed, TypeOK

LEMMA NextRanks ==
    ASSUME Kinds \subseteq GuardedPaths, MaxAborts = 0, DbFails = FALSE,
           Typed, HonestInv, RanksInv, Serial, Serial', [Next]_vars
    PROVE  RanksInv'
  <1>1. ASSUME NEW a \in Actors, Arrive(a) \/ Sweep(a) PROVE RanksInv'
    BY <1>1, SubmitRanks, WorkerRanks, LeaveRanks, Guarded DEF Arrive
  <1>2. ASSUME NEW a \in Actors, Continue(a) PROVE RanksInv'
    BY <1>2, SolveRanks, MigrateRanks, OrderRanks, RankRanks, CloseRanks DEF Continue
  <1> QED
    BY <1>1, <1>2, NoAbort, WorldRanks DEF Next

(* A call that closes the room has written every place of a deserved       *)
(* ranking.                                                                *)
LEMMA ClosesRanked ==
    ASSUME Typed, RanksInv, [Next]_vars, Closes,
           NEW p \in Players, NEW q \in Players,
           Solves(p) # {}, Solves(q) = {}, p \notin quit
    PROVE  rank[p] < rank[q]
  <1>1. PICK a \in Actors : Close(a)
    BY DEF Closes, Next, Arrive, Sweep, Continue, Submit, WorkerVerdict, LeaveBattle,
           DisconnectTimeout, GoesAway, TimerFires, FinishRoute, EvalRead, EvalWrite,
           LeaveWrite, FinRead, FinClaim, Migrate, Order, Rank, Rate, Evict, Drop,
           Publish, Abort, CheckpointSync, TimeUp, StateExpires, vars
  <1>2. PICK order : order = proc[a].order
    OBVIOUS
  <1>3. /\ Deserved(order) /\ \A j \in Players : rank[order[j]] = j
        /\ order \in [Players -> Players]
    BY <1>1, <1>2, CallTyped DEF RanksInv, RanksWell, Close, Typed
  <1>4. PICK i \in Players, j \in Players : order[i] = p /\ order[j] = q
    BY <1>3, RankingComplete DEF Deserved
  <1>5. ~(j < i) /\ i # j
    BY <1>3, <1>4 DEF Deserved
  <1> QED
    BY <1>3, <1>4, <1>5, SomePlayers

(* Where every call goes through the idempotency guard, none dies and none *)
(* overlaps another, and no score fails to be recorded, who solved something is ranked above who solved       *)
(* nothing when the room closes, unless they quit: an answer accepted      *)
(* before the battle was claimed is in the document or has a timestamp,    *)
(* and the migration turns the one into the other before it ranks.         *)
THEOREM SerialBattlesRankSolvers ==
    ASSUME Kinds \subseteq GuardedPaths, MaxAborts = 0, DbFails = FALSE
    PROVE  Spec /\ []Serial => SolversRankFirst
  <1>1. Typed /\ HonestInv /\ [Next]_vars => HonestInv'
    BY ArriveHonest, SolveHonest, FinishHonest, WorldHonest DEF Next, Continue
  <1>2. Typed /\ HonestInv /\ RanksInv /\ Serial /\ Serial' /\ [Next]_vars => RanksInv'
    BY NextRanks
  <1>3. Typed /\ RanksInv /\ [Next]_vars
          => [Closes => \A p, q \in Players :
                (Solves(p) # {} /\ Solves(q) = {} /\ p \notin quit) => rank[p] < rank[q]]_vars
    BY ClosesRanked
  <1> QED
    BY <1>1, <1>2, <1>3, InitHonest, InitRanks, AlwaysTyped, PTL DEF Spec, SolversRankFirst
=============================================================================
