------------------------------- MODULE Judge -------------------------------
(***************************************************************************)
(* The evaluation of one program by ExecutionPipeline.execute: a first run  *)
(* on test case 1, whose failure ends it, then all test cases at once,      *)
(* through a WorkerPool that lets Concurrency of them run.  A test case     *)
(* that waits for the pool is woken by one that ends and takes its place    *)
(* when its promise is resumed.  Running a test case is the runtime's       *)
(* business: any outcome is possible, in any order.                         *)
(***************************************************************************)
EXTENDS Naturals, Sequences, FiniteSets

CONSTANTS
    Cases,          \* number of test cases
    Concurrency     \* 2 for compiled languages, 4 for the others

\* What is assumed of the constants.
JudgeAssumption == Cases \in Nat \ {0} /\ Concurrency \in Nat \ {0}

VARIABLES
    phase,      \* how far execute is
    canary,     \* outcome of the first run
    running,    \* the pool's counter
    waiting,    \* the pool's queue
    woken,      \* test cases taken from the queue and not resumed yet
    active,     \* test cases inside their task
    result,     \* test case results
    arrived,    \* the order they came in
    judgement

pool == <<running, waiting, woken, active>>
judgeVars == <<phase, canary, pool, result, arrived, judgement>>

Case == 1..Cases
RunOutcomes == {"ACCEPTED", "WRONG_ANSWER"}     \* also for time, memory, runtime errors
Outcomes == RunOutcomes \cup {"SYSTEM_ERROR"}

JudgeTypeOK ==
    /\ phase \in {"compile", "tests", "finished"}
    /\ canary \in RunOutcomes \cup {"none"}
    /\ running \in Nat
    /\ waiting \in Seq(Case)
    /\ woken \subseteq Case /\ active \subseteq Case
    /\ result \in [Case -> Outcomes \cup {"none"}]
    /\ arrived \in Seq(Case)
    /\ judgement \in Outcomes \cup {"COMPILATION_ERROR", "none"}

JudgeInit ==
    /\ phase = "compile" /\ canary = "none"
    /\ running = 0 /\ waiting = <<>> /\ woken = {} /\ active = {}
    /\ result = [k \in Case |-> "none"]
    /\ arrived = <<>>
    /\ judgement = "none"

\* The first run throws, or does not compile.
FirstRunFails(v) ==
    /\ phase = "compile"
    /\ phase' = "finished"
    /\ judgement' = v
    /\ UNCHANGED <<canary, pool, result, arrived>>

\* Every test case is handed to the pool, in order, before any of them goes on: the
\* first ones begin, the others wait.
FanOut(o) ==
    LET begun == {k \in Case : k <= Concurrency} IN
    /\ phase = "compile"
    /\ phase' = "tests"
    /\ canary' = o
    /\ running' = Cardinality(begun)
    /\ active' = begun
    /\ waiting' = [i \in 1..(Cases - Cardinality(begun)) |-> Concurrency + i]
    /\ UNCHANGED <<woken, result, arrived, judgement>>

\* Variant: only a test case that has passed wakes the next one.
WakesNext_passed(o) == o = "ACCEPTED" /\ waiting # <<>>

WakesNext(o) == waiting # <<>>

\* A task ends; the first test case is not run again.
TestCaseEnds(k, o) ==
    /\ k \in active
    /\ k = 1 => o = canary
    /\ active' = active \ {k}
    /\ running' = running - 1
    /\ IF WakesNext(o)
       THEN woken' = woken \cup {Head(waiting)} /\ waiting' = Tail(waiting)
       ELSE UNCHANGED <<woken, waiting>>
    /\ result' = [result EXCEPT ![k] = o]
    /\ arrived' = Append(arrived, k)
    /\ UNCHANGED <<phase, canary, judgement>>

Resume(k) ==
    /\ k \in woken
    /\ woken' = woken \ {k}
    /\ running' = running + 1
    /\ active' = active \cup {k}
    /\ UNCHANGED <<phase, canary, waiting, result, arrived, judgement>>

Failed(k) == result[k] # "ACCEPTED"

\* Variant: the first failure to come in.
FirstFailed_arrival(k) ==
    \E i \in DOMAIN arrived :
        /\ arrived[i] = k /\ Failed(k)
        /\ \A j \in 1..(i - 1) : ~Failed(arrived[j])

\* The results are sorted by test case.
FirstFailed(k) == Failed(k) /\ \A j \in 1..(k - 1) : ~Failed(j)

\* Promise.all.
Conclude ==
    /\ phase = "tests"
    /\ \A k \in Case : result[k] # "none"
    /\ phase' = "finished"
    /\ judgement' = IF \E k \in Case : Failed(k)
                  THEN result[CHOOSE k \in Case : FirstFailed(k)]
                  ELSE "ACCEPTED"
    /\ UNCHANGED <<canary, pool, result, arrived>>

JudgeNext ==
    \/ \E v \in {"SYSTEM_ERROR", "COMPILATION_ERROR"} : FirstRunFails(v)
    \/ \E o \in RunOutcomes : FanOut(o)
    \/ \E k \in Case : (\E o \in Outcomes : TestCaseEnds(k, o)) \/ Resume(k)
    \/ Conclude

JudgeSpec == JudgeInit /\ [][JudgeNext]_judgeVars

-----------------------------------------------------------------------------
\* The pool is neither overbooked nor idle: with the tasks just woken, as many test cases
\* run as the pool admits or as there are left (WorkerPool.add).
Left == {k \in Case : result[k] = "none"}
PoolIsUsed ==
    phase = "tests" =>
        running + Cardinality(woken) =
            IF Cardinality(Left) < Concurrency THEN Cardinality(Left) ELSE Concurrency

\* The verdict does not depend on the order in which results come in: whichever way the
\* first failing test case failed (execute, "Deterministic verdict").
VerdictIsDeterministic ==
    (phase = "finished" /\ canary # "none") =>
        \E k \in Case : /\ result[k] = judgement
                        /\ \A j \in 1..(k - 1) : result[j] = "ACCEPTED"
                        /\ judgement = "ACCEPTED" => k = Cases
=============================================================================
