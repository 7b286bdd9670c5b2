----------------------------- MODULE Submission -----------------------------
(***************************************************************************)
(* One submission to a battle from POST /submissions to its verdict: the    *)
(* controller that stores and enqueues it, its BullMQ job, and the workers  *)
(* that may run it.  processSubmission is taken apart at its awaits.  The   *)
(* queue keeps its promise of three attempts; it takes a job back from a    *)
(* worker whose lock has expired, alive or not, and gives it up the second  *)
(* time.  Submissions do not share any state, so one is enough.             *)
(***************************************************************************)
EXTENDS Integers

CONSTANTS
    Workers,    \* executions of the worker callbacks, in whatever process
    NoWorker,
    Attempts,   \* of the queues' defaultJobOptions
    MaxFaults   \* bound of the model: failing calls, crashes and lost locks

\* What the proofs assume of the constants.
SubmissionAssumption ==
    NoWorker \notin Workers /\ Attempts \in Nat \ {0} /\ MaxFaults \in Nat

VARIABLES
    status, verdict,    \* of the submission row
    api,                \* how far the controller is
    job, tries, stalls, \* the BullMQ job: state, failed attempts, lost locks
    owner,              \* whose lock the active job is under
    run,                \* the executions of processSubmission
    seated,             \* whether the author still has a row in the battle
    scored, credited,   \* times the solve was recorded in Postgres, in Redis
    faults,
    torn,               \* history: the lock was lost before COMPILING was written
    abandoned           \* history: the last attempt could not store its failure

row == <<status, verdict>>
queue == <<job, tries, stalls, owner>>
awards == <<scored, credited>>
history == <<torn, abandoned>>
submissionVars == <<row, api, queue, run, seated, awards, faults, history>>

\* Statuses of the enumeration that some code path writes; nothing writes RUNNING or
\* EVALUATING, the former being the one the scheduler's recovery looks for.
Statuses == {"CREATED", "QUEUED", "COMPILING", "FINALIZED"}

RunSteps == {"idle", "check", "compile", "evaluate", "complete", "score", "credit", "finish",
          "fail", "reject"}

SubmissionTypeOK ==
    /\ status \in Statuses
    /\ verdict \in {"none", "ACCEPTED", "REJECTED", "SYSTEM_ERROR"}
    /\ api \in {"created", "queued", "repair", "done"}
    /\ job \in {"none", "waiting", "active", "done", "failed"}
    /\ tries \in 0..Attempts /\ stalls \in 0..2
    /\ owner \in Workers \cup {NoWorker}
    /\ (owner = NoWorker) <=> (job # "active")
    /\ run \in [Workers -> [pc : RunSteps, accepted : BOOLEAN]]
    /\ seated \in BOOLEAN
    /\ scored \in Nat /\ credited \in Nat
    /\ faults \in 0..MaxFaults
    /\ torn \in BOOLEAN /\ abandoned \in BOOLEAN

SubmissionInit ==
    /\ status = "CREATED" /\ verdict = "none"
    /\ api = "created"
    /\ job = "none" /\ tries = 0 /\ stalls = 0 /\ owner = NoWorker
    /\ run = [w \in Workers |-> [pc |-> "idle", accepted |-> FALSE]]
    /\ seated = TRUE
    /\ scored = 0 /\ credited = 0
    /\ faults = 0 /\ torn = FALSE /\ abandoned = FALSE

Misfortune == faults < MaxFaults /\ faults' = faults + 1

-----------------------------------------------------------------------------
(* SubmissionController.submit, once the row is created                    *)

MarkQueued ==
    /\ api = "created"
    /\ status' = "QUEUED"
    /\ api' = "queued"
    /\ UNCHANGED <<verdict, queue, run, seated, awards, faults, history>>

Enqueue ==
    /\ api = "queued"
    /\ job' = "waiting"
    /\ api' = "done"
    /\ UNCHANGED <<row, tries, stalls, owner, run, seated, awards, faults, history>>

\* add() throws; the job may be in the queue all the same.
EnqueueFails ==
    /\ api = "queued"
    /\ Misfortune
    /\ job' \in {"none", "waiting"}
    /\ api' = "repair"
    /\ UNCHANGED <<row, tries, stalls, owner, run, seated, awards, history>>

\* The check that precedes the write passes in every status but FINALIZED, which the
\* write does not change: one step.
Repair ==
    /\ api = "repair"
    /\ status' = "FINALIZED"
    /\ api' = "done"
    /\ UNCHANGED <<verdict, queue, run, seated, awards, faults, history>>

\* A call before the try fails, or the repair does: nobody comes back to the row.
ControllerFails ==
    /\ api # "done"
    /\ Misfortune
    /\ api' = "done"
    /\ UNCHANGED <<row, queue, run, seated, awards, history>>

-----------------------------------------------------------------------------
(* processSubmission                                                       *)

RunAt(w, step) == run[w].pc = step
RunGoes(w, step) == run' = [run EXCEPT ![w].pc = step]

Take(w) ==
    /\ RunAt(w, "idle")
    /\ job = "waiting"
    /\ job' = "active"
    /\ owner' = w
    /\ RunGoes(w, "check")
    /\ UNCHANGED <<row, api, tries, stalls, seated, awards, faults, history>>

\* The transitions of the submission state machine.
Transitions ==
    [s \in Statuses |->
        CASE s = "CREATED" -> {"QUEUED"}
          [] s = "QUEUED" -> {"COMPILING", "FINALIZED"}
          [] s = "COMPILING" -> {"FINALIZED"}
          [] s = "FINALIZED" -> {}]

\* Variant: an attempt may take up a submission left in COMPILING.
CanTransition_again(s, t) == t \in Transitions[s] \/ s = t

CanTransition(s, t) == t \in Transitions[s]

\* updateStatus(COMPILING): validateTransition reads the row, the update is
\* unconditional.
Check(w) ==
    /\ RunAt(w, "check")
    /\ RunGoes(w, IF CanTransition(status, "COMPILING") THEN "compile" ELSE "fail")
    /\ UNCHANGED <<row, api, queue, seated, awards, faults, history>>

Compile(w) ==
    /\ RunAt(w, "compile")
    /\ status' = "COMPILING"
    /\ RunGoes(w, "evaluate")
    /\ UNCHANGED <<verdict, api, queue, seated, awards, faults, history>>

Evaluate(w, accepted) ==
    /\ RunAt(w, "evaluate")
    /\ run' = [run EXCEPT ![w] = [pc |-> "complete", accepted |-> accepted]]
    /\ UNCHANGED <<row, api, queue, seated, awards, faults, history>>

\* completeSubmission writes whatever the status.
Complete(w) ==
    /\ RunAt(w, "complete")
    /\ status' = "FINALIZED"
    /\ verdict' = IF run[w].accepted THEN "ACCEPTED" ELSE "REJECTED"
    /\ RunGoes(w, IF run[w].accepted THEN "score" ELSE "finish")
    /\ UNCHANGED <<api, queue, seated, awards, faults, history>>

\* recordParticipantScore throws when the participant's row is gone.
Score(w) ==
    /\ RunAt(w, "score")
    /\ scored' = scored + IF seated THEN 1 ELSE 0
    /\ RunGoes(w, IF seated THEN "credit" ELSE "fail")
    /\ UNCHANGED <<row, api, queue, seated, credited, faults, history>>

\* processEvaluationResult, what it does is LiveBattle's concern.
Credit(w) ==
    /\ RunAt(w, "credit")
    /\ credited' = credited + 1
    /\ RunGoes(w, "finish")
    /\ UNCHANGED <<row, api, queue, seated, scored, faults, history>>

\* Who has lost the lock cannot complete the job.
Finish(w) ==
    /\ RunAt(w, "finish")
    /\ RunGoes(w, "idle")
    /\ IF owner = w THEN job' = "done" /\ owner' = NoWorker
                    ELSE UNCHANGED <<job, owner>>
    /\ UNCHANGED <<row, api, tries, stalls, seated, awards, faults, history>>

\* An awaited call throws: before its effect, or after the effect of the step before.
Fault(w) ==
    /\ run[w].pc \in RunSteps \ {"idle", "finish", "fail", "reject"}
    /\ Misfortune
    /\ RunGoes(w, "fail")
    /\ UNCHANGED <<row, api, queue, seated, awards, history>>

\* Variant: the failure is left to the next attempt.
FailedRow_kept == UNCHANGED row

FailedRow == status' = "FINALIZED" /\ verdict' = "SYSTEM_ERROR"

\* The catch.
Fail(w) ==
    /\ RunAt(w, "fail")
    /\ FailedRow
    /\ RunGoes(w, "reject")
    /\ UNCHANGED <<api, queue, seated, awards, faults, history>>

FailMisses(w) ==
    /\ RunAt(w, "fail")
    /\ Misfortune
    /\ abandoned' = (abandoned \/ tries + 1 = Attempts)
    /\ RunGoes(w, "reject")
    /\ UNCHANGED <<row, api, queue, seated, awards, torn>>

\* Variant: attempts are not counted.
AfterFailure_again == "waiting"

AfterFailure == IF tries + 1 < Attempts THEN "waiting" ELSE "failed"

\* The attempt has failed: another one, if there is one left.
Reject(w) ==
    /\ RunAt(w, "reject")
    /\ RunGoes(w, "idle")
    /\ IF owner = w
       THEN /\ tries' = tries + 1
            /\ job' = AfterFailure
            /\ owner' = NoWorker
       ELSE UNCHANGED <<tries, job, owner>>
    /\ UNCHANGED <<row, api, stalls, seated, awards, faults, history>>

Crash(w) ==
    /\ ~RunAt(w, "idle")
    /\ Misfortune
    /\ RunGoes(w, "idle")
    /\ UNCHANGED <<row, api, queue, seated, awards, history>>

\* The lock expires under a worker that is dead or just slow.
Stall(w) ==
    /\ owner = w
    /\ Misfortune
    /\ stalls' = stalls + 1
    /\ job' = IF stalls = 0 THEN "waiting" ELSE "failed"
    /\ owner' = NoWorker
    /\ torn' = (torn \/ run[w].pc \in {"check", "compile"})
    /\ abandoned' = (abandoned \/ stalls # 0)
    /\ UNCHANGED <<row, api, tries, run, seated, awards>>

\* The author leaves the room: leaveRoom deletes the row.
LeavesRoom ==
    /\ seated
    /\ seated' = FALSE
    /\ UNCHANGED <<row, api, queue, run, awards, faults, history>>

SubmissionNext ==
    \/ MarkQueued \/ Enqueue \/ EnqueueFails \/ Repair \/ ControllerFails
    \/ LeavesRoom
    \/ \E w \in Workers :
        \/ Take(w) \/ Check(w) \/ Compile(w) \/ Complete(w) \/ Score(w) \/ Credit(w)
        \/ \E accepted \in BOOLEAN : Evaluate(w, accepted)
        \/ Finish(w) \/ Fault(w) \/ Fail(w) \/ FailMisses(w) \/ Reject(w)
        \/ Crash(w) \/ Stall(w)

SubmissionSpec == SubmissionInit /\ [][SubmissionNext]_submissionVars

-----------------------------------------------------------------------------
\* However often its job is run, an accepted submission is scored and credited once:
\* whoever comes second finds the row no longer QUEUED.  The exception is a worker that
\* loses its lock between reading the row and writing COMPILING (updateStatus).
AwardedOnce == torn \/ (scored <= 1 /\ credited <= 1)

\* No submission is left in COMPILING by a job that has ended, as the catch (AF-009)
\* promises, unless its last attempt could not even store its failure, or the job was
\* given up because its workers died, or a worker wrote COMPILING long after.
EndsFinalized == job \in {"done", "failed"} => status = "FINALIZED" \/ abandoned \/ torn
=============================================================================
