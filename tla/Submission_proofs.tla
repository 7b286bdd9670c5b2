-------------------------- MODULE Submission_proofs --------------------------
(* Proofs about Submission: types, that a solve is awarded once however     *)
(* often its job is run, and that no ended job leaves it unfinished.  And   *)
(* about Judge: the pool is used up to its limit and never beyond, and the  *)
(* verdict does not depend on the order in which test cases end.            *)
EXTENDS Submission, Judge, FiniteSetTheorems, SequenceTheorems, WellFoundedInduction, TLAPS

\* Steps of a worker that has seen the row QUEUED, until its job ends.
Busy == {"compile", "evaluate", "complete", "score", "credit", "finish"}

\* A job that has not ended has attempts left; before it is enqueued there are no workers.
QueueInv ==
    /\ job \notin {"done", "failed"} => tries < Attempts /\ stalls <= 1
    /\ api \in {"created", "queued"} => job = "none" /\ \A w \in Workers : RunAt(w, "idle")
    /\ api = "created" => status = "CREATED"

SubmissionTyped == SubmissionTypeOK /\ QueueInv

\* A worker has the lock as long as it has not written COMPILING.
Locks == \A w \in Workers : run[w].pc \in {"check", "compile"} => owner = w

\* One worker at most is past the check of the row.
Alone == \A w, x \in Workers : run[w].pc \in Busy /\ run[x].pc \in Busy => w = x

\* Nothing has been awarded before that worker comes to it.
Unawarded ==
    /\ scored <= 1 /\ credited <= 1
    /\ \A w \in Workers :
        /\ run[w].pc \in {"compile", "evaluate", "complete", "score"}
             => scored = 0 /\ credited = 0
        /\ RunAt(w, "credit") => credited = 0

\* A row that is still QUEUED has never been taken up.
FreshRow ==
    status \in {"CREATED", "QUEUED"}
    => /\ scored = 0 /\ credited = 0
       /\ \A w \in Workers : run[w].pc \notin Busy \ {"compile"}

AwardInv == SubmissionTyped /\ FreshRow /\ (torn \/ (Locks /\ Alone /\ Unawarded))

USE DEF RunAt, RunGoes, row, queue, awards, history

-----------------------------------------------------------------------------
(* Types                                                                   *)

LEMMA SubmissionInitTyped ==
    ASSUME SubmissionAssumption, SubmissionInit
    PROVE  SubmissionTyped
  <1>1. run \in [Workers -> [pc : RunSteps, accepted : BOOLEAN]]
    BY DEF SubmissionInit, RunSteps
  <1>2. \A w \in Workers : run[w].pc = "idle"
    BY DEF SubmissionInit
  <1>3. torn \in BOOLEAN /\ abandoned \in BOOLEAN /\ seated \in BOOLEAN
    BY Zenon DEF SubmissionInit
  <1> QED
    BY <1>1, <1>2, <1>3
      DEF SubmissionAssumption, SubmissionInit, SubmissionTyped, SubmissionTypeOK, QueueInv,
          Statuses

(* A worker that goes on to another step.                                  *)
LEMMA RunTyped ==
    ASSUME SubmissionTypeOK, NEW w \in Workers, NEW step \in RunSteps, RunGoes(w, step)
    PROVE  /\ run' \in [Workers -> [pc : RunSteps, accepted : BOOLEAN]]
           /\ run'[w].pc = step
           /\ \A x \in Workers \ {w} : run'[x] = run[x]
  BY DEF SubmissionTypeOK

LEMMA SubmissionStepTyped ==
    ASSUME SubmissionAssumption, SubmissionTyped, [SubmissionNext]_submissionVars
    PROVE  SubmissionTyped'
  <1> USE DEF SubmissionAssumption, SubmissionTyped
  <1>1. ASSUME MarkQueued \/ Enqueue \/ EnqueueFails \/ Repair \/ ControllerFails
        PROVE  SubmissionTyped'
    BY <1>1 DEF MarkQueued, Enqueue, EnqueueFails, Repair, ControllerFails, Misfortune,
                SubmissionTypeOK, QueueInv, Statuses
  <1>2. ASSUME LeavesRoom \/ UNCHANGED submissionVars
        PROVE  SubmissionTyped'
    <2>1. UNCHANGED <<status, verdict, api, job, tries, stalls, owner, run, scored, credited,
                      faults, torn, abandoned>>
      BY <1>2 DEF LeavesRoom, submissionVars
    <2>2. seated' \in BOOLEAN
      BY <1>2, Zenon DEF LeavesRoom, submissionVars, SubmissionTypeOK
    <2>3. SubmissionTypeOK'
      BY <2>1, <2>2 DEF SubmissionTypeOK
    <2>4. QueueInv'
      BY <2>1 DEF QueueInv
    <2> QED
      BY <2>3, <2>4
  <1>3. ASSUME NEW w \in Workers, Take(w)
        PROVE  SubmissionTyped'
    <2>1. run' \in [Workers -> [pc : RunSteps, accepted : BOOLEAN]]
      BY <1>3, RunTyped DEF Take, RunSteps
    <2> QED
      BY <1>3, <2>1 DEF Take, SubmissionTypeOK, QueueInv
  <1>4. ASSUME NEW w \in Workers, Check(w) \/ Compile(w) \/ Complete(w)
        PROVE  SubmissionTyped'
    <2>1. PICK step \in RunSteps : RunGoes(w, step)
      BY <1>4 DEF Check, Compile, Complete, RunSteps
    <2>2. run' \in [Workers -> [pc : RunSteps, accepted : BOOLEAN]]
      BY <2>1, RunTyped
    <2>3. status' \in Statuses
      BY <1>4 DEF Check, Compile, Complete, SubmissionTypeOK, Statuses
    <2>4. verdict' \in {"none", "ACCEPTED", "REJECTED", "SYSTEM_ERROR"}
      BY <1>4 DEF Check, Compile, Complete, SubmissionTypeOK
    <2>5. api \notin {"created", "queued"}
      BY <1>4 DEF QueueInv, Check, Compile, Complete
    <2> QED
      BY <1>4, <2>2, <2>3, <2>4, <2>5 DEF Check, Compile, Complete, SubmissionTypeOK, QueueInv
  <1>5. ASSUME NEW w \in Workers, NEW accepted \in BOOLEAN, Evaluate(w, accepted)
        PROVE  SubmissionTyped'
    <2>1. run' \in [Workers -> [pc : RunSteps, accepted : BOOLEAN]]
      <3> DEFINE r == [pc |-> "complete", accepted |-> accepted]
      <3>1. r \in [pc : RunSteps, accepted : BOOLEAN]
        BY DEF RunSteps
      <3>2. run' = [run EXCEPT ![w] = r]
        BY <1>5 DEF Evaluate
      <3> HIDE DEF r
      <3> QED
        BY <3>1, <3>2 DEF SubmissionTypeOK
    <2>2. api \notin {"created", "queued"}
      BY <1>5 DEF QueueInv, Evaluate
    <2> QED
      BY <1>5, <2>1, <2>2 DEF Evaluate, SubmissionTypeOK, QueueInv
  <1>6. ASSUME NEW w \in Workers, Score(w) \/ Credit(w) \/ Fault(w) \/ Crash(w)
        PROVE  SubmissionTyped'
    <2>1. PICK step \in RunSteps : RunGoes(w, step)
      BY <1>6 DEF Score, Credit, Fault, Crash, RunSteps
    <2>2. run' \in [Workers -> [pc : RunSteps, accepted : BOOLEAN]]
      BY <2>1, RunTyped
    <2>3. scored' \in Nat /\ credited' \in Nat /\ faults' \in 0..MaxFaults
      BY <1>6 DEF Score, Credit, Fault, Crash, Misfortune, SubmissionTypeOK
    <2>4. api \notin {"created", "queued"}
      BY <1>6 DEF QueueInv, Score, Credit, Fault, Crash, RunSteps
    <2> QED
      BY <1>6, <2>2, <2>3, <2>4 DEF Score, Credit, Fault, Crash, SubmissionTypeOK, QueueInv
  <1>7. ASSUME NEW w \in Workers, Fail(w) \/ FailMisses(w)
        PROVE  SubmissionTyped'
    <2>1. run' \in [Workers -> [pc : RunSteps, accepted : BOOLEAN]]
      BY <1>7, RunTyped DEF Fail, FailMisses, RunSteps
    <2>2. faults' \in 0..MaxFaults
      BY <1>7 DEF Fail, FailMisses, Misfortune, SubmissionTypeOK
    <2>3. abandoned' \in BOOLEAN
      <3>1. CASE Fail(w)
        BY <3>1 DEF Fail, SubmissionTypeOK
      <3>2. CASE FailMisses(w)
        BY <3>2, Zenon DEF FailMisses
      <3> QED
        BY <1>7, <3>1, <3>2
    <2>4. api \notin {"created", "queued"}
      BY <1>7 DEF QueueInv, Fail, FailMisses
    <2>5. status' \in Statuses /\ verdict' \in {"none", "ACCEPTED", "REJECTED", "SYSTEM_ERROR"}
      BY <1>7 DEF Fail, FailMisses, FailedRow, SubmissionTypeOK, Statuses
    <2> QED
      BY <1>7, <2>1, <2>2, <2>3, <2>4, <2>5 DEF Fail, FailMisses, SubmissionTypeOK, QueueInv
  <1>8. ASSUME NEW w \in Workers, Finish(w) \/ Reject(w)
        PROVE  SubmissionTyped'
    <2>1. run' \in [Workers -> [pc : RunSteps, accepted : BOOLEAN]]
      BY <1>8, RunTyped DEF Finish, Reject, RunSteps
    <2>2. api \notin {"created", "queued"}
      BY <1>8 DEF QueueInv, Finish, Reject
    <2>3. owner = w => job = "active" /\ tries < Attempts /\ stalls <= 1
      BY DEF SubmissionTypeOK, QueueInv
    <2> QED
      BY <1>8, <2>1, <2>2, <2>3 DEF Finish, Reject, AfterFailure, SubmissionTypeOK, QueueInv
  <1>9. ASSUME NEW w \in Workers, Stall(w)
        PROVE  SubmissionTyped'
    <2>1. job = "active" /\ tries < Attempts /\ stalls <= 1
      BY <1>9 DEF Stall, SubmissionTypeOK, QueueInv
    <2>2. torn' \in BOOLEAN /\ abandoned' \in BOOLEAN
      BY <1>9, Zenon DEF Stall
    <2>3. stalls' \in 0..2 /\ faults' \in 0..MaxFaults /\ job' \in {"waiting", "failed"}
      BY <1>9, <2>1 DEF Stall, Misfortune, SubmissionTypeOK
    <2>4. api \notin {"created", "queued"}
      BY <2>1 DEF QueueInv
    <2> QED
      BY <1>9, <2>1, <2>2, <2>3, <2>4 DEF Stall, SubmissionTypeOK, QueueInv
  <1> QED
    BY <1>1, <1>2, <1>3, <1>4, <1>5, <1>6, <1>7, <1>8, <1>9 DEF SubmissionNext

\* For any number of workers, attempts and faults: each variable keeps its type, attempts
\* are never counted past their limit, and a job is under a lock exactly while it is
\* active (TypeOK of Submission).
THEOREM SubmissionTypes ==
    ASSUME SubmissionAssumption
    PROVE  SubmissionSpec => []SubmissionTypeOK
  <1>1. SubmissionInit => SubmissionTyped
    BY SubmissionInitTyped
  <1>2. SubmissionTyped /\ [SubmissionNext]_submissionVars => SubmissionTyped'
    BY SubmissionStepTyped
  <1>3. SubmissionTyped => SubmissionTypeOK
    BY DEF SubmissionTyped
  <1> QED
    BY <1>1, <1>2, <1>3, PTL DEF SubmissionSpec

-----------------------------------------------------------------------------
(* Awards                                                                  *)

OnceOnly == Locks /\ Alone /\ Unawarded

LEMMA InitAwards ==
    ASSUME SubmissionAssumption, SubmissionInit
    PROVE  AwardInv
  <1>1. \A w \in Workers : run[w].pc = "idle"
    BY DEF SubmissionInit
  <1>2. scored = 0 /\ credited = 0
    BY DEF SubmissionInit
  <1> QED
    BY <1>1, <1>2, SubmissionInitTyped DEF AwardInv, FreshRow, Locks, Alone, Unawarded, Busy

(* A worker that goes on to a step at which it is not Busy, with nothing   *)
(* else changed than the lock of a job, its own or one that nobody has.    *)
LEMMA StepsAside ==
    ASSUME SubmissionTyped, FreshRow, torn \/ OnceOnly, NEW w \in Workers, NEW step \in RunSteps,
           RunGoes(w, step), step \notin Busy,
           step = "check" => owner' = w,
           \A x \in Workers \ {w} : owner = x => owner' = x,
           UNCHANGED <<awards, torn>>, status' \in {"CREATED", "QUEUED"} => status' = status
    PROVE  FreshRow' /\ (torn' \/ OnceOnly')
  <1> USE DEF SubmissionTyped
  <1>1. run'[w].pc = step /\ \A x \in Workers \ {w} : run'[x] = run[x]
    BY RunTyped
  <1>2. FreshRow'
    BY <1>1 DEF FreshRow
  <1>3. Locks => (step # "compile" => Locks')
    BY <1>1 DEF Locks
  <1>4. Alone => Alone'
    BY <1>1 DEF Alone
  <1>5. Unawarded => Unawarded'
    BY <1>1 DEF Unawarded, Busy
  <1> QED
    BY <1>2, <1>3, <1>4, <1>5 DEF OnceOnly, Busy

(* A worker that is Busy and stays so, with the lock left alone.           *)
LEMMA StaysBusy ==
    ASSUME SubmissionTyped, OnceOnly, NEW w \in Workers, run[w].pc \in Busy,
           run'[w].pc \in Busy \ {"compile"},
           \A x \in Workers \ {w} : run'[x] = run[x],
           UNCHANGED <<owner, torn>>
    PROVE  Locks' /\ Alone'
  <1>1. Locks'
    BY DEF Locks, OnceOnly, Busy
  <1>2. Alone'
    BY DEF Alone, OnceOnly
  <1> QED
    BY <1>1, <1>2

LEMMA StepAwards ==
    ASSUME SubmissionAssumption, AwardInv, [SubmissionNext]_submissionVars
    PROVE  AwardInv'
  <1> USE DEF AwardInv
  <1>1. SubmissionTyped'
    BY SubmissionStepTyped
  <1>2. torn \/ OnceOnly
    BY DEF OnceOnly
  <1> SUFFICES FreshRow' /\ (torn' \/ OnceOnly')
    BY <1>1 DEF OnceOnly
  <1>3. ASSUME UNCHANGED <<run, owner, awards, torn>>,
               status' \in {"CREATED", "QUEUED"} => status \in {"CREATED", "QUEUED"}
        PROVE  FreshRow' /\ (torn' \/ OnceOnly')
    BY <1>2, <1>3 DEF FreshRow, OnceOnly, Locks, Alone, Unawarded
  <1>4. ASSUME MarkQueued \/ Enqueue \/ EnqueueFails \/ Repair \/ ControllerFails
        PROVE  FreshRow' /\ (torn' \/ OnceOnly')
    BY <1>3, <1>4
      DEF MarkQueued, Enqueue, EnqueueFails, Repair, ControllerFails, SubmissionTyped, QueueInv
  <1>5. ASSUME LeavesRoom \/ UNCHANGED submissionVars
        PROVE  FreshRow' /\ (torn' \/ OnceOnly')
    BY <1>3, <1>5 DEF LeavesRoom, submissionVars
  <1>6. ASSUME NEW w \in Workers, Take(w)
        PROVE  FreshRow' /\ (torn' \/ OnceOnly')
    <2>1. \A x \in Workers : owner # x
      BY <1>6 DEF Take, SubmissionTyped, SubmissionTypeOK, SubmissionAssumption
    <2> QED
      BY <1>2, <1>6, <2>1, StepsAside DEF Take, RunSteps, Busy
  (* The row is QUEUED: nobody has taken it up before, and who has the     *)
  (* lock is the only one to do so now.                                    *)
  <1>7. ASSUME NEW w \in Workers, Check(w)
        PROVE  FreshRow' /\ (torn' \/ OnceOnly')
    <2>1. CASE RunGoes(w, "fail")
      BY <1>2, <1>7, <2>1, StepsAside DEF Check, RunSteps, Busy
    <2>2. CASE RunGoes(w, "compile") /\ CanTransition(status, "COMPILING")
      <3>1. run'[w].pc = "compile" /\ \A x \in Workers \ {w} : run'[x] = run[x]
        BY <2>2, RunTyped DEF SubmissionTyped, RunSteps
      <3>2. status = "QUEUED" /\ UNCHANGED <<status, owner, awards, torn>>
        BY <1>7, <2>2
          DEF Check, CanTransition, Transitions, SubmissionTyped, SubmissionTypeOK, Statuses
      <3>3. FreshRow'
        BY <3>1, <3>2 DEF FreshRow
      <3>4. ASSUME OnceOnly PROVE OnceOnly'
        <4>1. Locks'
          BY <1>7, <3>1, <3>2, <3>4 DEF Check, OnceOnly, Locks
        <4>2. \A x \in Workers \ {w} : run[x].pc \notin Busy
          BY <1>7, <3>2, <3>4 DEF Check, OnceOnly, Locks, FreshRow
        <4>3. Alone'
          BY <3>1, <4>2 DEF Alone
        <4>4. Unawarded'
          BY <3>1, <3>2, <3>4 DEF OnceOnly, Unawarded, FreshRow
        <4> QED
          BY <4>1, <4>3, <4>4 DEF OnceOnly
      <3> QED
        BY <1>2, <3>2, <3>3, <3>4
    <2> QED
      BY <1>7, <2>1, <2>2 DEF Check
  <1>8. ASSUME NEW w \in Workers, NEW step \in {"evaluate", "complete", "score", "finish"},
               run[w].pc \in {"compile", "evaluate", "complete"}, run'[w].pc = step,
               \A x \in Workers \ {w} : run'[x] = run[x],
               UNCHANGED <<owner, awards, torn>>,
               status' \notin {"CREATED", "QUEUED"}
        PROVE  FreshRow' /\ (torn' \/ OnceOnly')
    <2>1. FreshRow'
      BY <1>8 DEF FreshRow
    <2>2. ASSUME OnceOnly PROVE OnceOnly'
      <3>1. Locks' /\ Alone'
        BY <1>8, <2>2, StaysBusy DEF Busy
      <3>2. Unawarded'
        BY <1>8, <2>2 DEF OnceOnly, Unawarded
      <3> QED
        BY <3>1, <3>2 DEF OnceOnly
    <2> QED
      BY <1>2, <1>8, <2>1, <2>2
  <1>9. ASSUME NEW w \in Workers, Compile(w) \/ Complete(w)
        PROVE  FreshRow' /\ (torn' \/ OnceOnly')
    <2>1. PICK step \in {"evaluate", "score", "finish"} : RunGoes(w, step)
      BY <1>9 DEF Compile, Complete
    <2>2. run'[w].pc = step /\ \A x \in Workers \ {w} : run'[x] = run[x]
      BY <2>1, RunTyped DEF SubmissionTyped, RunSteps
    <2> QED
      BY <1>8, <1>9, <2>2 DEF Compile, Complete
  <1>10. ASSUME NEW w \in Workers, NEW accepted \in BOOLEAN, Evaluate(w, accepted)
         PROVE  FreshRow' /\ (torn' \/ OnceOnly')
    <2>1. run'[w].pc = "complete" /\ \A x \in Workers \ {w} : run'[x] = run[x]
      BY <1>10 DEF Evaluate, SubmissionTyped, SubmissionTypeOK
    <2>2. status \notin {"CREATED", "QUEUED"}
      BY <1>10 DEF Evaluate, FreshRow, Busy
    <2> QED
      BY <1>8, <1>10, <2>1, <2>2 DEF Evaluate
  <1>11. ASSUME NEW w \in Workers, Score(w) \/ Credit(w)
         PROVE  FreshRow' /\ (torn' \/ OnceOnly')
    <2>1. status \notin {"CREATED", "QUEUED"} /\ status' = status
      BY <1>11 DEF Score, Credit, FreshRow, Busy
    <2>2. FreshRow'
      BY <2>1 DEF FreshRow
    <2>3. UNCHANGED <<owner, torn>>
      BY <1>11 DEF Score, Credit
    <2>4. ASSUME OnceOnly PROVE torn' \/ OnceOnly'
      <3>1. CASE Score(w) /\ ~seated
        <4>1. RunGoes(w, "fail") /\ UNCHANGED <<owner, awards, torn>>
          BY <3>1 DEF Score, SubmissionTyped, SubmissionTypeOK
        <4> QED
          BY <2>1, <2>4, <4>1, StepsAside DEF RunSteps, Busy
      <3>2. CASE Score(w) /\ seated
        <4>1. run'[w].pc = "credit" /\ \A x \in Workers \ {w} : run'[x] = run[x]
          BY <3>2, RunTyped DEF Score, SubmissionTyped, RunSteps
        <4>2. Locks' /\ Alone'
          BY <2>3, <2>4, <3>2, <4>1, StaysBusy DEF Score, Busy
        <4>3. scored = 0 /\ credited = 0 /\ scored' = 1 /\ credited' = 0
          BY <2>4, <3>2 DEF Score, OnceOnly, Unawarded
        <4>4. \A x \in Workers : run'[x].pc \in Busy => x = w
          BY <4>1, <4>2 DEF Alone, Busy
        <4>5. Unawarded'
          BY <4>1, <4>3, <4>4 DEF Unawarded, Busy
        <4> QED
          BY <4>2, <4>5 DEF OnceOnly
      <3>3. CASE Credit(w)
        <4>1. run'[w].pc = "finish" /\ \A x \in Workers \ {w} : run'[x] = run[x]
          BY <3>3, RunTyped DEF Credit, SubmissionTyped, RunSteps
        <4>2. Locks' /\ Alone'
          BY <2>3, <2>4, <3>3, <4>1, StaysBusy DEF Credit, Busy
        <4>3. credited = 0 /\ credited' = 1 /\ scored' <= 1
          BY <2>4, <3>3 DEF Credit, OnceOnly, Unawarded
        <4>4. \A x \in Workers : run'[x].pc \in Busy => x = w
          BY <4>1, <4>2 DEF Alone, Busy
        <4>5. Unawarded'
          BY <4>1, <4>3, <4>4 DEF Unawarded, Busy
        <4> QED
          BY <4>2, <4>5 DEF OnceOnly
      <3> QED
        BY <1>11, <3>1, <3>2, <3>3
    <2> QED
      BY <1>2, <2>2, <2>3, <2>4
  <1>12. ASSUME NEW w \in Workers,
                \/ Finish(w) \/ Reject(w) \/ Fault(w) \/ Fail(w) \/ FailMisses(w) \/ Crash(w)
         PROVE  FreshRow' /\ (torn' \/ OnceOnly')
    <2>1. PICK step \in {"idle", "fail", "reject"} : RunGoes(w, step)
      BY <1>12 DEF Finish, Reject, Fault, Fail, FailMisses, Crash
    <2>2. UNCHANGED <<awards, torn>> /\ (status' \in {"CREATED", "QUEUED"} => status' = status)
      BY <1>12 DEF Finish, Reject, Fault, Fail, FailMisses, FailedRow, Crash
    <2>3. \A x \in Workers \ {w} : owner = x => owner' = x
      BY <1>12 DEF Finish, Reject, Fault, Fail, FailMisses, Crash
    <2> QED
      BY <1>2, <2>1, <2>2, <2>3, StepsAside DEF RunSteps, Busy
  <1>13. ASSUME NEW w \in Workers, Stall(w)
         PROVE  FreshRow' /\ (torn' \/ OnceOnly')
    <2>1. UNCHANGED <<status, run, awards>>
      BY <1>13 DEF Stall
    <2>2. FreshRow'
      BY <2>1 DEF FreshRow
    <2>3. ASSUME ~torn' PROVE OnceOnly'
      <3>1. ~torn /\ run[w].pc \notin {"check", "compile"} /\ owner = w
        BY <1>13, <2>3 DEF Stall
      <3>2. Locks' /\ Alone' /\ Unawarded'
        BY <1>2, <2>1, <3>1 DEF OnceOnly, Locks, Alone, Unawarded
      <3> QED
        BY <3>2 DEF OnceOnly
    <2> QED
      BY <2>2, <2>3
  <1> QED
    BY <1>4, <1>5, <1>6, <1>7, <1>9, <1>10, <1>11, <1>12, <1>13 DEF SubmissionNext

\* An accepted submission is scored and credited at most once, for any number of workers,
\* attempts, crashes and lost locks, unless a lock was lost between updateStatus's read and
\* its write: the row's own status machine is what makes the retries safe.
THEOREM SubmissionAwardedOnce ==
    ASSUME SubmissionAssumption
    PROVE  SubmissionSpec => []AwardedOnce
  <1>1. SubmissionInit => AwardInv
    BY InitAwards
  <1>2. AwardInv /\ [SubmissionNext]_submissionVars => AwardInv'
    BY StepAwards
  <1>3. AwardInv => AwardedOnce
    BY DEF AwardInv, Unawarded, AwardedOnce
  <1> QED
    BY <1>1, <1>2, <1>3, PTL DEF SubmissionSpec

-----------------------------------------------------------------------------
(* The end of a job                                                        *)

SettledRow ==
    /\ \A w \in Workers : run[w].pc \in {"score", "credit", "finish"} => status = "FINALIZED"
    /\ \A w \in Workers :
        RunAt(w, "reject") /\ owner = w => status = "FINALIZED" \/ tries + 1 < Attempts
    /\ job \in {"done", "failed"} => status = "FINALIZED"

EndInv == AwardInv /\ (torn \/ abandoned \/ SettledRow)

LEMMA InitEnds ==
    ASSUME SubmissionAssumption, SubmissionInit
    PROVE  EndInv
  <1>1. \A w \in Workers : run[w].pc = "idle"
    BY DEF SubmissionInit
  <1> QED
    BY <1>1, InitAwards DEF EndInv, SettledRow, SubmissionInit

(* Steps of a worker that leave the row as it was, or finalized, and do    *)
(* not end its job.                                                        *)
LEMMA SettledStays ==
    ASSUME SubmissionTyped, SettledRow, NEW w \in Workers,
           \A x \in Workers \ {w} : run'[x] = run[x],
           status' = status \/ status' = "FINALIZED",
           run'[w].pc \in {"score", "credit", "finish"} => status' = "FINALIZED",
           run'[w].pc = "reject" /\ owner = w
             => status' = "FINALIZED" \/ tries + 1 < Attempts,
           job' \in {"done", "failed"} => job' = job \/ status' = "FINALIZED",
           tries' = tries \/ (run'[w].pc = "idle" /\ owner = w),
           \A x \in Workers \ {w} : owner' = x => owner = x,
           owner' = w => owner = w \/ run'[w].pc = "check"
    PROVE  SettledRow'
  <1>1. \A x \in Workers : run'[x].pc \in {"score", "credit", "finish"}
                                => status' = "FINALIZED"
    BY DEF SettledRow
  <1>2. \A x \in Workers :
           run'[x].pc = "reject" /\ owner' = x => status' = "FINALIZED" \/ tries' + 1 < Attempts
    BY DEF SettledRow
  <1>3. job' \in {"done", "failed"} => status' = "FINALIZED"
    BY DEF SettledRow
  <1> QED
    BY <1>1, <1>2, <1>3 DEF SettledRow

LEMMA StepEnds ==
    ASSUME SubmissionAssumption, EndInv, [SubmissionNext]_submissionVars
    PROVE  EndInv'
  <1>1. AwardInv' /\ SubmissionTyped /\ SubmissionTyped'
    BY StepAwards DEF EndInv, AwardInv
  <1>2. (torn => torn') /\ (abandoned => abandoned')
    <2>1. CASE \/ MarkQueued \/ Enqueue \/ EnqueueFails \/ Repair \/ ControllerFails
               \/ LeavesRoom \/ UNCHANGED submissionVars
      BY <2>1
        DEF MarkQueued, Enqueue, EnqueueFails, Repair, ControllerFails, LeavesRoom, submissionVars
    <2>2. ASSUME NEW w \in Workers,
                 \/ Take(w) \/ Check(w) \/ Compile(w) \/ Complete(w) \/ Score(w) \/ Credit(w)
                 \/ \E accepted \in BOOLEAN : Evaluate(w, accepted)
                 \/ Finish(w) \/ Fault(w) \/ Fail(w) \/ Reject(w) \/ Crash(w)
          PROVE  UNCHANGED history
      BY <2>2 DEF Take, Check, Compile, Complete, Score, Credit, Evaluate, Finish, Fault, Fail,
                  Reject, Crash
    <2>3. ASSUME NEW w \in Workers, FailMisses(w) \/ Stall(w)
          PROVE  (torn => torn') /\ (abandoned => abandoned')
      <3>1. CASE FailMisses(w)
        <4>1. torn' = torn
          BY <3>1 DEF FailMisses
        <4>2. abandoned' = (abandoned \/ tries + 1 = Attempts)
          BY <3>1, Zenon DEF FailMisses
        <4> QED
          BY <4>1, <4>2, Zenon
      <3>2. CASE Stall(w)
        BY <3>2, Zenon DEF Stall
      <3> QED
        BY <2>3, <3>1, <3>2
    <2> QED
      BY <2>1, <2>2, <2>3, Zenon DEF SubmissionNext
  <1> SUFFICES ASSUME ~torn', ~abandoned' PROVE SettledRow'
    BY <1>1 DEF EndInv
  <1>3. SettledRow /\ Locks /\ Alone /\ ~torn /\ ~abandoned
    BY <1>2 DEF EndInv, AwardInv
  <1>4. ASSUME MarkQueued \/ Enqueue \/ EnqueueFails
        PROVE  SettledRow'
    <2>1. UNCHANGED <<run, tries, owner>> /\ job' \in {"none", "waiting"}
      BY <1>4, <1>1 DEF MarkQueued, Enqueue, EnqueueFails, SubmissionTyped, QueueInv
    <2>2. \A w \in Workers : run[w].pc = "idle"
      BY <1>4, <1>1 DEF MarkQueued, Enqueue, EnqueueFails, SubmissionTyped, QueueInv
    <2> QED
      BY <2>1, <2>2 DEF SettledRow
  <1>5. ASSUME Repair \/ ControllerFails \/ LeavesRoom \/ UNCHANGED submissionVars
        PROVE  SettledRow'
    <2>1. UNCHANGED <<run, tries, owner, job>> /\ (status' = status \/ status' = "FINALIZED")
      BY <1>5 DEF Repair, ControllerFails, LeavesRoom, submissionVars
    <2> QED
      BY <1>3, <2>1 DEF SettledRow
  <1>6. ASSUME NEW w \in Workers, Take(w)
        PROVE  SettledRow'
    <2>1. run'[w].pc = "check" /\ \A x \in Workers \ {w} : run'[x] = run[x]
      BY <1>1, <1>6, RunTyped DEF Take, SubmissionTyped, RunSteps
    <2> QED
      BY <1>1, <1>3, <1>6, <2>1, SettledStays DEF Take, RunSteps
  <1>7. ASSUME NEW w \in Workers,
               \/ Check(w) \/ Complete(w) \/ Score(w) \/ Credit(w) \/ Fault(w) \/ Crash(w)
               \/ Fail(w)
        PROVE  SettledRow'
    <2>1. PICK step \in RunSteps : RunGoes(w, step) /\ step \notin {"check", "evaluate"}
      BY <1>7 DEF Check, Complete, Score, Credit, Fault, Crash, Fail, RunSteps
    <2>2. run'[w].pc = step /\ \A x \in Workers \ {w} : run'[x] = run[x]
      BY <1>1, <2>1, RunTyped DEF SubmissionTyped
    <2>3. UNCHANGED queue /\ (status' = status \/ status' = "FINALIZED")
      BY <1>7 DEF Check, Complete, Score, Credit, Fault, Crash, Fail, FailedRow
    <2>4. step \in {"score", "credit", "finish", "reject"} => status' = "FINALIZED"
      BY <1>1, <1>3, <1>7, <2>2
      DEF Check, Complete, Score, Credit, Fault, Crash, Fail, FailedRow, SettledRow, SubmissionTyped, SubmissionTypeOK
    <2> QED
      BY <1>1, <1>3, <2>2, <2>3, <2>4, SettledStays
  <1>8. ASSUME NEW w \in Workers, NEW accepted \in BOOLEAN, Evaluate(w, accepted)
        PROVE  SettledRow'
    <2>1. run'[w].pc = "complete" /\ \A x \in Workers \ {w} : run'[x] = run[x]
      BY <1>1, <1>8 DEF Evaluate, SubmissionTyped, SubmissionTypeOK
    <2> QED
      BY <1>1, <1>3, <1>8, <2>1, SettledStays DEF Evaluate, RunSteps
  (* COMPILING is written by the one worker that is Busy and has the lock. *)
  <1>9. ASSUME NEW w \in Workers, Compile(w)
        PROVE  SettledRow'
    <2>1. run'[w].pc = "evaluate" /\ \A x \in Workers \ {w} : run'[x] = run[x]
      BY <1>1, <1>9, RunTyped DEF Compile, SubmissionTyped, RunSteps
    <2>2. owner = w /\ job = "active" /\ UNCHANGED <<owner, job, tries>>
      BY <1>1, <1>3, <1>9
        DEF Compile, Locks, SubmissionTyped, SubmissionTypeOK, SubmissionAssumption
    <2>3. \A x \in Workers \ {w} : run[x].pc \notin Busy
      BY <1>3, <1>9 DEF Compile, Alone, Busy
    <2> QED
      BY <2>1, <2>2, <2>3 DEF SettledRow, Busy
  <1>10. ASSUME NEW w \in Workers, FailMisses(w)
         PROVE  SettledRow'
    <2>1. run'[w].pc = "reject" /\ \A x \in Workers \ {w} : run'[x] = run[x]
      BY <1>1, <1>10, RunTyped DEF FailMisses, SubmissionTyped, RunSteps
    <2>2. tries + 1 # Attempts
      BY <1>10 DEF FailMisses
    <2>3. owner = w => tries + 1 < Attempts
      BY <1>1, <2>2 DEF SubmissionTyped, SubmissionTypeOK, QueueInv, SubmissionAssumption
    <2> QED
      BY <1>1, <1>3, <1>10, <2>1, <2>3, SettledStays DEF FailMisses, RunSteps
  <1>11. ASSUME NEW w \in Workers, Finish(w) \/ Reject(w)
         PROVE  SettledRow'
    <2>1. run'[w].pc = "idle" /\ \A x \in Workers \ {w} : run'[x] = run[x]
      BY <1>1, <1>11, RunTyped DEF Finish, Reject, SubmissionTyped, RunSteps
    <2>2. job' \in {"done", "failed"} => job' = job \/ status' = "FINALIZED"
      BY <1>1, <1>3, <1>11 DEF Finish, Reject, AfterFailure, SettledRow
    <2>3. status' = status /\ (tries' = tries \/ owner = w)
      BY <1>11 DEF Finish, Reject
    <2>4. owner' = owner \/ owner' = NoWorker
      BY <1>11 DEF Finish, Reject
    <2> QED
      BY <1>1, <1>3, <2>1, <2>2, <2>3, <2>4, SettledStays DEF RunSteps, SubmissionAssumption
  <1>12. ASSUME NEW w \in Workers, Stall(w)
         PROVE  SettledRow'
    <2>1. UNCHANGED <<run, status, tries>> /\ owner' = NoWorker /\ stalls = 0
      BY <1>12 DEF Stall
    <2>2. job' = "waiting"
      BY <1>12, <2>1 DEF Stall
    <2> QED
      BY <1>3, <2>1, <2>2 DEF SettledRow, SubmissionAssumption
  <1> QED
    BY <1>4, <1>5, <1>6, <1>7, <1>8, <1>9, <1>10, <1>11, <1>12 DEF SubmissionNext

\* A job that has ended leaves its submission finalized, unless its last attempt could not
\* store its failure, its workers died, or one wrote COMPILING late (the catch, AF-009).
THEOREM SubmissionEndsFinalized ==
    ASSUME SubmissionAssumption
    PROVE  SubmissionSpec => []EndsFinalized
  <1>1. SubmissionInit => EndInv
    BY InitEnds
  <1>2. EndInv /\ [SubmissionNext]_submissionVars => EndInv'
    BY StepEnds
  <1>3. EndInv => EndsFinalized
    BY DEF EndInv, SettledRow, EndsFinalized
  <1> QED
    BY <1>1, <1>2, <1>3, PTL DEF SubmissionSpec

-----------------------------------------------------------------------------
(* Judging: the pool and the verdict                                       *)

Queued == Cases - Len(waiting)

\* The queue holds the last test cases, in order; of the others, those without a result
\* run or have just been woken.
Handed ==
    /\ Len(waiting) <= Cases
    /\ \A i \in 1..Len(waiting) : waiting[i] = Queued + i
    /\ active \cap woken = {}
    /\ \A k \in active \cup woken : k <= Queued
    /\ \A k \in Case : result[k] = "none" <=> k \in active \cup woken \/ k > Queued

\* Nobody waits while there is room.
Booked ==
    /\ running = Cardinality(active)
    /\ running + Cardinality(woken) <= Concurrency
    /\ waiting # <<>> => running + Cardinality(woken) = Concurrency

PoolInv ==
    /\ JudgeTypeOK
    /\ phase = "compile" =>
        canary = "none" /\ woken = {} /\ arrived = <<>> /\ result = [k \in Case |-> "none"]
    /\ IF phase = "tests" THEN Handed /\ Booked ELSE active = {} /\ woken = {}

LEMMA CasesFinite ==
    ASSUME JudgeAssumption, NEW S \in SUBSET Case
    PROVE  IsFiniteSet(S) /\ Cardinality(S) \in Nat
  <1>1. 1 \in Int /\ Cases \in Int
    BY DEF JudgeAssumption
  <1>2. IsFiniteSet(Case)
    BY <1>1, FS_Interval DEF Case
  <1> QED
    BY <1>2, FS_Subset, FS_CardinalityType

(* A nonempty set of numbers has a least one.                              *)
LEMMA LeastNumber ==
    ASSUME NEW T \in SUBSET Nat, T # {}
    PROVE  \E k \in T : \A j \in T : k <= j
  <1> DEFINE U == {0..k : k \in T}
  <1>1. U \subseteq FiniteSubsetsOf(Nat) /\ U # {}
    <2>1. ASSUME NEW k \in T PROVE 0..k \in FiniteSubsetsOf(Nat)
      BY FS_Interval DEF FiniteSubsetsOf
    <2> QED
      BY <2>1
  <1>2. PICK S \in U : \A R \in U : <<R, S>> \notin StrictSubsetOrdering(Nat)
    BY <1>1, FS_StrictSubsetOrderingWellFounded, WFMin
  <1>3. PICK k \in T : S = 0..k
    BY <1>2
  <1>4. ASSUME NEW j \in T, j < k PROVE FALSE
    <2>1. 0..j \subseteq 0..k /\ 0..j # 0..k /\ 0..j \in U /\ 0..j \subseteq Nat /\ 0..k \subseteq Nat
      <3>1. k \in 0..k /\ k \notin 0..j
        BY <1>4
      <3> QED
        BY <1>4, <3>1
    <2>2. <<0..j, S>> \in StrictSubsetOrdering(Nat)
      BY <1>3, <2>1 DEF StrictSubsetOrdering
    <2> QED
      BY <1>2, <2>1, <2>2
  <1> QED
    BY <1>4

LEMMA LeastFailure ==
    ASSUME JudgeAssumption, \E k \in Case : Failed(k)
    PROVE  \E k \in Case : FirstFailed(k)
  <1>1. PICK k \in {j \in Case : Failed(j)} : \A j \in {i \in Case : Failed(i)} : k <= j
    <2>1. {j \in Case : Failed(j)} \in SUBSET Nat
      BY DEF Case
    <2> QED
      BY <2>1, LeastNumber
  <1>2. \A j \in 1..(k - 1) : j \in Case /\ ~(k <= j)
    BY <1>1 DEF JudgeAssumption, Case
  <1> QED
    BY <1>1, <1>2 DEF FirstFailed

LEMMA PoolInit == JudgeAssumption /\ JudgeInit => PoolInv
  <1> SUFFICES ASSUME JudgeAssumption, JudgeInit PROVE PoolInv
    OBVIOUS
  <1>1. <<>> \in Seq(Case)
    OBVIOUS
  <1> QED
    BY <1>1 DEF JudgeInit, PoolInv, JudgeTypeOK, Outcomes

(* All test cases are handed over at once: the pool takes what it admits.  *)
LEMMA FanOutPool ==
    ASSUME JudgeAssumption, PoolInv, NEW o \in RunOutcomes, FanOut(o)
    PROVE  PoolInv'
  <1> DEFINE begun == {k \in Case : k <= Concurrency}
             n == Cardinality(begun)
  <1>0. Cases \in Nat \ {0} /\ Concurrency \in Nat \ {0}
    BY DEF JudgeAssumption
  <1>1. n = (IF Cases <= Concurrency THEN Cases ELSE Concurrency) /\ n \in Nat
    <2> DEFINE m == IF Cases <= Concurrency THEN Cases ELSE Concurrency
    <2>1. begun = 1..m /\ m \in Nat \ {0}
      BY <1>0 DEF Case
    <2> HIDE DEF m
    <2>2. Cardinality(1..m) = m
      BY <2>1, FS_Interval
    <2> QED
      BY <2>1, <2>2 DEF m
  <1>2. /\ phase = "compile" /\ phase' = "tests" /\ canary' = o
        /\ running' = n /\ active' = begun
        /\ waiting' = [i \in 1..(Cases - n) |-> Concurrency + i]
        /\ woken' = {} /\ result' = [k \in Case |-> "none"]
        /\ UNCHANGED <<arrived, judgement>>
    BY DEF FanOut, PoolInv
  <1> HIDE DEF n
  <1>3. Cases - n \in Nat /\ \A i \in 1..(Cases - n) : n = Concurrency /\ Concurrency + i \in Case
    BY <1>0, <1>1 DEF Case
  <1>4. waiting' \in [1..(Cases - n) -> Case]
    BY <1>2, <1>3
  <1>5. waiting' \in Seq(Case) /\ Len(waiting') = Cases - n
    BY <1>3, <1>4
  <1>6. JudgeTypeOK'
    BY <1>1, <1>2, <1>5 DEF PoolInv, JudgeTypeOK, Outcomes, Case
  <1>7. Queued' = n
    BY <1>0, <1>1, <1>5 DEF Queued
  <1>8. Handed'
    <2>1. \A i \in 1..Len(waiting') : waiting'[i] = n + i
      BY <1>2, <1>3, <1>5
    <2>2. \A k \in Case : k \in begun <=> k <= n
      BY <1>0, <1>1 DEF Case
    <2> QED
      BY <1>0, <1>1, <1>2, <1>5, <1>7, <2>1, <2>2 DEF Handed, Case
  <1>9. Booked'
    <2>1. waiting' # <<>> => n = Concurrency
      BY <1>3, <1>5
    <2> QED
      BY <1>0, <1>1, <1>2, <2>1, FS_EmptySet DEF Booked, n
  <1> QED
    BY <1>2, <1>6, <1>8, <1>9 DEF PoolInv

(* A test case that ends leaves its place to the first one that waits.     *)
LEMMA EndPool ==
    ASSUME JudgeAssumption, PoolInv, NEW k \in Case, NEW o \in Outcomes, TestCaseEnds(k, o)
    PROVE  PoolInv'
  <1>0. Cases \in Nat \ {0} /\ Concurrency \in Nat \ {0}
    BY DEF JudgeAssumption
  <1>1. /\ phase = "tests" /\ Handed /\ Booked /\ JudgeTypeOK
        /\ k \in active /\ active' = active \ {k} /\ running' = running - 1
        /\ result' = [result EXCEPT ![k] = o] /\ arrived' = Append(arrived, k)
        /\ UNCHANGED <<phase, canary, judgement>>
    BY DEF TestCaseEnds, PoolInv
  <1>2. /\ Cardinality(active) \in Nat /\ Cardinality(active') = Cardinality(active) - 1
        /\ Cardinality(active) # 0 /\ Cardinality(woken) \in Nat
    BY <1>1, CasesFinite, FS_RemoveElement, FS_EmptySet DEF JudgeTypeOK
  <1>3. /\ running' \in Nat /\ active' \subseteq Case /\ arrived' \in Seq(Case)
        /\ result' \in [Case -> Outcomes \cup {"none"}]
    BY <1>1, <1>2 DEF JudgeTypeOK, Booked
  <1>4. o # "none" /\ result' \in [Case -> Outcomes \cup {"none"}] /\ result \in [Case -> Outcomes \cup {"none"}]
    BY <1>1, <1>3 DEF Outcomes, RunOutcomes, JudgeTypeOK
  <1>5. CASE waiting = <<>>
    <2>1. UNCHANGED <<woken, waiting>>
      BY <1>5 DEF TestCaseEnds, WakesNext
    <2>2. JudgeTypeOK'
      BY <1>1, <1>3, <2>1 DEF JudgeTypeOK
    <2>3. Handed'
      <3>1. Len(waiting) = 0 /\ waiting' = waiting /\ woken' = woken /\ Queued = Cases
        BY <1>0, <1>5, <2>1 DEF Queued
      <3>2. \A j \in Case : j <= Cases
        BY <1>0 DEF Case
      <3>3. \A j \in Case : result'[j] = "none" <=> j \in active' \cup woken'
        BY <1>0, <1>1, <1>4, <3>1, <3>2 DEF Handed, Case
      <3> QED
        BY <1>0, <1>1, <2>1, <3>1, <3>2, <3>3 DEF Handed, Queued, JudgeTypeOK, Case
    <2>4. Booked'
      BY <1>0, <1>1, <1>2, <1>5, <2>1 DEF Booked
    <2> QED
      BY <1>1, <2>2, <2>3, <2>4 DEF PoolInv
  <1>6. CASE waiting # <<>>
    <2>1. woken' = woken \cup {Head(waiting)} /\ waiting' = Tail(waiting)
      BY <1>6 DEF TestCaseEnds, WakesNext
    <2>2. /\ Len(waiting) \in Nat \ {0} /\ waiting' \in Seq(Case)
          /\ Len(waiting') = Len(waiting) - 1 /\ Head(waiting) = waiting[1]
          /\ \A i \in 1..Len(waiting') : waiting'[i] = waiting[i + 1]
          /\ Head(waiting) \in Case
      BY <1>1, <1>6, <2>1, HeadTailProperties, EmptySeq DEF JudgeTypeOK
    <2>3. Head(waiting) = Queued + 1 /\ Queued' = Queued + 1 /\ Queued \in Nat
      BY <1>0, <1>1, <2>2 DEF Handed, Queued
    <2>4. JudgeTypeOK'
      BY <1>1, <1>3, <2>1, <2>2 DEF JudgeTypeOK
    <2>5. Head(waiting) \notin active \cup woken
      BY <1>1, <2>3 DEF Handed, JudgeTypeOK, Case
    <2>6. Cardinality(woken') = Cardinality(woken) + 1
      BY <1>1, <2>1, <2>5, CasesFinite, FS_AddElement DEF JudgeTypeOK
    <2>7. Handed'
      <3>1. Len(waiting') <= Cases /\ active' \cap woken' = {}
        BY <1>0, <1>1, <2>1, <2>2, <2>5 DEF Handed
      <3>2. \A i \in 1..Len(waiting') : waiting'[i] = Queued' + i
        BY <1>1, <2>2, <2>3 DEF Handed
      <3>3. \A j \in active' \cup woken' : j <= Queued'
        BY <1>1, <2>1, <2>3 DEF Handed, JudgeTypeOK, Case
      <3>4. \A j \in Case : result'[j] = "none" <=> j \in active' \cup woken' \/ j > Queued'
        <4> SUFFICES ASSUME NEW j \in Case
                     PROVE  result'[j] = "none" <=> j \in active' \cup woken' \/ j > Queued'
          OBVIOUS
        <4>1. j \in Nat /\ k \in Nat
          BY DEF Case
        <4>2. result[j] = "none" <=> j \in active \cup woken \/ j > Queued
          BY <1>1 DEF Handed
        <4>3. CASE j = k
          <5>1. k \notin woken /\ k <= Queued
            BY <1>1 DEF Handed
          <5> QED
            BY <1>1, <1>4, <2>1, <2>3, <4>1, <4>3, <5>1
        <4>4. CASE j # k
          BY <1>1, <1>4, <2>1, <2>3, <4>1, <4>2, <4>4
        <4> QED
          BY <4>3, <4>4
      <3> QED
        BY <3>1, <3>2, <3>3, <3>4 DEF Handed
    <2>8. Booked'
      BY <1>0, <1>1, <1>2, <1>6, <2>6 DEF Booked
    <2> QED
      BY <1>1, <2>4, <2>7, <2>8 DEF PoolInv
  <1> QED
    BY <1>5, <1>6

LEMMA ResumePool ==
    ASSUME JudgeAssumption, PoolInv, NEW k \in Case, Resume(k)
    PROVE  PoolInv'
  <1>1. /\ phase = "tests" /\ Handed /\ Booked /\ JudgeTypeOK
        /\ k \in woken /\ woken' = woken \ {k} /\ running' = running + 1
        /\ active' = active \cup {k}
        /\ UNCHANGED <<phase, canary, waiting, result, arrived, judgement>>
    BY DEF Resume, PoolInv
  <1>2. /\ Cardinality(active) \in Nat /\ Cardinality(woken) \in Nat
        /\ Cardinality(active') = Cardinality(active) + 1
        /\ Cardinality(woken') = Cardinality(woken) - 1
    BY <1>1, CasesFinite, FS_AddElement, FS_RemoveElement DEF JudgeTypeOK, Handed
  <1>3. JudgeTypeOK'
    BY <1>1 DEF JudgeTypeOK
  <1>4. Handed'
    BY <1>1 DEF Handed, Queued
  <1>5. Booked'
    BY <1>1, <1>2 DEF Booked, JudgeAssumption
  <1> QED
    BY <1>1, <1>3, <1>4, <1>5 DEF PoolInv

(* The evaluation ends when every test case has its result, or without any.*)
LEMMA EndedPool ==
    ASSUME JudgeAssumption, PoolInv, phase' = "finished", UNCHANGED <<pool, result, arrived>>,
           canary' = canary, judgement' \in Outcomes \cup {"COMPILATION_ERROR", "none"},
           phase = "tests" => \A k \in Case : result[k] # "none"
    PROVE  PoolInv'
  <1>1. active = {} /\ woken = {}
    BY DEF PoolInv, Handed, JudgeTypeOK
  <1> QED
    BY <1>1 DEF PoolInv, JudgeTypeOK, pool

LEMMA ConcludeJudges ==
    ASSUME JudgeAssumption, PoolInv, Conclude
    PROVE  judgement' \in Outcomes \cup {"COMPILATION_ERROR", "none"}
  <1>1. result \in [Case -> Outcomes \cup {"none"}] /\ \A k \in Case : result[k] # "none"
    BY DEF PoolInv, JudgeTypeOK, Conclude
  <1>2. CASE \E k \in Case : Failed(k)
    <2>1. PICK k \in Case : FirstFailed(k)
      BY <1>2, LeastFailure
    <2>2. (CHOOSE j \in Case : FirstFailed(j)) \in Case
      BY <2>1
    <2> QED
      BY <1>1, <1>2, <2>2 DEF Conclude
  <1>3. CASE ~\E k \in Case : Failed(k)
    BY <1>3 DEF Conclude, Outcomes, RunOutcomes
  <1> QED
    BY <1>2, <1>3

LEMMA PoolStep ==
    ASSUME JudgeAssumption, PoolInv, [JudgeNext]_judgeVars
    PROVE  PoolInv'
  <1>1. ASSUME NEW v \in {"SYSTEM_ERROR", "COMPILATION_ERROR"}, FirstRunFails(v)
        PROVE  PoolInv'
    BY <1>1, EndedPool DEF FirstRunFails, Outcomes
  <1>2. ASSUME NEW o \in RunOutcomes, FanOut(o)
        PROVE  PoolInv'
    BY <1>2, FanOutPool
  <1>3. ASSUME NEW k \in Case, NEW o \in Outcomes, TestCaseEnds(k, o)
        PROVE  PoolInv'
    BY <1>3, EndPool
  <1>4. ASSUME NEW k \in Case, Resume(k)
        PROVE  PoolInv'
    BY <1>4, ResumePool
  <1>5. CASE Conclude
    BY <1>5, EndedPool, ConcludeJudges DEF Conclude
  <1>6. CASE UNCHANGED judgeVars
    <2>1. JudgeTypeOK'
      BY <1>6 DEF judgeVars, pool, PoolInv, JudgeTypeOK
    <2>2. (Handed /\ Booked) => (Handed /\ Booked)'
      BY <1>6 DEF judgeVars, pool, Handed, Booked, Queued
    <2> QED
      BY <1>6, <2>1, <2>2 DEF judgeVars, pool, PoolInv
  <1> QED
    BY <1>1, <1>2, <1>3, <1>4, <1>5, <1>6 DEF JudgeNext

LEMMA PoolBooked == JudgeAssumption /\ PoolInv => PoolIsUsed
  <1> SUFFICES ASSUME JudgeAssumption, PoolInv, phase = "tests" PROVE PoolIsUsed
    BY DEF PoolIsUsed
  <1>0. Cases \in Nat \ {0} /\ Concurrency \in Nat \ {0}
    BY DEF JudgeAssumption
  <1>1. JudgeTypeOK /\ Handed /\ Booked
    BY DEF PoolInv
  <1>2. /\ IsFiniteSet(active) /\ IsFiniteSet(woken) /\ IsFiniteSet(active \cup woken)
        /\ IsFiniteSet(Left) /\ Cardinality(active) \in Nat /\ Cardinality(woken) \in Nat
        /\ Cardinality(active \cup woken) \in Nat /\ Cardinality(Left) \in Nat
    BY <1>1, CasesFinite DEF JudgeTypeOK, Left
  <1>3. Cardinality(active \cup woken) = Cardinality(active) + Cardinality(woken)
    <2>1. active \cap woken = {} /\ Cardinality(active \cap woken) = 0
      BY <1>1, FS_EmptySet DEF Handed
    <2>2. Cardinality(active \cup woken)
              = Cardinality(active) + Cardinality(woken) - Cardinality(active \cap woken)
      BY <1>2, FS_Union
    <2> QED
      BY <1>2, <2>1, <2>2
  <1>4. active \cup woken \subseteq Left
    <2>1. active \cup woken \subseteq Case
      BY <1>1 DEF JudgeTypeOK
    <2> QED
      BY <1>1, <2>1 DEF Handed, Left
  <1>5. Cardinality(active \cup woken) <= Cardinality(Left)
    BY <1>2, <1>4, FS_Subset
  <1>6. CASE waiting = <<>>
    <2>1. \A k \in Case : ~(k > Queued)
      BY <1>0, <1>6 DEF Queued, Case
    <2>2. Left \subseteq active \cup woken
      BY <1>1, <2>1 DEF Handed, Left
    <2>3. Cardinality(Left) = Cardinality(active) + Cardinality(woken)
      <3>1. Left = active \cup woken
        BY <1>4, <2>2
      <3> QED
        BY <1>3, <3>1
    <2> QED
      BY <1>0, <1>1, <1>2, <2>3 DEF Booked, PoolIsUsed
  <1>7. CASE waiting # <<>>
    BY <1>0, <1>1, <1>2, <1>3, <1>5, <1>7 DEF Booked, PoolIsUsed
  <1> QED
    BY <1>6, <1>7

\* Every variable of the evaluation keeps its type.
THEOREM JudgeTypes ==
    ASSUME JudgeAssumption
    PROVE  JudgeSpec => []JudgeTypeOK
  <1>1. JudgeInit => PoolInv
    BY PoolInit
  <1>2. PoolInv /\ [JudgeNext]_judgeVars => PoolInv'
    BY PoolStep
  <1>3. PoolInv => JudgeTypeOK
    BY DEF PoolInv
  <1> QED
    BY <1>1, <1>2, <1>3, PTL DEF JudgeSpec

\* With the tasks just woken, as many test cases run as the pool admits or as there are
\* left, for any number of test cases and any width of the pool (WorkerPool.add).
THEOREM JudgePoolIsUsed ==
    ASSUME JudgeAssumption
    PROVE  JudgeSpec => []PoolIsUsed
  <1>1. JudgeInit => PoolInv
    BY PoolInit
  <1>2. PoolInv /\ [JudgeNext]_judgeVars => PoolInv'
    BY PoolStep
  <1>3. PoolInv => PoolIsUsed
    BY PoolBooked
  <1> QED
    BY <1>1, <1>2, <1>3, PTL DEF JudgeSpec

LEMMA VerdictStep ==
    ASSUME JudgeAssumption, PoolInv, VerdictIsDeterministic, [JudgeNext]_judgeVars
    PROVE  VerdictIsDeterministic'
  <1>0. Cases \in Case /\ result \in [Case -> Outcomes \cup {"none"}]
    BY DEF JudgeAssumption, Case, PoolInv, JudgeTypeOK
  <1>1. CASE Conclude
    <2>1. UNCHANGED <<canary, result>> /\ \A k \in Case : result[k] # "none"
      BY <1>1 DEF Conclude
    <2>2. CASE \E k \in Case : Failed(k)
      <3>1. PICK k \in Case : k = CHOOSE j \in Case : FirstFailed(j)
        BY <2>2, LeastFailure
      <3>2. FirstFailed(k)
        BY <2>2, <3>1, LeastFailure
      <3>3. judgement' = result[k]
        BY <1>1, <2>2, <3>1 DEF Conclude
      <3> QED
        BY <2>1, <3>2, <3>3 DEF VerdictIsDeterministic, FirstFailed, Failed
    <2>3. CASE ~\E k \in Case : Failed(k)
      <3>1. judgement' = "ACCEPTED" /\ \A k \in Case : result'[k] = "ACCEPTED"
        BY <1>1, <2>1, <2>3 DEF Conclude, Failed
      <3>2. \A j \in 1..(Cases - 1) : j \in Case
        BY DEF JudgeAssumption, Case
      <3> QED
        BY <1>0, <3>1, <3>2 DEF VerdictIsDeterministic
    <2> QED
      BY <2>2, <2>3
  <1>2. CASE \E v \in {"SYSTEM_ERROR", "COMPILATION_ERROR"} : FirstRunFails(v)
    BY <1>2 DEF FirstRunFails, PoolInv, VerdictIsDeterministic
  <1>3. CASE \E o \in RunOutcomes : FanOut(o)
    BY <1>3 DEF FanOut, VerdictIsDeterministic
  <1>4. CASE \E k \in Case : (\E o \in Outcomes : TestCaseEnds(k, o)) \/ Resume(k)
    <2>1. phase = "tests" /\ phase' = phase
      BY <1>4 DEF TestCaseEnds, Resume, PoolInv
    <2> QED
      BY <2>1 DEF VerdictIsDeterministic
  <1>5. CASE UNCHANGED judgeVars
    BY <1>5 DEF judgeVars, VerdictIsDeterministic
  <1> QED
    BY <1>1, <1>2, <1>3, <1>4, <1>5 DEF JudgeNext

\* The verdict is that of the first test case that failed, in whatever order the results
\* came in, for any number of test cases (execute, "Deterministic verdict").
THEOREM JudgeVerdictIsDeterministic ==
    ASSUME JudgeAssumption
    PROVE  JudgeSpec => []VerdictIsDeterministic
  <1>1. JudgeInit => PoolInv /\ VerdictIsDeterministic
    BY PoolInit DEF JudgeInit, VerdictIsDeterministic
  <1>2. PoolInv /\ VerdictIsDeterministic /\ [JudgeNext]_judgeVars
            => (PoolInv /\ VerdictIsDeterministic)'
    BY PoolStep, VerdictStep
  <1> QED
    BY <1>1, <1>2, PTL DEF JudgeSpec
=============================================================================
