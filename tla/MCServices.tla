----------------------------- MODULE MCServices -----------------------------
(* The services that share no state with one another, side by side: in a    *)
(* behaviour one of them moves and the others stay as they are at the       *)
(* start, so that the states add up and do not multiply.                    *)
EXTENDS Submission, Rewards, SquadScore, Presence, Judge, TLC

CONSTANT Captain

VARIABLE moves      \* the service that moves

\* Players on a side are alike: Captain is in ALPHA, whoever else is.
Init ==
    /\ moves \in {"submission", "points", "score", "connections", "judge"}
    /\ SubmissionInit /\ PointInit /\ ScoreInit /\ ConnectionInit /\ JudgeInit
    /\ side[Captain] = "ALPHA"
    /\ moves # "score" => \A u \in Players : side[u] = "ALPHA"

Next ==
    \/ /\ moves = "submission" /\ SubmissionNext
       /\ UNCHANGED <<moves, pointVars, scoreVars, connectionVars, judgeVars>>
    \/ /\ moves = "points" /\ PointNext
       /\ UNCHANGED <<moves, submissionVars, scoreVars, connectionVars, judgeVars>>
    \/ /\ moves = "score" /\ ScoreNext
       /\ UNCHANGED <<moves, submissionVars, pointVars, connectionVars, judgeVars>>
    \/ /\ moves = "connections" /\ ConnectionNext
       /\ UNCHANGED <<moves, submissionVars, pointVars, scoreVars, judgeVars>>
    \/ /\ moves = "judge" /\ JudgeNext
       /\ UNCHANGED <<moves, submissionVars, pointVars, scoreVars, connectionVars>>

vars == <<moves, submissionVars, pointVars, scoreVars, connectionVars, judgeVars>>

Spec == Init /\ [][Next]_vars

\* Services that do not move are the same in every state, so a permutation may stand for
\* different things in each of them: the configuration lets services share model values.
Symmetric == Permutations(PointCalls) \cup Permutations(Problems)

-----------------------------------------------------------------------------
\* The types of the service that moves.
TypeOK ==
    /\ moves = "submission" => SubmissionTypeOK
    /\ moves = "points" => PointTypeOK
    /\ moves = "score" => ScoreTypeOK
    /\ moves = "connections" => ConnectionTypeOK
    /\ moves = "judge" => JudgeTypeOK

ASSUME ServicesAssumption ==
    /\ SubmissionAssumption /\ RewardAssumption /\ ScoreAssumption /\ JudgeAssumption
=============================================================================
