----------------------------- MODULE SquadScore -----------------------------
(***************************************************************************)
(* Scoring in a squad battle: processEvaluationResult for accepted          *)
(* solutions of team members.  A call works on the copy of the battle       *)
(* document it read at first and writes it back whole; which call may       *)
(* credit a team is decided by a lock in Redis for each team and problem.   *)
(***************************************************************************)
EXTENDS Integers, Sequences, FiniteSets

CONSTANTS
    Players,
    Problems,       \* whatever can be submitted: nothing asks whether it is the room's
    SquadQuestions, \* totalQuestions of the battle document
    ScoreCalls,     \* calls that can be in flight at once
    MaxScoreFaults  \* bound of the model: calls that die, inserts that fail

\* What the proofs assume of the constants.
ScoreAssumption ==
    /\ IsFiniteSet(Problems) /\ Problems # {}
    /\ SquadQuestions \in Nat /\ MaxScoreFaults \in Nat

Teams == {"ALPHA", "BETA"}

VARIABLES
    side,           \* each player's team, fixed when the battle starts, or "NONE"
    doc,            \* battle_state in Redis: solvedProblemIds and solvedProblems
    lock,           \* squad_score_lock: problems claimed by each team
    rows,           \* TeamProblemScore rows
    scoreCall,      \* the calls in flight
    finished,       \* ALL_SQUAD_PROBLEMS_SOLVED has been announced
    scoreFaults,
    disturbed       \* history: a document was written under a call in flight, or a call died

scoreVars == <<side, doc, lock, rows, scoreCall, finished, scoreFaults, disturbed>>

Document == [ids : [Teams -> Seq(Problems)], solved : [Players -> SUBSET Problems]]
Fresh == [ids |-> [s \in Teams |-> <<>>], solved |-> [u \in Players |-> {}]]

\* copy is the document as read and changed.
ScoreRequest ==
    [pc : {"claim", "record", "write"}, by : Players, of : Problems, copy : Document]
ScoreIdle == [pc |-> "idle"]

ScoreTypeOK ==
    /\ side \in [Players -> Teams \cup {"NONE"}]
    /\ doc \in Document
    /\ lock \in [Teams -> SUBSET Problems]
    /\ rows \in [Teams -> SUBSET Problems]
    /\ scoreCall \in [ScoreCalls -> ScoreRequest \cup {ScoreIdle}]
    /\ finished \in BOOLEAN
    /\ scoreFaults \in 0..MaxScoreFaults
    /\ disturbed \in BOOLEAN

ScoreInit ==
    /\ side \in [Players -> Teams \cup {"NONE"}]
    /\ doc = Fresh
    /\ lock = [s \in Teams |-> {}] /\ rows = [s \in Teams |-> {}]
    /\ scoreCall = [c \in ScoreCalls |-> ScoreIdle]
    /\ finished = FALSE
    /\ scoreFaults = 0 /\ disturbed = FALSE

ScoreMisfortune == scoreFaults < MaxScoreFaults /\ scoreFaults' = scoreFaults + 1

ScoreAt(c, step) == scoreCall[c].pc = step
Team(c) == side[scoreCall[c].by]

\* A solution has been accepted: the document is read, and looked up for an earlier one.
Accept(c, u, p) ==
    /\ ScoreAt(c, "idle")
    /\ p \notin doc.solved[u]
    /\ scoreCall' = [scoreCall EXCEPT ![c] = [pc |-> "claim", by |-> u, of |-> p, copy |-> doc]]
    /\ UNCHANGED <<side, doc, lock, rows, finished, scoreFaults, disturbed>>

\* Variant: the claim only looks whether this player has solved the problem before.
Claimed_player(c) == scoreCall[c].of \notin scoreCall[c].copy.solved[scoreCall[c].by]

\* SET NX, for who has a team.
Claimed(c) == scoreCall[c].of \notin lock[Team(c)]

\* Either way the player is credited, in the copy.
Solved(c) == [scoreCall[c].copy EXCEPT !.solved[scoreCall[c].by] = @ \cup {scoreCall[c].of}]

\* Variant: the team's own score is left as it was.
Credited_player(c) == Solved(c)

Credited(c) == [Solved(c) EXCEPT !.ids[Team(c)] = Append(@, scoreCall[c].of)]

ClaimScore(c) ==
    /\ ScoreAt(c, "claim")
    /\ Team(c) \in Teams /\ Claimed(c)
    /\ lock' = [lock EXCEPT ![Team(c)] = @ \cup {scoreCall[c].of}]
    /\ scoreCall' = [scoreCall EXCEPT ![c].pc = "record", ![c].copy = Credited(c)]
    /\ UNCHANGED <<side, doc, rows, finished, scoreFaults, disturbed>>

\* The team has scored already, or the player has none.
PlayerScores(c) ==
    /\ ScoreAt(c, "claim")
    /\ Team(c) \in Teams => ~Claimed(c)
    /\ scoreCall' = [scoreCall EXCEPT ![c].pc = "write", ![c].copy = Solved(c)]
    /\ UNCHANGED <<side, doc, lock, rows, finished, scoreFaults, disturbed>>

RecordScore(c) ==
    /\ ScoreAt(c, "record")
    /\ rows' = [rows EXCEPT ![Team(c)] = @ \cup {scoreCall[c].of}]
    /\ scoreCall' = [scoreCall EXCEPT ![c].pc = "write"]
    /\ UNCHANGED <<side, doc, lock, finished, scoreFaults, disturbed>>

\* An error of the insert is ignored.
RecordFails(c) ==
    /\ ScoreAt(c, "record")
    /\ ScoreMisfortune
    /\ scoreCall' = [scoreCall EXCEPT ![c].pc = "write"]
    /\ UNCHANGED <<side, doc, lock, rows, finished, disturbed>>

\* Variant: the battle ends with the first team that is through.
AllSolved_anyTeam(d) == \E s \in Teams : Len(d.ids[s]) >= SquadQuestions

AllSolved(d) == \A s \in Teams : Len(d.ids[s]) >= SquadQuestions

WriteBack(c) ==
    /\ ScoreAt(c, "write")
    /\ doc' = scoreCall[c].copy
    /\ disturbed' = (disturbed \/ \E x \in ScoreCalls \ {c} : ~ScoreAt(x, "idle"))
    /\ finished' = (finished \/ AllSolved(scoreCall[c].copy))
    /\ scoreCall' = [scoreCall EXCEPT ![c] = ScoreIdle]
    /\ UNCHANGED <<side, lock, rows, scoreFaults>>

Die(c) ==
    /\ ~ScoreAt(c, "idle")
    /\ ScoreMisfortune
    /\ disturbed' = TRUE
    /\ scoreCall' = [scoreCall EXCEPT ![c] = ScoreIdle]
    /\ UNCHANGED <<side, doc, lock, rows, finished>>

ScoreNext ==
    \E c \in ScoreCalls :
        \/ \E u \in Players, p \in Problems : Accept(c, u, p)
        \/ ClaimScore(c) \/ PlayerScores(c) \/ RecordScore(c) \/ RecordFails(c)
        \/ WriteBack(c) \/ Die(c)

ScoreSpec == ScoreInit /\ [][ScoreNext]_scoreVars

-----------------------------------------------------------------------------
\* A team is credited with a problem at most once, whichever of its members solve it and
\* however their stale documents overwrite each other (the lock of processEvaluationResult).
Once(ids) == \A i, j \in DOMAIN ids : ids[i] = ids[j] => i = j
TeamCreditedOnce == \A s \in Teams : Once(doc.ids[s])

\* The end of the battle, decided by counting the entries of a stale copy, is announced
\* only when each team has really claimed as many problems as the battle has.
FinishEarned == finished => \A s \in Teams : Cardinality(lock[s]) >= SquadQuestions

\* As long as calls neither overlap a write nor die, what a team has claimed is in
\* its score, or is about to be; and the ledger rows say no more than that.
Claimants(s, p) ==
    {c \in ScoreCalls :
        scoreCall[c].pc \in {"record", "write"} /\ Team(c) = s /\ scoreCall[c].of = p}
ClaimIsCredited ==
    /\ \A s \in Teams : rows[s] \subseteq lock[s]
    /\ \/ disturbed
       \/ \A s \in Teams : \A p \in lock[s] :
            (\E i \in DOMAIN doc.ids[s] : doc.ids[s][i] = p) \/ Claimants(s, p) # {}
=============================================================================
