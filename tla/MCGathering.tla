----------------------------- MODULE MCGathering -----------------------------
(* The two ways into a battle that share no state, side by side: the 1v1    *)
(* queue and the lobby of a squad.  In a behaviour one of them moves and    *)
(* the other stays as it is at the start, so that the states add up and do  *)
(* not multiply.                                                           *)
EXTENDS Matchmaking, Squad, TLC

VARIABLE moves      \* the queue or the lobby

GatheringInit ==
    /\ moves \in {"queue", "squad"}
    /\ Init /\ SquadInit
    /\ moves = "squad" => isRedisReady

GatheringNext ==
    \/ moves = "queue" /\ Next /\ UNCHANGED <<moves, squadVars>>
    \/ moves = "squad" /\ SquadNext /\ UNCHANGED <<moves, vars>>

GatheringVars == <<moves, vars, squadVars>>

GatheringSpec == GatheringInit /\ [][GatheringNext]_GatheringVars

\* Users, members and calls are only ever compared.  The part that does not move is the
\* same in every state, so the configuration may let the two share model values.
Symmetric == Permutations(Users) \cup Permutations(SquadCalls)

-----------------------------------------------------------------------------
\* The types of the part that moves.
GatheringTypeOK ==
    /\ moves = "queue" => TypeOK
    /\ moves = "squad" => SquadTypeOK

ASSUME GatheringAssumption == SquadAssumption
=============================================================================
