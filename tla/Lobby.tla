------------------------------- MODULE Lobby -------------------------------
(***************************************************************************)
(* What a battle room promises when its operations run one at a time: the  *)
(* room record (status, host) and its participant rows, with one atomic    *)
(* action per repository call.  BattleRoom splits every call into the      *)
(* statements Postgres really runs and is checked to implement this module *)
(* as long as calls do not overlap.                                        *)
(***************************************************************************)
EXTENDS Integers, FiniteSets

CONSTANTS
    Users,      \* everyone who may enter the room
    MaxPlayers  \* BattleRoom.maxPlayers

\* What the proofs assume of the constants.
LobbyAssumption ==
    /\ IsFiniteSet(Users)
    /\ MaxPlayers \in Nat \ {0}

VARIABLES
    status,     \* BattleRoom.status
    host,       \* BattleRoom.hostId
    players,    \* users with a BattleParticipant row
    ready       \* participants with isReady = true

vars == <<status, host, players, ready>>

Statuses == {"WAITING", "READY", "RUNNING", "FINISHED", "CANCELLED"}

TypeOK ==
    /\ status \in Statuses
    /\ host \in Users
    /\ players \in SUBSET Users
    /\ ready \in SUBSET players

\* At least two participants, all of them ready.
Unanimous(seated, agreed) ==
    /\ Cardinality(seated) >= 2
    /\ seated \subseteq agreed

\* createRoom: the host is the first participant and is ready by default.
Init ==
    /\ status = "WAITING"
    /\ host \in Users
    /\ players = {host}
    /\ ready = {host}

Join(u) ==
    /\ status \in {"WAITING", "READY"}
    /\ u \notin players
    /\ Cardinality(players) < MaxPlayers
    /\ players' = players \cup {u}
    /\ status' = "WAITING"
    /\ UNCHANGED <<host, ready>>

\* The last participant to leave cancels the room.
LeaveLast(u) ==
    /\ players \ {u} = {}
    /\ status' = "CANCELLED"
    /\ UNCHANGED host

\* A leaving host hands the room to somebody who stays.
LeaveHost(u) ==
    /\ players \ {u} # {}
    /\ u = host
    /\ host' \in players \ {u}
    /\ status' = IF status = "RUNNING" THEN "RUNNING"
                 ELSE IF Unanimous(players \ {u}, ready) THEN "READY" ELSE "WAITING"

LeaveGuest(u) ==
    /\ players \ {u} # {}
    /\ u # host
    /\ status' = IF status = "READY" /\ ~Unanimous(players \ {u}, ready)
                 THEN "WAITING" ELSE status
    /\ UNCHANGED host

Leave(u) ==
    /\ LeaveLast(u) \/ LeaveHost(u) \/ LeaveGuest(u)
    /\ players' = players \ {u}
    /\ ready' = ready \ {u}

SetReady(u, isReady) ==
    /\ u \in players
    /\ ready' = IF isReady THEN ready \cup {u} ELSE ready \ {u}
    /\ status' = CASE status = "WAITING" /\ Unanimous(players, ready') -> "READY"
                   [] status = "READY" /\ ~Unanimous(players, ready') -> "WAITING"
                   [] OTHER -> status
    /\ UNCHANGED <<host, players>>

Start ==
    /\ Cardinality(players) >= 2
    /\ status' = "RUNNING"
    /\ UNCHANGED <<host, players, ready>>

Finish ==
    /\ status' = "FINISHED"
    /\ UNCHANGED <<host, players, ready>>

Next ==
    \/ \E u \in Users : Join(u) \/ Leave(u)
    \/ \E u \in Users, isReady \in BOOLEAN : SetReady(u, isReady)
    \/ Start
    \/ Finish

Spec == Init /\ [][Next]_vars

-----------------------------------------------------------------------------
(* READY is shown to players as "everyone agreed": it must mean so.        *)
ReadyIsUnanimous == status = "READY" => Unanimous(players, ready)

(* Only the host can start or kick: an occupied room needs a host inside.  *)
HostIsSeated == players # {} => host \in players

(* An abandoned room is closed, and a cancelled one is really empty.       *)
EmptyIsClosed ==
    /\ players = {} => status \in {"CANCELLED", "FINISHED"}
    /\ status = "CANCELLED" => players = {}

WithinCapacity == Cardinality(players) <= MaxPlayers

(* The lobby invariant: the four facts a client of the room relies on      *)
(* between two operations.                                                 *)
LobbyInv ==
    /\ ReadyIsUnanimous
    /\ HostIsSeated
    /\ EmptyIsClosed
    /\ WithinCapacity
=============================================================================
