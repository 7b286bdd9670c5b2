----------------------------- MODULE BattleRoom -----------------------------
(***************************************************************************)
(* The lobby of one battle room as its handlers really run: every request  *)
(* is a chain of awaited statements against Postgres, and other requests   *)
(* run between any two of them.                                            *)
(*                                                                         *)
(* Prisma's interactive transactions use the default READ COMMITTED level: *)
(* a statement sees what other transactions have committed so far, no read *)
(* takes a lock, and a write shows when its transaction commits.  A        *)
(* statement that writes a participant row does lock that row until then.  *)
(* A request therefore carries what it read (status, heir, allReady, ...)  *)
(* from one action to the next and may act on it after it stopped being    *)
(* true.  A commit and the write just before it are one action.            *)
(***************************************************************************)
EXTENDS Integers, FiniteSets

CONSTANTS
    Users,      \* everyone who may enter the room
    NoUser,     \* null
    Sessions,   \* request handlers that can be in flight at once
    MaxPlayers, \* BattleRoom.maxPlayers
    MaxJoins    \* bound of the model: once this many joined, no join is asked for

ASSUME RoomAssumption ==
    /\ IsFiniteSet(Users)
    /\ NoUser \notin Users
    /\ IsFiniteSet(Sessions) /\ Sessions # {}
    /\ MaxPlayers \in Nat \ {0}
    /\ MaxJoins \in Nat

VARIABLES
    status,     \* BattleRoom.status
    host,       \* BattleRoom.hostId
    joinedAt,   \* BattleParticipant.joinedAt of each user, 0 for no row
    ready,      \* users whose participant row has isReady = true
    kicked,     \* Redis set room_kicked_players
    clock,      \* the latest joinedAt given out
    req         \* the request each session is serving

vars == <<status, host, joinedAt, ready, kicked, clock, req>>
room == <<status, host>>
rows == <<joinedAt, ready, clock>>

Statuses == {"WAITING", "READY", "RUNNING", "FINISHED", "CANCELLED"}
Open == {"WAITING", "READY"}

Participants == {u \in Users : joinedAt[u] # 0}

Unanimous(seated, agreed) ==
    /\ Cardinality(seated) >= 2
    /\ seated \subseteq agreed

-----------------------------------------------------------------------------
(* Requests                                                                *)

Joining == {"join", "joinChecked", "joinRead"}
Leaving == {"leave", "leaveRead", "leaveListed", "leaveMissed"}
Steps == {"idle", "pardon", "ban", "readyListed", "readyChecked",
          "start", "finish", "ranked"} \cup Joining \cup Leaving

Request == [pc : Steps,
            user : Users \cup {NoUser},     \* whose participant row it touches
            via : {"self", "host"},         \* asked by the user, or by the host for them
            status : Statuses,              \* room.status as read
            wasHost : BOOLEAN,              \* room.hostId === userId as read
            heir : Users \cup {NoUser},     \* remaining[0] as listed
            allReady : BOOLEAN,             \* as computed from the listed rows
            isReady : BOOLEAN,              \* the flag setPlayerReady is asked to write
            seats : SUBSET Users]           \* participants as read by finishBattle

Idle == [pc |-> "idle", user |-> NoUser, via |-> "self", status |-> "WAITING",
         wasHost |-> FALSE, heir |-> NoUser, allReady |-> FALSE, isReady |-> FALSE,
         seats |-> {}]

At(s, step) == req[s].pc = step
Done(s) == req' = [req EXCEPT ![s] = Idle]
Goto(s, step) == req' = [req EXCEPT ![s].pc = step]
Begin(s, r) == At(s, "idle") /\ req' = [req EXCEPT ![s] = r]

\* Another open transaction has written u's participant row.
RowLocked(u, s) ==
    \E t \in Sessions \ {s} :
        req[t].user = u /\ req[t].pc \in {"leaveListed", "readyListed", "readyChecked"}

-----------------------------------------------------------------------------
(* createRoom                                                              *)
Init ==
    /\ status = "WAITING"
    /\ host \in Users
    /\ joinedAt = [u \in Users |-> IF u = host THEN 1 ELSE 0]
    /\ ready = {host}
    /\ kicked = {}
    /\ clock = 1
    /\ req = [s \in Sessions |-> Idle]

-----------------------------------------------------------------------------
(* Joining: BattleController.joinRoom refuses a kicked user, the host's    *)
(* approve_join_request does not look at the kicked set and lifts the ban  *)
(* once the join went through.                                             *)

JoinRequest(s, u) ==
    /\ clock < MaxJoins
    /\ u \notin kicked
    /\ Begin(s, [Idle EXCEPT !.pc = "join", !.user = u])
    /\ UNCHANGED <<room, rows, kicked>>

ApproveRequest(s, u) ==
    /\ clock < MaxJoins
    /\ Begin(s, [Idle EXCEPT !.pc = "join", !.user = u, !.via = "host"])
    /\ UNCHANGED <<room, rows, kicked>>

\* Variant: a full room still has a seat.
HasSeat_offByOne == Cardinality(Participants) <= MaxPlayers

HasSeat == Cardinality(Participants) < MaxPlayers

\* BattleRoomService.joinRoom: who is inside already is let in as they are.  A
\* RUNNING room passes here and is refused by the repository.
JoinCheck(s) ==
    /\ At(s, "join")
    /\ req[s].user \notin Participants
    /\ status \in Open \cup {"RUNNING"}
    /\ HasSeat
    /\ Goto(s, "joinChecked")
    /\ UNCHANGED <<room, rows, kicked>>

JoinRefused(s) ==
    /\ At(s, "join")
    /\ req[s].user \notin Participants
    /\ ~(status \in Open \cup {"RUNNING"} /\ HasSeat)
    /\ Done(s)
    /\ UNCHANGED <<room, rows, kicked>>

\* The repository's own read inside the transaction.
JoinRead(s) ==
    /\ At(s, "joinChecked")
    /\ status \in Open
    /\ HasSeat
    /\ req[s].user \notin Participants
    /\ req' = [req EXCEPT ![s].pc = "joinRead", ![s].status = status]
    /\ UNCHANGED <<room, rows, kicked>>

JoinRejected(s) ==
    /\ At(s, "joinChecked")
    /\ ~(status \in Open /\ HasSeat)
    /\ Done(s)
    /\ UNCHANGED <<room, rows, kicked>>

\* After a join that went through or was not needed, an approval lifts the ban.
JoinDone(s) == IF req[s].via = "host" THEN Goto(s, "pardon") ELSE Done(s)

AlreadyJoined(s) ==
    /\ At(s, "join") \/ (At(s, "joinChecked") /\ status \in Open /\ HasSeat)
    /\ req[s].user \in Participants
    /\ JoinDone(s)
    /\ UNCHANGED <<room, rows, kicked>>

JoinCommit(s) ==
    LET u == req[s].user IN
    /\ At(s, "joinRead")
    /\ ~RowLocked(u, s)
    /\ u \notin Participants
    /\ joinedAt' = [joinedAt EXCEPT ![u] = clock + 1]
    /\ clock' = clock + 1
    /\ status' = IF req[s].status = "READY" THEN "WAITING" ELSE status
    /\ JoinDone(s)
    /\ UNCHANGED <<host, ready, kicked>>

\* The (roomId, userId) key already exists: the transaction rolls back.
JoinConflict(s) ==
    /\ At(s, "joinRead")
    /\ ~RowLocked(req[s].user, s)
    /\ req[s].user \in Participants
    /\ Done(s)
    /\ UNCHANGED <<room, rows, kicked>>

\* Variant: an approval leaves the ban in place.
Pardon_skipped(s) ==
    /\ At(s, "pardon")
    /\ Done(s)
    /\ UNCHANGED <<room, rows, kicked>>

Pardon(s) ==
    /\ At(s, "pardon")
    /\ kicked' = kicked \ {req[s].user}
    /\ Done(s)
    /\ UNCHANGED <<room, rows>>

-----------------------------------------------------------------------------
(* Leaving: by the user, by the lobby's disconnect timer, or by a kick.    *)

LeaveRequest(s, u) ==
    /\ Begin(s, [Idle EXCEPT !.pc = "leave", !.user = u])
    /\ UNCHANGED <<room, rows, kicked>>

KickRequest(s, u) ==
    /\ u # host
    /\ status \in Open
    /\ u \in Participants
    /\ Begin(s, [Idle EXCEPT !.pc = "leave", !.user = u, !.via = "host"])
    /\ UNCHANGED <<room, rows, kicked>>

LeaveRead(s) ==
    /\ At(s, "leave")
    /\ req' = [req EXCEPT ![s].pc = "leaveRead",
                          ![s].status = status,
                          ![s].wasHost = (host = req[s].user)]
    /\ UNCHANGED <<room, rows, kicked>>

\* deleteMany deletes and locks the leaver's row, if it is there; findMany then
\* lists who remains, oldest first.
LeaveList(s) ==
    LET u == req[s].user
        remaining == Participants \ {u} IN
    /\ At(s, "leaveRead")
    /\ ~RowLocked(u, s)
    /\ \E heir \in remaining \cup {NoUser} :
        /\ heir = NoUser <=> remaining = {}
        /\ \A v \in remaining : joinedAt[heir] <= joinedAt[v]
        /\ req' = [req EXCEPT ![s].pc = IF u \in Participants THEN "leaveListed"
                                                            ELSE "leaveMissed",
                              ![s].heir = heir,
                              ![s].allReady = Unanimous(remaining, ready)]
    /\ UNCHANGED <<room, rows, kicked>>

\* Variant: an empty room is not told from one that has an heir.
LeaveUpdate_noCancel(r) ==
    IF r.wasHost
    THEN /\ host' = r.heir
         /\ status' = IF r.status = "RUNNING" THEN "RUNNING"
                      ELSE IF r.allReady THEN "READY" ELSE "WAITING"
    ELSE /\ host' = host
         /\ status' = IF r.status = "READY" /\ ~r.allReady THEN "WAITING" ELSE status

\* Variant: a guest's departure does not withdraw READY.
LeaveUpdate_keepsReady(r) ==
    IF r.heir = NoUser
    THEN status' = "CANCELLED" /\ host' = host
    ELSE IF r.wasHost
    THEN /\ host' = r.heir
         /\ status' = IF r.status = "RUNNING" THEN "RUNNING"
                      ELSE IF r.allReady THEN "READY" ELSE "WAITING"
    ELSE host' = host /\ status' = status

\* What leaveRoom writes to the room, from what it read.
LeaveUpdate(r) ==
    IF r.heir = NoUser
    THEN status' = "CANCELLED" /\ host' = host
    ELSE IF r.wasHost
    THEN /\ host' = r.heir
         /\ status' = IF r.status = "RUNNING" THEN "RUNNING"
                      ELSE IF r.allReady THEN "READY" ELSE "WAITING"
    ELSE /\ host' = host
         /\ status' = IF r.status = "READY" /\ ~r.allReady THEN "WAITING" ELSE status

LeaveCommit(s) ==
    LET gone == IF At(s, "leaveListed") THEN {req[s].user} ELSE {} IN
    /\ At(s, "leaveListed") \/ At(s, "leaveMissed")
    /\ LeaveUpdate(req[s])
    /\ joinedAt' = [u \in Users |-> IF u \in gone THEN 0 ELSE joinedAt[u]]
    /\ ready' = ready \ gone
    /\ IF req[s].via = "host" THEN Goto(s, "ban") ELSE Done(s)
    /\ UNCHANGED <<clock, kicked>>

\* kickPlayer is over: the controller bans the user from coming back alone.
Ban(s) ==
    /\ At(s, "ban")
    /\ kicked' = kicked \cup {req[s].user}
    /\ Done(s)
    /\ UNCHANGED <<room, rows>>

\* The kicked set has a time to live of one day, renewed by every kick.
BanExpires ==
    /\ kicked # {}
    /\ kicked' = {}
    /\ UNCHANGED <<room, rows, req>>

-----------------------------------------------------------------------------
(* setPlayerReady                                                          *)

\* The transaction's listing sees its own update of the flag; others see it only
\* after the commit.
ReadyRequest(s, u, isReady) ==
    LET agreed == IF isReady THEN ready \cup {u} ELSE ready \ {u} IN
    /\ u \in Participants
    /\ ~RowLocked(u, s)
    /\ Begin(s, [Idle EXCEPT !.pc = "readyListed", !.user = u,
                             !.isReady = isReady,
                             !.allReady = Unanimous(Participants, agreed)])
    /\ UNCHANGED <<room, rows, kicked>>

ReadyRead(s) ==
    /\ At(s, "readyListed")
    /\ req' = [req EXCEPT ![s].pc = "readyChecked", ![s].status = status]
    /\ UNCHANGED <<room, rows, kicked>>

\* Variant: taking readiness back does not withdraw READY.
ReadyUpdate_oneWay(r) ==
    status' = IF r.status = "WAITING" /\ r.allReady THEN "READY" ELSE status

\* Auto-transition WAITING <-> READY, from what was read.
ReadyUpdate(r) ==
    status' = CASE r.status = "WAITING" /\ r.allReady -> "READY"
                [] r.status = "READY" /\ ~r.allReady -> "WAITING"
                [] OTHER -> status

ReadyCommit(s) ==
    LET u == req[s].user IN
    /\ At(s, "readyChecked")
    /\ ReadyUpdate(req[s])
    /\ ready' = IF req[s].isReady THEN ready \cup {u} ELSE ready \ {u}
    /\ Done(s)
    /\ UNCHANGED <<host, joinedAt, clock, kicked>>

-----------------------------------------------------------------------------
(* Starting and finishing                                                  *)

\* start_room_battle passes the room's own hostId, so the host check holds.
StartRequest(s) ==
    /\ Cardinality(Participants) >= 2
    /\ Begin(s, [Idle EXCEPT !.pc = "start"])
    /\ UNCHANGED <<room, rows, kicked>>

StartCommit(s) ==
    /\ At(s, "start")
    /\ status' = "RUNNING"
    /\ Done(s)
    /\ UNCHANGED <<host, rows, kicked>>

FinishRequest(s) ==
    /\ Begin(s, [Idle EXCEPT !.pc = "finish", !.seats = Participants])
    /\ UNCHANGED <<room, rows, kicked>>

\* updateParticipantRank for everybody read; a row that is gone throws and the
\* room is left as it is.
FinishRank(s) ==
    /\ At(s, "finish")
    /\ IF req[s].seats \subseteq Participants THEN Goto(s, "ranked") ELSE Done(s)
    /\ UNCHANGED <<room, rows, kicked>>

FinishCommit(s) ==
    /\ At(s, "ranked")
    /\ status' = "FINISHED"
    /\ Done(s)
    /\ UNCHANGED <<host, rows, kicked>>

-----------------------------------------------------------------------------

Arrive(s) ==
    \E u \in Users :
        \/ JoinRequest(s, u)
        \/ ApproveRequest(s, u)
        \/ LeaveRequest(s, u)
        \/ KickRequest(s, u)
        \/ \E isReady \in BOOLEAN : ReadyRequest(s, u, isReady)

\* The next awaited statement of a request already being served.
Continue(s) ==
    \/ JoinCheck(s) \/ JoinRefused(s) \/ JoinRead(s) \/ JoinRejected(s)
    \/ AlreadyJoined(s)
    \/ JoinCommit(s) \/ JoinConflict(s) \/ Pardon(s)
    \/ LeaveRead(s) \/ LeaveList(s) \/ LeaveCommit(s) \/ Ban(s)
    \/ ReadyRead(s) \/ ReadyCommit(s)
    \/ StartCommit(s)
    \/ FinishRank(s) \/ FinishCommit(s)

Next ==
    \/ \E s \in Sessions :
           Arrive(s) \/ StartRequest(s) \/ FinishRequest(s) \/ Continue(s)
    \/ BanExpires

Spec == Init /\ [][Next]_vars

-----------------------------------------------------------------------------
TypeOK ==
    /\ status \in Statuses
    /\ host \in Users
    /\ joinedAt \in [Users -> Nat]
    /\ ready \in SUBSET Users
    /\ kicked \in SUBSET Users
    /\ clock \in Nat
    /\ req \in [Sessions -> Request]

Joiners == {s \in Sessions : At(s, "joinRead")}

(* joinRoom checks the capacity and inserts in two statements.  Who has    *)
(* passed the last check may still be seated: with them counted, the       *)
(* requests in flight promise at most as many seats too many as there are  *)
(* requests beside the first one ...                                       *)
SeatsPromised ==
    Cardinality(Participants) + Cardinality(Joiners)
        <= MaxPlayers - 1 + Cardinality(Sessions)

(* ... so that the room is never overfilled by more.                       *)
OverfillBounded ==
    Cardinality(Participants) <= MaxPlayers - 1 + Cardinality(Sessions)

(* The room's lifecycle as the changelog draws it ends in FINISHED: a      *)
(* finished battle is never opened again.  Yet a host who leaves the       *)
(* finished room recomputes its lobby status, and startBattle looks at no  *)
(* status at all.                                                          *)
FinishedIsNotReopened ==
    [][status = "FINISHED" => status' \in {"FINISHED", "CANCELLED"}]_vars
=============================================================================
