------------------------------ MODULE Presence ------------------------------
(***************************************************************************)
(* One player's connections to the websocket server, around one battle:     *)
(* which of the player's sockets the server takes to be in the room, and    *)
(* the timers that remove a player from the lobby, or forfeit the battle    *)
(* for one, who has not come back.                                          *)
(*                                                                         *)
(* A session names the room as its client did: the lobby and the listener   *)
(* of active events join by the room's code, the battle page by its id.     *)
(* The battle's document is stored under the id alone.                      *)
(*                                                                         *)
(* A socket handler runs up to its next await without interruption.  What   *)
(* closing, authenticating and an expired timer do after one is a step of   *)
(* its own; leave_battle and readmit_player are one step, at their write of *)
(* the document.  The server keeps running: its timers live in memory.      *)
(***************************************************************************)
EXTENDS Naturals

CONSTANTS
    Sockets,    \* tabs and reconnections
    NoSocket

VARIABLES
    battle,         \* the room and its document: "LOBBY" is a room that waits, "STARTING" one
                    \* that has started and "GONE" one that is over, all without a document
    standing,       \* whether the player is still in the room, or in the battle
    sock,           \* readyState of each socket
    authing,        \* sockets with an auth message being handled
    registered,     \* connectionManager.userSockets of the player
    byCode, byId,   \* open sockets whose session has the room's code, or id, as roomId
    leavingByCode, leavingById, \* sockets with handleDisconnect awaiting the document
    lobbyTimers,    \* the lobby keys in disconnectTimeouts
    timers, entry,  \* forfeit timers, by the socket that closed, and the one in the map
    expiring,       \* forfeit callbacks awaiting the document
    came,           \* history: a session had the id while the battle was running
    excused         \* history: the last such session ended without its socket closing, or
                    \* the timer was cancelled or came to nothing while there was none

sessions == <<sock, authing, registered, byCode, byId>>
leaving == <<leavingByCode, leavingById>>
forfeits == <<timers, entry, expiring>>
connectionVars ==
    <<battle, standing, sessions, leaving, lobbyTimers, forfeits, came, excused>>

Keys == {"code", "id"}

ConnectionTypeOK ==
    /\ battle \in {"LOBBY", "STARTING", "RUNNING", "FINISHED", "GONE"}
    /\ standing \in {"in", "out"}
    /\ sock \in [Sockets -> {"new", "open", "closed"}]
    /\ authing \subseteq Sockets /\ registered \in Sockets \cup {NoSocket}
    /\ byCode \cup byId \subseteq {s \in Sockets : sock[s] = "open"}
    /\ byCode \cap byId = {}
    /\ leavingByCode \subseteq Sockets /\ leavingById \subseteq Sockets
    /\ lobbyTimers \subseteq Keys
    /\ timers \subseteq Sockets /\ entry \in Sockets \cup {NoSocket}
    /\ expiring \subseteq Sockets
    /\ came \in BOOLEAN /\ excused \in BOOLEAN

ConnectionInit ==
    /\ battle = "LOBBY" /\ standing = "in"
    /\ sock = [s \in Sockets |-> "new"]
    /\ authing = {} /\ registered = NoSocket
    /\ byCode = {} /\ byId = {}
    /\ leavingByCode = {} /\ leavingById = {}
    /\ lobbyTimers = {}
    /\ timers = {} /\ entry = NoSocket /\ expiring = {}
    /\ came = FALSE /\ excused = FALSE

IsOpen(s) == s # NoSocket /\ sock[s] = "open"

\* isUserConnected: only the socket registered last counts.
Connected == IsOpen(registered)

HasDocument == battle \in {"RUNNING", "FINISHED"}

-----------------------------------------------------------------------------
(* Messages of a socket                                                    *)

Open(s) ==
    /\ sock[s] = "new"
    /\ sock' = [sock EXCEPT ![s] = "open"]
    /\ UNCHANGED <<battle, standing, authing, registered, byCode, byId, leaving, lobbyTimers,
                   forfeits, came, excused>>

\* The client authenticates on connecting, and again whenever a component connects.
Auth(s) ==
    /\ IsOpen(s)
    /\ authing' = authing \cup {s}
    /\ UNCHANGED <<battle, standing, sock, registered, byCode, byId, leaving, lobbyTimers,
                   forfeits, came, excused>>

\* The session names no room any more.
Forgets(s) ==
    /\ byCode' = byCode \ {s}
    /\ byId' = byId \ {s}
    /\ excused' = (excused \/ byId = {s})

\* The token has been verified and the user loaded: the socket is registered, and its
\* session is replaced by one without a roomId.
Authenticated(s) ==
    /\ s \in authing
    /\ authing' = authing \ {s}
    /\ registered' = s
    /\ Forgets(s)
    /\ UNCHANGED <<battle, standing, sock, leaving, lobbyTimers, forfeits, came>>

\* join_room_channel, up to its first await: the lobby timer is cleared under the key the
\* message names, the forfeit timer whatever the key.
JoinRoomChannel(s, key) ==
    /\ IsOpen(s)
    /\ lobbyTimers' = lobbyTimers \ {key}
    /\ timers' = timers \ {entry}
    /\ entry' = NoSocket
    /\ byCode' = IF key = "code" THEN byCode \cup {s} ELSE byCode \ {s}
    /\ byId' = IF key = "id" THEN byId \cup {s} ELSE byId \ {s}
    /\ came' = (came \/ (key = "id" /\ battle = "RUNNING"))
    /\ excused' = (key = "code" /\ (excused \/ byId \subseteq {s}))
    /\ UNCHANGED <<battle, standing, sock, authing, registered, leaving, expiring>>

\* leave_battle: the player is marked in the document the message names, if there is one,
\* and the battle may be over; the session forgets the room in any case.
LeaveBattle(s, key) ==
    /\ IsOpen(s)
    /\ Forgets(s)
    /\ IF key = "id" /\ HasDocument
       THEN standing' = "out" /\ battle' \in {battle, "FINISHED", "GONE"}
       ELSE UNCHANGED <<standing, battle>>
    /\ UNCHANGED <<sock, authing, registered, leaving, lobbyTimers, forfeits, came>>

-----------------------------------------------------------------------------
(* handleDisconnect and the timers it sets                                 *)

Close(s) ==
    /\ IsOpen(s)
    /\ sock' = [sock EXCEPT ![s] = "closed"]
    /\ registered' = IF registered = s THEN NoSocket ELSE registered
    /\ byCode' = byCode \ {s}
    /\ byId' = byId \ {s}
    /\ leavingByCode' = leavingByCode \cup (byCode \cap {s})
    /\ leavingById' = leavingById \cup (byId \cap {s})
    /\ UNCHANGED <<battle, standing, authing, lobbyTimers, forfeits, came, excused>>

\* Without a document the room is taken for a lobby: a timer is set, unless one is there
\* under the same key or the player is still connected.
WatchLobby(key) == lobbyTimers' = IF Connected THEN lobbyTimers ELSE lobbyTimers \cup {key}

\* There is never a document under the code, not even in the middle of the battle; the read
\* may also fail.
DisconnectByCode(s) ==
    /\ s \in leavingByCode
    /\ leavingByCode' = leavingByCode \ {s}
    /\ WatchLobby("code") \/ UNCHANGED lobbyTimers
    /\ UNCHANGED <<battle, standing, sessions, leavingById, forfeits, came, excused>>

\* Variant: no timer while the player is connected, as in the lobby.
Watch_absent(s) ==
    IF Connected THEN UNCHANGED <<timers, entry>>
    ELSE timers' = timers \cup {s} /\ entry' = s

\* Whoever else is connected, a timer is set; it takes the place of an earlier one in
\* the map, which keeps running.
Watch(s) == timers' = timers \cup {s} /\ entry' = s

DisconnectInBattle(s) ==
    /\ s \in leavingById
    /\ battle = "RUNNING"
    /\ leavingById' = leavingById \ {s}
    /\ Watch(s)
    /\ UNCHANGED <<battle, standing, sessions, leavingByCode, lobbyTimers, expiring, came,
                   excused>>

DisconnectElsewhere(s) ==
    /\ s \in leavingById
    /\ battle # "RUNNING"
    /\ leavingById' = leavingById \ {s}
    /\ IF HasDocument THEN UNCHANGED lobbyTimers ELSE WatchLobby("id")
    /\ UNCHANGED <<battle, standing, sessions, leavingByCode, forfeits, came, excused>>

\* After 15 seconds; leaveRoom, BattleRoom's concern, may fail.
LobbyTimeout(key) ==
    /\ key \in lobbyTimers
    /\ lobbyTimers' = lobbyTimers \ {key}
    /\ standing' \in IF battle = "LOBBY" THEN {standing, "out"} ELSE {standing}
    /\ UNCHANGED <<battle, sessions, leaving, forfeits, came, excused>>

\* After 60 seconds the callback deletes the entry, its own or not ...
ForfeitTimeout(s) ==
    /\ s \in timers
    /\ timers' = timers \ {s}
    /\ entry' = NoSocket
    /\ expiring' = expiring \cup {s}
    /\ UNCHANGED <<battle, standing, sessions, leaving, lobbyTimers, came, excused>>

\* ... and, in a battle that is still running, has the player forfeit; the battle ends if
\* one player is left.  finishBattle is LiveBattle's.
Forfeit(s) ==
    /\ s \in expiring
    /\ expiring' = expiring \ {s}
    /\ IF battle = "RUNNING"
       THEN battle' \in {"RUNNING", "FINISHED", "GONE"} /\ standing' = "out"
       ELSE UNCHANGED <<battle, standing>>
    /\ UNCHANGED <<sessions, leaving, lobbyTimers, timers, entry, came, excused>>

\* The document cannot be read, or the battle not be ended: nobody tries again.
WatchFails(s) ==
    /\ s \in leavingById \cup expiring
    /\ leavingById' = leavingById \ {s}
    /\ expiring' = expiring \ {s}
    /\ excused' = (excused \/ byId = {})
    /\ UNCHANGED <<battle, standing, sessions, leavingByCode, lobbyTimers, timers, entry, came>>

-----------------------------------------------------------------------------
(* The battle, as the connections see it                                   *)

\* The room's status moves first, whoever starts it.
RoomStarts ==
    /\ battle = "LOBBY" /\ standing = "in"
    /\ battle' = "STARTING"
    /\ UNCHANGED <<standing, sessions, leaving, lobbyTimers, forfeits, came, excused>>

\* The document of the battle; the sessions stay as they are.
BattleStarts ==
    /\ battle = "STARTING"
    /\ battle' = "RUNNING"
    /\ came' = (byId # {})
    /\ excused' = FALSE
    /\ UNCHANGED <<standing, sessions, leaving, lobbyTimers, forfeits>>

\* dispatchMatch before the document, accept_challenge after it and the other servers at
\* any time: the session of the registered socket gets the id.
DispatchMatch ==
    /\ battle \in {"STARTING", "RUNNING"}
    /\ IsOpen(registered)
    /\ byId' = byId \cup {registered}
    /\ byCode' = byCode \ {registered}
    /\ came' = (came \/ battle = "RUNNING")
    /\ excused' = FALSE
    /\ UNCHANGED <<battle, standing, sock, authing, registered, leaving, lobbyTimers, forfeits>>

\* readmit_player: the host takes the player back, present or not, and cancels the timer.
Readmit ==
    /\ HasDocument
    /\ standing' = "in"
    /\ timers' = timers \ {entry}
    /\ entry' = NoSocket
    /\ excused' = (excused \/ byId = {})
    /\ UNCHANGED <<battle, sessions, leaving, lobbyTimers, expiring, came>>

\* However it ends; the document is kept for a while, or evicted.
BattleEnds ==
    /\ HasDocument
    /\ battle' \in {"FINISHED", "GONE"}
    /\ UNCHANGED <<standing, sessions, leaving, lobbyTimers, forfeits, came, excused>>

ConnectionNext ==
    \/ \E s \in Sockets :
        \/ Open(s) \/ Auth(s) \/ Authenticated(s) \/ Close(s)
        \/ \E key \in Keys : JoinRoomChannel(s, key) \/ LeaveBattle(s, key)
        \/ DisconnectByCode(s) \/ DisconnectInBattle(s) \/ DisconnectElsewhere(s)
        \/ ForfeitTimeout(s) \/ Forfeit(s) \/ WatchFails(s)
    \/ \E key \in Keys : LobbyTimeout(key)
    \/ RoomStarts \/ BattleStarts \/ DispatchMatch \/ Readmit \/ BattleEnds

ConnectionSpec == ConnectionInit /\ [][ConnectionNext]_connectionVars

-----------------------------------------------------------------------------
\* A player whose sockets on the battle page have all closed while it runs is on the way to
\* forfeit: the closing of one of them is being handled, or its timer runs, whatever timers
\* other sockets have set and cleared (handleDisconnect, join_room_channel).  Nobody watches
\* who has never had a session with the room's id, and the last of those must have ended by
\* its socket closing; a message that joins by the code, a readmission and a failing read
\* may each call the watch off.
AbsentIsWatched ==
    (battle = "RUNNING" /\ standing = "in" /\ came /\ byId = {} /\ ~excused)
    => leavingById \cup timers \cup expiring # {}

\* The client announces that who lost the connection has "60 seconds to reconnect before
\* forfeiting": when the time is up, the player is not back in the battle.
ReconnectedInTime == [][\A s \in expiring' \ expiring : byId = {}]_connectionVars
=============================================================================
