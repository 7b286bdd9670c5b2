------------------------------- MODULE Squad -------------------------------
(***************************************************************************)
(* The lobby of a squad battle: two teams of SquadSize, a captain each, and *)
(* a countdown that starts the battle once both captains have approved the *)
(* same roster of full teams.                                              *)
(*                                                                         *)
(* Every call reads the room once and writes later, so each is split at    *)
(* its awaits.  What the room repository does for any room (entering,      *)
(* leaving, the ready flags, the host's start) is one step here, and       *)
(* LateWrite is what its overlapping transactions add: BattleRoom takes    *)
(* those calls apart.  The flags are abstracted to the status they lead    *)
(* to, and who is host to what can go wrong with it: a start is refused    *)
(* when the host has changed.                                              *)
(***************************************************************************)
EXTENDS Integers, FiniteSets

CONSTANTS
    Combatants,
    NoCombatant,
    Creator,    \* who created the room: its host and the captain of ALPHA
    SquadSize,
    SquadCalls, \* calls and countdown callbacks that can be in flight at once
    MaxVersion, \* bound of the model: roster changes
    MaxUpsets,  \* bound of the model: calls that fail, and calls for any room but
                \* setPlayerReady's
    MaxTimers   \* bound of the model: countdowns pending when a captain approves

\* What the proofs assume of the constants.
SquadAssumption ==
    /\ IsFiniteSet(Combatants) /\ Creator \in Combatants /\ NoCombatant \notin Combatants
    /\ IsFiniteSet(SquadCalls) /\ SquadCalls # {}
    /\ SquadSize \in Nat \ {0}
    /\ MaxVersion \in Nat \ {0} /\ MaxUpsets \in Nat /\ MaxTimers \in Nat

Sides == {"ALPHA", "BETA"}

VARIABLES
    roomStatus,         \* BattleRoom.status
    version,            \* BattleRoom.rosterVersion
    team,               \* each user's BattleParticipant row: its team, "NONE" for a
                        \* row without a team, or "OUT"
    captain,            \* BattleTeam.captainUserId
    approval,           \* BattleTeam.approvedVersion, or 0 unless isApproved
    squadCall,          \* the calls in flight
    countdowns,         \* five second countdowns pending
    upsets,             \* failures and calls for any room so far
    seen,               \* history: the members each standing approval was given for
    binding,            \* history: given over the websocket, and both teams were full
    fizzled             \* history: since the roster's last revision a countdown or its
                        \* start failed, or an ordinary call put the room back

roster == <<version, team>>
votes == <<approval, seen, binding>>
squadVars == <<roomStatus, roster, captain, votes, squadCall, countdowns, upsets, fizzled>>

Lobby == {"WAITING", "READY"}

Members(s) == {u \in Combatants : team[u] = s}
Rostered == {u \in Combatants : team[u] \in Sides}
Seated == {u \in Combatants : team[u] # "OUT"}

SquadRequest ==
    [pc : {"idle", "captain", "insert", "stamp", "count", "unseat", "validate", "start"},
     user : Combatants \cup {NoCombatant},    \* who joins or is kicked
     side : Sides,
     yes : BOOLEAN,                 \* the vote
     live : BOOLEAN,                \* whether it came over the websocket
     version : Nat,                 \* what the call has read
     members : SUBSET Combatants,
     full : BOOLEAN]

NoCall == [pc |-> "idle", user |-> NoCombatant, side |-> "ALPHA", yes |-> FALSE,
           live |-> FALSE, version |-> 1, members |-> {}, full |-> FALSE]

SquadTypeOK ==
    /\ roomStatus \in Lobby \cup {"RUNNING", "CANCELLED"}
    /\ version \in Nat \ {0}
    /\ team \in [Combatants -> Sides \cup {"NONE", "OUT"}]
    /\ captain \in [Sides -> Combatants]
    /\ approval \in [Sides -> Nat]
    /\ squadCall \in [SquadCalls -> SquadRequest]
    /\ countdowns \in Nat /\ upsets \in 0..MaxUpsets
    /\ seen \in [Sides -> SUBSET Combatants]
    /\ binding \in [Sides -> BOOLEAN]
    /\ fizzled \in BOOLEAN

CallAt(c, step) == squadCall[c].pc = step
CallGoes(c, step) == squadCall' = [squadCall EXCEPT ![c].pc = step]
CallEnds(c) == squadCall' = [squadCall EXCEPT ![c] = NoCall]

\* createRoom: the creator is captain of ALPHA and, until somebody claims it, of BETA.
SquadInit ==
    /\ roomStatus = "WAITING"
    /\ version = 1
    /\ team = [u \in Combatants |-> IF u = Creator THEN "ALPHA" ELSE "OUT"]
    /\ captain = [s \in Sides |-> Creator]
    /\ approval = [s \in Sides |-> 0]
    /\ squadCall = [c \in SquadCalls |-> NoCall]
    /\ countdowns = 0 /\ upsets = 0
    /\ seen = [s \in Sides |-> {}] /\ binding = [s \in Sides |-> FALSE]
    /\ fizzled = FALSE

-----------------------------------------------------------------------------
(* joinSquadTeam and kickSquadMember                                       *)

\* Variant: one member more.
HasRoom_closed(s) == Cardinality(Members(s)) <= SquadSize

HasRoom(s) == Cardinality(Members(s)) < SquadSize

\* Keeps to the bound MaxVersion.
RevisionsLeft ==
    version + Cardinality({c \in SquadCalls :
                            squadCall[c].pc \in {"captain", "insert", "unseat"}}) < MaxVersion

Join(c, u, s) ==
    /\ CallAt(c, "idle")
    /\ roomStatus \in Lobby
    /\ RevisionsLeft
    /\ team[u] = "OUT"
    /\ HasRoom(s)
    /\ squadCall' = [squadCall EXCEPT ![c] = [NoCall EXCEPT
                    !.pc = IF s = "BETA" /\ Members(s) = {} THEN "captain" ELSE "insert",
                    !.user = u, !.side = s]]
    /\ UNCHANGED <<roomStatus, roster, captain, votes, countdowns, upsets, fizzled>>

\* Taking an approval back, with what it was given for.
Withdraw(s) ==
    /\ approval' = [approval EXCEPT ![s] = 0]
    /\ seen' = [seen EXCEPT ![s] = {}]
    /\ binding' = [binding EXCEPT ![s] = FALSE]

\* The first member of BETA becomes its captain before being a member.
NameCaptain(c) ==
    /\ CallAt(c, "captain")
    /\ captain' = [captain EXCEPT !["BETA"] = squadCall[c].user]
    /\ Withdraw("BETA")
    /\ CallGoes(c, "insert")
    /\ UNCHANGED <<roomStatus, roster, countdowns, upsets, fizzled>>

\* Variant: the roster changes under the same version.
Revised_same(v) == v

Revised(v) == v + 1

\* The second half of both transactions.
ReviseRoster ==
    /\ version' = Revised(version)
    /\ approval' = [s \in Sides |-> 0]
    /\ seen' = [s \in Sides |-> {}]
    /\ binding' = [s \in Sides |-> FALSE]
    /\ fizzled' = FALSE

\* Neither the status nor the free seats are looked at again.
Insert(c) ==
    /\ CallAt(c, "insert")
    /\ team[squadCall[c].user] = "OUT"
    /\ team' = [team EXCEPT ![squadCall[c].user] = squadCall[c].side]
    /\ ReviseRoster
    /\ CallEnds(c)
    /\ UNCHANGED <<roomStatus, captain, countdowns, upsets>>

\* The key (roomId, userId) is taken: the transaction is rolled back.
InsertConflict(c) ==
    /\ CallAt(c, "insert")
    /\ team[squadCall[c].user] # "OUT"
    /\ CallEnds(c)
    /\ UNCHANGED <<roomStatus, roster, captain, votes, countdowns, upsets, fizzled>>

\* A captain removes a member of the team whose captain he is.
Kick(c, s, v) ==
    /\ CallAt(c, "idle")
    /\ roomStatus \in Lobby
    /\ RevisionsLeft
    /\ v # captain[s]
    /\ team[v] = s
    /\ squadCall' = [squadCall EXCEPT ![c] = [NoCall EXCEPT
                        !.pc = "unseat", !.user = v, !.side = s]]
    /\ UNCHANGED <<roomStatus, roster, captain, votes, countdowns, upsets, fizzled>>

Unseat(c) ==
    /\ CallAt(c, "unseat")
    /\ team[squadCall[c].user] # "OUT"
    /\ team' = [team EXCEPT ![squadCall[c].user] = "OUT"]
    /\ ReviseRoster
    /\ CallEnds(c)
    /\ UNCHANGED <<roomStatus, captain, countdowns, upsets>>

\* The row to delete is gone: rolled back.
UnseatMissing(c) ==
    /\ CallAt(c, "unseat")
    /\ team[squadCall[c].user] = "OUT"
    /\ CallEnds(c)
    /\ UNCHANGED <<roomStatus, roster, captain, votes, countdowns, upsets, fizzled>>

-----------------------------------------------------------------------------
(* What the room repository does for any room; none of these calls touches *)
(* the roster version or the approvals.                                    *)

\* Keeps to the bound MaxUpsets.
Upset == upsets < MaxUpsets /\ upsets' = upsets + 1

\* joinRoom: a row without a team.  A user who has one is sent home unchanged.
Enter(u) ==
    /\ Upset
    /\ roomStatus \in Lobby
    /\ Cardinality(Seated) < 2 * SquadSize
    /\ team[u] = "OUT"
    /\ team' = [team EXCEPT ![u] = "NONE"]
    /\ roomStatus' = "WAITING"
    /\ UNCHANGED <<version, captain, votes, squadCall, countdowns, fizzled>>

\* The status a lobby of these participants may have, depending on the ready flags.
Settled(us) == {"WAITING"} \cup (IF Cardinality(us) >= 2 THEN {"READY"} ELSE {})

\* The last to leave closes the room; a lobby's status may be worked out anew.
StatusAfter(us) ==
    IF us = {} THEN {"CANCELLED"}
    ELSE IF roomStatus \in Lobby THEN Settled(us) ELSE {roomStatus}

\* leaveRoom, by the member or, with kickPlayer, by the host.
Leave(u) ==
    /\ team[u] # "OUT"
    /\ Upset
    /\ roomStatus' \in StatusAfter(Seated \ {u})
    /\ team' = [team EXCEPT ![u] = "OUT"]
    /\ UNCHANGED <<version, captain, votes, squadCall, countdowns, fizzled>>

\* setPlayerReady, when it changes the status.
ToggleReady ==
    /\ roomStatus \in Lobby
    /\ roomStatus' \in Settled(Seated) \ {roomStatus}
    /\ UNCHANGED <<roster, captain, votes, squadCall, countdowns, upsets, fizzled>>

\* start_room_battle starts any room of two, whatever its mode.
StartAnyway ==
    /\ Upset
    /\ Cardinality(Seated) >= 2
    /\ roomStatus' = "RUNNING"
    /\ UNCHANGED <<roster, captain, votes, squadCall, countdowns, fizzled>>

\* A joinRoom, leaveRoom or setPlayerReady that read a lobby writes its status after
\* the room has started.
LateWrite ==
    /\ Upset
    /\ roomStatus \notin Lobby
    /\ roomStatus' \in Settled(Seated)
    /\ fizzled' = TRUE
    /\ UNCHANGED <<roster, captain, votes, squadCall, countdowns>>

-----------------------------------------------------------------------------
(* setSquadCaptainApproval and the countdown                               *)

Counts(s) == approval[s] = version
BothFull == \A s \in Sides : Cardinality(Members(s)) = SquadSize

\* The room is read; the captain is recognised by the side's captainUserId.  To take
\* back what was not given would change nothing.  live: squad_approval_toggle, else
\* POST /battle/squad/:code/approve.
Vote(c, s, yes, live) ==
    /\ CallAt(c, "idle")
    /\ roomStatus \in Lobby
    /\ countdowns <= MaxTimers
    /\ yes \/ approval[s] # 0
    /\ squadCall' = [squadCall EXCEPT ![c] = [NoCall EXCEPT
                        !.pc = "stamp", !.side = s, !.yes = yes, !.live = live,
                        !.version = version, !.members = Rostered, !.full = BothFull]]
    /\ UNCHANGED <<roomStatus, roster, captain, votes, countdowns, upsets, fizzled>>

\* The route, which reads the room once more to report it, is done.
Stamp(c) ==
    LET v == squadCall[c]
        s == squadCall[c].side IN
    /\ CallAt(c, "stamp")
    /\ approval' = [approval EXCEPT ![s] = IF v.yes THEN v.version ELSE 0]
    /\ seen' = [seen EXCEPT ![s] = IF v.yes THEN v.members ELSE {}]
    /\ binding' = [binding EXCEPT ![s] = v.yes /\ v.full /\ v.live]
    /\ IF v.live
       THEN squadCall' = [squadCall EXCEPT ![c].pc = "count", ![c].yes = FALSE, ![c].members = {}]
       ELSE CallEnds(c)
    /\ UNCHANGED <<roomStatus, roster, captain, countdowns, upsets, fizzled>>

\* Variant: only the captain of ALPHA sets the countdown off.
CanStart_alpha(c) ==
    /\ squadCall[c].side = "ALPHA"
    /\ \A s \in Sides : approval[s] = squadCall[c].version
    /\ squadCall[c].full

\* The approvals are read again, the version and the members are not.
CanStart(c) ==
    /\ \A s \in Sides : approval[s] = squadCall[c].version
    /\ squadCall[c].full

CountVotes(c) ==
    /\ CallAt(c, "count")
    /\ countdowns' = countdowns + IF CanStart(c) THEN 1 ELSE 0
    /\ CallEnds(c)
    /\ UNCHANGED <<roomStatus, roster, captain, votes, fizzled, upsets>>

\* Five seconds later only the status is checked.
Elapse(c) ==
    /\ CallAt(c, "idle")
    /\ countdowns > 0
    /\ countdowns' = countdowns - 1
    /\ squadCall' = IF roomStatus = "WAITING"
                    THEN [squadCall EXCEPT ![c] = [NoCall EXCEPT
                            !.pc = "validate", !.members = Seated]]
                    ELSE squadCall
    /\ fizzled' = (fizzled \/ roomStatus # "WAITING")
    /\ UNCHANGED <<roomStatus, roster, captain, votes, upsets>>

\* BattleRoomService.startBattle reads the room again: whoever has left may have been
\* the host, and then somebody else is.
Validate(c) ==
    /\ CallAt(c, "validate")
    /\ Cardinality(Seated) >= 2
    /\ squadCall' = [squadCall EXCEPT ![c].pc = "start", ![c].members = {}]
    /\ UNCHANGED <<roomStatus, roster, captain, votes, countdowns, upsets, fizzled>>

RefuseStart(c) ==
    /\ CallAt(c, "validate")
    /\ Cardinality(Seated) < 2 \/ squadCall[c].members \ Seated # {}
    /\ CallEnds(c)
    /\ fizzled' = TRUE
    /\ UNCHANGED <<roomStatus, roster, captain, votes, countdowns, upsets>>

StartBattle(c) ==
    /\ CallAt(c, "start")
    /\ roomStatus' = "RUNNING"
    /\ CallEnds(c)
    /\ UNCHANGED <<roster, captain, votes, countdowns, upsets, fizzled>>

\* An awaited statement throws, or the process of a call dies.
CallFails(c) ==
    /\ Upset
    /\ ~CallAt(c, "idle")
    /\ CallEnds(c)
    /\ fizzled' = \/ fizzled
                  \/ CallAt(c, "count") /\ CanStart(c)
                  \/ CallAt(c, "validate") \/ CallAt(c, "start")
    /\ UNCHANGED <<roomStatus, roster, captain, votes, countdowns>>

\* A countdown is a timer of one process, and begins with a read that may throw.
CountdownLost ==
    /\ Upset
    /\ countdowns > 0
    /\ countdowns' = countdowns - 1
    /\ fizzled' = TRUE
    /\ UNCHANGED <<roomStatus, roster, captain, votes, squadCall>>

SquadNext ==
    \/ \E c \in SquadCalls, s \in Sides :
        \/ \E u \in Combatants : Join(c, u, s) \/ Kick(c, s, u)
        \/ \E yes, live \in BOOLEAN : Vote(c, s, yes, live)
    \/ \E c \in SquadCalls :
        \/ NameCaptain(c) \/ Insert(c) \/ InsertConflict(c)
        \/ Unseat(c) \/ UnseatMissing(c)
        \/ Stamp(c) \/ CountVotes(c)
        \/ Elapse(c) \/ Validate(c) \/ RefuseStart(c) \/ StartBattle(c)
        \/ CallFails(c)
    \/ \E u \in Combatants : Enter(u) \/ Leave(u)
    \/ ToggleReady \/ StartAnyway \/ LateWrite \/ CountdownLost

SquadSpec == SquadInit /\ [][SquadNext]_squadVars

-----------------------------------------------------------------------------
\* An approval that counts was given with everybody who is on a team now on the roster:
\* whoever joins a team while the captain's call is between its read and its write is
\* not slipped in.  The code relies on rosterVersion for it (setSquadCaptainApproval,
\* joinSquadTeam).  Who comes in through joinRoom has no team, and is not covered.
ApprovalCoversRoster == \A s \in Sides : Counts(s) => Rostered \subseteq seen[s]

\* Two captains who approve full teams over the websocket do not miss each other: when
\* both approvals count, then a call that will see both is still in flight, or a
\* countdown was set off for this very roster, unless an error lost it.
Watches(c) ==
    \/ CallAt(c, "count") /\ squadCall[c].version = version /\ squadCall[c].full
    \/ CallAt(c, "validate") \/ CallAt(c, "start")
AgreementStartsCountdown ==
    (roomStatus \in Lobby /\ \A s \in Sides : Counts(s) /\ binding[s])
    => countdowns > 0 \/ fizzled \/ \E c \in SquadCalls : Watches(c)

\* joinSquadTeam tests the free seats long before it inserts: a team, with the joins
\* already admitted to it, exceeds its size by at most one member per other call.
Admitted(s) == {c \in SquadCalls :
    squadCall[c].pc \in {"captain", "insert"} /\ squadCall[c].side = s}
TeamsPromised ==
    \A s \in Sides : Cardinality(Members(s)) + Cardinality(Admitted(s))
                        <= SquadSize + Cardinality(SquadCalls) - 1
=============================================================================
