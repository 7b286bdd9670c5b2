---------------------------- MODULE MCBattleRoom ----------------------------
(* Instances of BattleRoom for TLC.                                        *)
EXTENDS BattleRoom, TLC

\* Users and sessions are only ever compared, so permuting them is sound for
\* safety.
Symmetric == Permutations(Users) \cup Permutations(Sessions)

\* Requests that do not overlap: the room is then the lobby of Lobby.tla.
L == INSTANCE Lobby WITH players <- Participants

-----------------------------------------------------------------------------
(* Served one at a time, the statements of every request add up to the     *)
(* atomic operation Lobby promises, or to nothing: no request leaves the   *)
(* room half changed.                                                      *)
ImplementsLobby == L!Spec

(* ... and the room then keeps the lobby invariant in every state, those   *)
(* inside a request included.                                              *)
LobbyKept == L!LobbyInv

(* Between two requests nobody who is banned holds a seat: a kick removes  *)
(* before it bans, an approval seats before it pardons.                    *)
BannedStayOut ==
    (\A s \in Sessions : At(s, "idle")) => kicked \cap Participants = {}
=============================================================================
