---------------------------- MODULE Lobby_proofs ----------------------------
(* Proofs about Lobby: the lobby invariant holds for any number of users   *)
(* and any capacity.                                                       *)
EXTENDS Lobby, FiniteSetTheorems, TLAPS

IInv == TypeOK /\ LobbyInv

(* A set of seated users is finite and loses at most its member.           *)
LEMMA SeatedFinite ==
    ASSUME LobbyAssumption, NEW S \in SUBSET Users
    PROVE  IsFiniteSet(S) /\ Cardinality(S) \in Nat
  BY FS_Subset, FS_CardinalityType DEF LobbyAssumption

LEMMA InitInv == LobbyAssumption /\ Init => IInv
  <1> SUFFICES ASSUME LobbyAssumption, Init PROVE IInv
    OBVIOUS
  <1>1. TypeOK
    BY DEF Init, TypeOK, Statuses
  <1>2. Cardinality(players) = 1
    BY FS_Singleton DEF Init
  <1> QED
    BY <1>1, <1>2 DEF IInv, Init, LobbyInv, ReadyIsUnanimous, HostIsSeated, EmptyIsClosed,
                      WithinCapacity, LobbyAssumption

LEMMA JoinInv ==
    ASSUME LobbyAssumption, IInv, NEW u \in Users, Join(u)
    PROVE  IInv'
  <1>1. TypeOK'
    BY DEF IInv, TypeOK, Join, Statuses
  <1>2. Cardinality(players') = Cardinality(players) + 1
    BY SeatedFinite, FS_AddElement DEF IInv, TypeOK, Join
  <1>3. WithinCapacity'
    BY <1>2, SeatedFinite DEF Join, WithinCapacity, LobbyAssumption, IInv, TypeOK
  <1> QED
    BY <1>1, <1>3 DEF IInv, LobbyInv, Join, ReadyIsUnanimous, HostIsSeated, EmptyIsClosed

LEMMA LeaveInv ==
    ASSUME LobbyAssumption, IInv, NEW u \in Users, Leave(u)
    PROVE  IInv'
  <1>0. /\ players' = players \ {u} /\ ready' = ready \ {u}
        /\ LeaveLast(u) \/ LeaveHost(u) \/ LeaveGuest(u)
    BY DEF Leave
  <1>1. TypeOK'
    BY <1>0 DEF IInv, TypeOK, Statuses, LeaveLast, LeaveHost, LeaveGuest
  <1>2. Cardinality(players') <= Cardinality(players)
    BY <1>0, SeatedFinite, FS_Subset DEF IInv, TypeOK
  <1>3. WithinCapacity'
    BY <1>0, <1>2, SeatedFinite DEF WithinCapacity, LobbyAssumption, IInv, TypeOK, LobbyInv
  <1>4. /\ ReadyIsUnanimous' /\ HostIsSeated' /\ EmptyIsClosed'
    <2>1. CASE LeaveLast(u)
      BY <1>0, <2>1 DEF LeaveLast, ReadyIsUnanimous, HostIsSeated, EmptyIsClosed
    <2>2. CASE LeaveHost(u)
      <3>1. Unanimous(players \ {u}, ready) <=> Unanimous(players', ready')
        BY <1>0 DEF Unanimous, IInv, TypeOK
      <3> QED
        BY <1>0, <2>2, <3>1 DEF LeaveHost, ReadyIsUnanimous, HostIsSeated, EmptyIsClosed
    <2>3. CASE LeaveGuest(u)
      <3>1. Unanimous(players \ {u}, ready) <=> Unanimous(players', ready')
        BY <1>0 DEF Unanimous, IInv, TypeOK
      <3> QED
        BY <1>0, <2>3, <3>1 DEF LeaveGuest, ReadyIsUnanimous, HostIsSeated, EmptyIsClosed,
                                IInv, LobbyInv, TypeOK
    <2> QED
      BY <1>0, <2>1, <2>2, <2>3
  <1> QED
    BY <1>1, <1>3, <1>4 DEF IInv, LobbyInv

LEMMA SetReadyInv ==
    ASSUME LobbyAssumption, IInv, NEW u \in Users, NEW isReady \in BOOLEAN, SetReady(u, isReady)
    PROVE  IInv'
  <1>1. TypeOK'
    BY DEF IInv, TypeOK, SetReady, Statuses
  <1>2. players' = players /\ host' = host
    BY DEF SetReady
  <1>3. ReadyIsUnanimous'
    BY <1>2 DEF SetReady, ReadyIsUnanimous, IInv, TypeOK, Statuses
  <1>4. EmptyIsClosed'
    BY <1>2 DEF SetReady, EmptyIsClosed, IInv, LobbyInv, TypeOK, Statuses
  <1> QED
    BY <1>1, <1>2, <1>3, <1>4 DEF IInv, LobbyInv, HostIsSeated, WithinCapacity

LEMMA StartFinishInv ==
    ASSUME LobbyAssumption, IInv, Start \/ Finish
    PROVE  IInv'
  <1>1. TypeOK'
    BY DEF IInv, TypeOK, Start, Finish, Statuses
  <1>2. CASE Start
    <2>1. players # {}
      BY <1>2, FS_EmptySet DEF Start
    <2> QED
      BY <1>1, <1>2, <2>1 DEF Start, IInv, LobbyInv, ReadyIsUnanimous, HostIsSeated,
                              EmptyIsClosed, WithinCapacity
  <1>3. CASE Finish
    BY <1>1, <1>3 DEF Finish, IInv, LobbyInv, ReadyIsUnanimous, HostIsSeated,
                      EmptyIsClosed, WithinCapacity
  <1> QED
    BY <1>2, <1>3

(* Served one operation at a time, the room keeps the lobby invariant: a   *)
(* READY room is unanimous, an occupied room has its host inside, only an  *)
(* empty room is cancelled, and no room is overfull.                       *)
THEOREM LobbyIsSafe == LobbyAssumption /\ Spec => []LobbyInv
  <1> SUFFICES ASSUME LobbyAssumption PROVE Spec => []LobbyInv
    OBVIOUS
  <1>1. Init => IInv
    BY InitInv
  <1>2. IInv /\ [Next]_vars => IInv'
    <2> SUFFICES ASSUME IInv, [Next]_vars PROVE IInv'
      OBVIOUS
    <2>1. CASE \E u \in Users : Join(u) \/ Leave(u)
      BY <2>1, JoinInv, LeaveInv
    <2>2. CASE \E u \in Users, isReady \in BOOLEAN : SetReady(u, isReady)
      BY <2>2, SetReadyInv
    <2>3. CASE Start \/ Finish
      BY <2>3, StartFinishInv
    <2>4. CASE UNCHANGED vars
      BY <2>4 DEF vars, IInv, TypeOK, LobbyInv, ReadyIsUnanimous, HostIsSeated,
                  EmptyIsClosed, WithinCapacity, Unanimous
    <2> QED
      BY <2>1, <2>2, <2>3, <2>4 DEF Next
  <1>3. IInv => LobbyInv
    BY DEF IInv
  <1> QED
    BY <1>1, <1>2, <1>3, PTL DEF Spec
=============================================================================
