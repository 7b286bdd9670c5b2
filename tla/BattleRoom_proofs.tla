-------------------------- MODULE BattleRoom_proofs --------------------------
(* Proofs about BattleRoom, for any users, requests in flight and          *)
(* capacity: types, and the bound on the overfilling of a room.  And for   *)
(* requests that do not overlap (Serial): the statements of each add up to *)
(* one step of the atomic Lobby, so that a room keeps what Lobby promises, *)
(* and a banned user holds no seat between requests.                       *)
EXTENDS MCBattleRoom, FiniteSetTheorems, TLAPS

\* Steps of a request that touches somebody's participant row.
OnBehalf == Joining \cup Leaving \cup {"pardon", "ban", "readyListed", "readyChecked"}

UserKnown == \A s \in Sessions : req[s].pc \in OnBehalf => req[s].user \in Users

Typed == TypeOK /\ UserKnown

-----------------------------------------------------------------------------
(* Types                                                                   *)

USE DEF At, Done, Goto, Begin, room, rows

LEMMA IdleTyped == Idle \in Request
  BY DEF Idle, Request, Steps, Statuses

LEMMA InitTyped == Init => Typed
  <1> SUFFICES ASSUME Init PROVE Typed
    OBVIOUS
  <1>1. TypeOK
    BY IdleTyped DEF Init, TypeOK, Statuses
  <1>2. UserKnown
    BY DEF Init, UserKnown, Idle, OnBehalf, Joining, Leaving
  <1> QED
    BY <1>1, <1>2 DEF Typed

(* A step that gives one session a well-typed request keeps req typed.     *)
LEMMA ReqTyped ==
    ASSUME Typed, NEW s \in Sessions, NEW r \in Request,
           r.pc \in OnBehalf => r.user \in Users,
           req' = [req EXCEPT ![s] = r]
    PROVE  req' \in [Sessions -> Request] /\ UserKnown'
  <1>1. req' \in [Sessions -> Request]
    BY DEF Typed, TypeOK
  <1>2. UserKnown'
    BY DEF Typed, TypeOK, UserKnown
  <1> QED
    BY <1>1, <1>2

(* The changes of one request that the handlers make.                      *)
LEMMA ReqSteps ==
    ASSUME Typed, NEW s \in Sessions
    PROVE  /\ Done(s) => req' \in [Sessions -> Request] /\ UserKnown'
           /\ \A step \in Steps :
                Goto(s, step) /\ (step \in OnBehalf => req[s].pc \in OnBehalf)
                    => req' \in [Sessions -> Request] /\ UserKnown'
  <1>1. ASSUME Done(s) PROVE req' \in [Sessions -> Request] /\ UserKnown'
    BY <1>1, IdleTyped, ReqTyped DEF Idle, OnBehalf, Joining, Leaving
  <1>2. ASSUME NEW step \in Steps, Goto(s, step), step \in OnBehalf => req[s].pc \in OnBehalf
        PROVE  req' \in [Sessions -> Request] /\ UserKnown'
    <2> DEFINE r == [req[s] EXCEPT !.pc = step]
    <2>1. r \in Request /\ r.pc = step /\ r.user = req[s].user
      BY DEF Typed, TypeOK, Request
    <2>2. r.pc \in OnBehalf => r.user \in Users
      BY <1>2, <2>1 DEF Typed, UserKnown
    <2>3. req' = [req EXCEPT ![s] = r]
      BY <1>2
    <2> HIDE DEF r
    <2> QED
      BY <2>1, <2>2, <2>3, ReqTyped
  <1> QED
    BY <1>1, <1>2

(* A request that arrives is well typed and names a user.                  *)
LEMMA ArriveTyped ==
    ASSUME RoomAssumption, Typed, NEW s \in Sessions,
           Arrive(s) \/ StartRequest(s) \/ FinishRequest(s)
    PROVE  Typed'
  <1>1. PICK r \in Request :
            /\ r.pc \in OnBehalf => r.user \in Users
            /\ req' = [req EXCEPT ![s] = r]
            /\ UNCHANGED <<room, rows, kicked>>
    <2>1. CASE \E u \in Users : JoinRequest(s, u)
      <3>1. PICK u \in Users : JoinRequest(s, u)
        BY <2>1
      <3> DEFINE r == [Idle EXCEPT !.pc = "join", !.user = u]
      <3>2. r \in Request /\ r.user \in Users
        BY DEF Idle, Request, Steps, Statuses, Joining
      <3> QED
        BY <3>1, <3>2 DEF JoinRequest
    <2>2. CASE \E u \in Users : ApproveRequest(s, u)
      <3>1. PICK u \in Users : ApproveRequest(s, u)
        BY <2>2
      <3> DEFINE r == [Idle EXCEPT !.pc = "join", !.user = u, !.via = "host"]
      <3>2. r \in Request /\ r.user \in Users
        BY DEF Idle, Request, Steps, Statuses, Joining
      <3> QED
        BY <3>1, <3>2 DEF ApproveRequest
    <2>3. CASE \E u \in Users : LeaveRequest(s, u)
      <3>1. PICK u \in Users : LeaveRequest(s, u)
        BY <2>3
      <3> DEFINE r == [Idle EXCEPT !.pc = "leave", !.user = u]
      <3>2. r \in Request /\ r.user \in Users
        BY DEF Idle, Request, Steps, Statuses, Leaving
      <3> QED
        BY <3>1, <3>2 DEF LeaveRequest
    <2>4. CASE \E u \in Users : KickRequest(s, u)
      <3>1. PICK u \in Users : KickRequest(s, u)
        BY <2>4
      <3> DEFINE r == [Idle EXCEPT !.pc = "leave", !.user = u, !.via = "host"]
      <3>2. r \in Request /\ r.user \in Users
        BY DEF Idle, Request, Steps, Statuses, Leaving
      <3> QED
        BY <3>1, <3>2 DEF KickRequest
    <2>5. CASE \E u \in Users, isReady \in BOOLEAN : ReadyRequest(s, u, isReady)
      <3>1. PICK u \in Users, isReady \in BOOLEAN : ReadyRequest(s, u, isReady)
        BY <2>5
      <3> DEFINE agreed == IF isReady THEN ready \cup {u} ELSE ready \ {u}
                 all == Unanimous(Participants, agreed)
                 r == [Idle EXCEPT !.pc = "readyListed", !.user = u, !.isReady = isReady,
                                   !.allReady = all]
      <3>2. all \in BOOLEAN
        BY DEF Unanimous
      <3> HIDE DEF all
      <3>3. r \in Request /\ r.user \in Users
        BY <3>2 DEF Idle, Request, Steps, Statuses
      <3>4. req' = [req EXCEPT ![s] = r] /\ UNCHANGED <<room, rows, kicked>>
        BY <3>1 DEF ReadyRequest, all
      <3> QED
        BY <3>3, <3>4
    <2>6. CASE StartRequest(s)
      <3> DEFINE r == [Idle EXCEPT !.pc = "start"]
      <3>1. r \in Request /\ r.pc \notin OnBehalf
        BY DEF Idle, Request, Steps, Statuses, OnBehalf, Joining, Leaving
      <3> QED
        BY <2>6, <3>1 DEF StartRequest
    <2>7. CASE FinishRequest(s)
      <3> DEFINE r == [Idle EXCEPT !.pc = "finish", !.seats = Participants]
      <3>1. r \in Request /\ r.pc \notin OnBehalf
        BY DEF Idle, Request, Steps, Statuses, OnBehalf, Joining, Leaving, Participants
      <3> QED
        BY <2>7, <3>1 DEF FinishRequest
    <2> QED
      BY <2>1, <2>2, <2>3, <2>4, <2>5, <2>6, <2>7 DEF Arrive
  <1>2. req' \in [Sessions -> Request] /\ UserKnown'
    BY <1>1, ReqTyped
  <1> QED
    BY <1>1, <1>2 DEF Typed, TypeOK

(* So is every request after its next statement.                           *)
LEMMA JoinTyped ==
    ASSUME RoomAssumption, Typed, NEW s \in Sessions,
           \/ JoinCheck(s) \/ JoinRefused(s) \/ JoinRead(s) \/ JoinRejected(s)
           \/ AlreadyJoined(s)
           \/ JoinCommit(s) \/ JoinConflict(s) \/ Pardon(s)
    PROVE  Typed'
  <1> USE DEF OnBehalf, Joining, Steps
  <1>1. CASE JoinCheck(s)
    BY <1>1, ReqSteps DEF JoinCheck, Typed, TypeOK
  <1>2. CASE JoinRefused(s) \/ JoinRejected(s) \/ JoinConflict(s)
    BY <1>2, ReqSteps DEF JoinRefused, JoinRejected, JoinConflict, Typed, TypeOK
  <1>3. CASE JoinRead(s)
    <2> DEFINE r == [req[s] EXCEPT !.pc = "joinRead", !.status = status]
    <2>0. req[s] \in Request /\ req[s].pc = "joinChecked" /\ status \in Statuses
      BY <1>3 DEF JoinRead, Typed, TypeOK
    <2>1. r \in Request /\ r.user = req[s].user /\ req[s].pc \in OnBehalf
      BY <2>0 DEF Request
    <2>2. r.user \in Users
      BY <2>1 DEF Typed, UserKnown
    <2>3. req' = [req EXCEPT ![s] = r]
      BY <1>3 DEF JoinRead
    <2>4. req' \in [Sessions -> Request] /\ UserKnown'
      <3> HIDE DEF r
      <3> QED BY <2>1, <2>2, <2>3, ReqTyped
    <2> QED
      BY <1>3, <2>4 DEF JoinRead, Typed, TypeOK
  <1>4. CASE AlreadyJoined(s) \/ JoinCommit(s)
    <2>1. JoinDone(s) /\ req[s].pc \in OnBehalf
      BY <1>4 DEF AlreadyJoined, JoinCommit
    <2>2. req' \in [Sessions -> Request] /\ UserKnown'
      BY <2>1, ReqSteps DEF JoinDone
    <2>3. CASE AlreadyJoined(s)
      BY <2>2, <2>3 DEF AlreadyJoined, Typed, TypeOK
    <2>4. CASE JoinCommit(s)
      <3>1. status' \in Statuses /\ clock' \in Nat
        BY <2>4 DEF JoinCommit, Typed, TypeOK, Statuses
      <3>2. joinedAt' \in [Users -> Nat]
        <4>1. clock + 1 \in Nat /\ joinedAt \in [Users -> Nat]
          BY DEF Typed, TypeOK
        <4>2. PICK u : joinedAt' = [joinedAt EXCEPT ![u] = clock + 1]
          BY <2>4 DEF JoinCommit
        <4> QED
          BY <4>1, <4>2
      <3> QED
        BY <2>2, <2>4, <3>1, <3>2 DEF JoinCommit, Typed, TypeOK
    <2> QED
      BY <1>4, <2>3, <2>4
  <1>5. CASE Pardon(s)
    BY <1>5, ReqSteps DEF Pardon, Typed, TypeOK
  <1> QED
    BY <1>1, <1>2, <1>3, <1>4, <1>5

LEMMA LeaveTyped ==
    ASSUME RoomAssumption, Typed, NEW s \in Sessions,
           LeaveRead(s) \/ LeaveList(s) \/ LeaveCommit(s) \/ Ban(s)
    PROVE  Typed'
  <1> USE DEF OnBehalf, Leaving, Steps
  <1>1. CASE LeaveRead(s)
    <2> DEFINE mine == host = req[s].user
               r == [req[s] EXCEPT !.pc = "leaveRead", !.status = status, !.wasHost = mine]
    <2>0. req[s] \in Request /\ req[s].pc = "leave" /\ status \in Statuses /\ mine \in BOOLEAN
      BY <1>1 DEF LeaveRead, Typed, TypeOK
    <2>3. req' = [req EXCEPT ![s] = r]
      BY <1>1 DEF LeaveRead
    <2> HIDE DEF mine
    <2>1. r \in Request /\ r.user = req[s].user /\ req[s].pc \in OnBehalf
      BY <2>0 DEF Request
    <2>2. r.user \in Users
      BY <2>1 DEF Typed, UserKnown
    <2>4. req' \in [Sessions -> Request] /\ UserKnown'
      <3> HIDE DEF r
      <3> QED BY <2>1, <2>2, <2>3, ReqTyped
    <2> QED
      BY <1>1, <2>4 DEF LeaveRead, Typed, TypeOK
  <1>2. CASE LeaveList(s)
    <2>1. PICK heir \in Users \cup {NoUser} :
              req' = [req EXCEPT ![s].pc = IF req[s].user \in Participants THEN "leaveListed"
                                                                     ELSE "leaveMissed",
                                 ![s].heir = heir,
                                 ![s].allReady = Unanimous(Participants \ {req[s].user}, ready)]
      BY <1>2 DEF LeaveList, Participants
    <2> DEFINE all == Unanimous(Participants \ {req[s].user}, ready)
               step == IF req[s].user \in Participants THEN "leaveListed" ELSE "leaveMissed"
               r == [req[s] EXCEPT !.pc = step, !.heir = heir, !.allReady = all]
    <2>2. all \in BOOLEAN /\ step \in {"leaveListed", "leaveMissed"}
      BY DEF Unanimous
    <2>3. req' = [req EXCEPT ![s] = r]
      BY <2>1
    <2> HIDE DEF all, step
    <2>a. req[s] \in Request /\ req[s].pc = "leaveRead"
      BY <1>2 DEF LeaveList, Typed, TypeOK
    <2>4. r \in Request /\ r.user = req[s].user /\ req[s].pc \in OnBehalf
      BY <2>2, <2>a DEF Request
    <2>5. r.user \in Users
      BY <2>4 DEF Typed, UserKnown
    <2>6. req' \in [Sessions -> Request] /\ UserKnown'
      <3> HIDE DEF r
      <3> QED BY <2>3, <2>4, <2>5, ReqTyped
    <2> QED
      BY <1>2, <2>6 DEF LeaveList, Typed, TypeOK
  <1>3. CASE LeaveCommit(s)
    <2>1. req[s] \in Request /\ req[s].pc \in OnBehalf
      BY <1>3 DEF LeaveCommit, Typed, TypeOK
    <2>2. req' \in [Sessions -> Request] /\ UserKnown'
      BY <1>3, <2>1, ReqSteps DEF LeaveCommit
    <2>3. status' \in Statuses /\ host' \in Users
      BY <1>3, <2>1 DEF LeaveCommit, LeaveUpdate, Request, Statuses, Typed, TypeOK
    <2>4. joinedAt' \in [Users -> Nat] /\ ready' \in SUBSET Users
      BY <1>3 DEF LeaveCommit, Typed, TypeOK
    <2> QED
      BY <1>3, <2>2, <2>3, <2>4 DEF LeaveCommit, Typed, TypeOK
  <1>4. CASE Ban(s)
    <2>1. req[s].user \in Users
      BY <1>4 DEF Ban, Typed, UserKnown
    <2> QED
      BY <1>4, <2>1, ReqSteps DEF Ban, Typed, TypeOK
  <1> QED
    BY <1>1, <1>2, <1>3, <1>4

LEMMA OtherTyped ==
    ASSUME RoomAssumption, Typed, NEW s \in Sessions,
           \/ ReadyRead(s) \/ ReadyCommit(s)
           \/ StartCommit(s)
           \/ FinishRank(s) \/ FinishCommit(s)
    PROVE  Typed'
  <1> USE DEF OnBehalf, Steps
  <1>1. CASE ReadyRead(s)
    <2> DEFINE r == [req[s] EXCEPT !.pc = "readyChecked", !.status = status]
    <2>1. req[s] \in Request /\ req[s].pc = "readyListed" /\ status \in Statuses
      BY <1>1 DEF ReadyRead, Typed, TypeOK
    <2>2. r \in Request /\ r.user = req[s].user /\ req[s].pc \in OnBehalf
      BY <2>1 DEF Request
    <2>3. r.user \in Users
      BY <2>2 DEF Typed, UserKnown
    <2>4. req' = [req EXCEPT ![s] = r]
      BY <1>1 DEF ReadyRead
    <2>5. req' \in [Sessions -> Request] /\ UserKnown'
      <3> HIDE DEF r
      <3> QED BY <2>2, <2>3, <2>4, ReqTyped
    <2> QED
      BY <1>1, <2>5 DEF ReadyRead, Typed, TypeOK
  <1>2. CASE ReadyCommit(s)
    <2>1. req[s].user \in Users
      BY <1>2 DEF ReadyCommit, Typed, UserKnown
    <2>2. status' \in Statuses
      BY <1>2 DEF ReadyCommit, ReadyUpdate, Typed, TypeOK, Statuses
    <2> QED
      BY <1>2, <2>1, <2>2, ReqSteps DEF ReadyCommit, Typed, TypeOK
  <1>3. CASE StartCommit(s) \/ FinishCommit(s)
    BY <1>3, ReqSteps DEF StartCommit, FinishCommit, Typed, TypeOK, Statuses
  <1>4. CASE FinishRank(s)
    BY <1>4, ReqSteps DEF FinishRank, Joining, Leaving, Typed, TypeOK
  <1> QED
    BY <1>1, <1>2, <1>3, <1>4

LEMMA StepTyped == RoomAssumption /\ Typed /\ [Next]_vars => Typed'
  <1> SUFFICES ASSUME RoomAssumption, Typed, [Next]_vars PROVE Typed'
    OBVIOUS
  <1>1. CASE BanExpires
    BY <1>1 DEF BanExpires, Typed, TypeOK, UserKnown
  <1>2. CASE UNCHANGED vars
    BY <1>2 DEF vars, Typed, TypeOK, UserKnown
  <1> QED
    BY <1>1, <1>2, ArriveTyped, JoinTyped, LeaveTyped, OtherTyped DEF Next, Continue

(* Every reachable state of the room and of the requests in flight is well *)
(* typed; in particular a commit never writes a host that is nobody.       *)
THEOREM RoomTyped == Spec => []TypeOK
  <1>1. Init => Typed
    BY InitTyped
  <1>2. Typed /\ [Next]_vars => Typed'
    BY StepTyped, RoomAssumption
  <1>3. Typed => TypeOK
    BY DEF Typed
  <1> QED
    BY <1>1, <1>2, <1>3, PTL DEF Spec

-----------------------------------------------------------------------------
(* Overfilling                                                             *)

(* Sets of users and of sessions are finite.                               *)
LEMMA Counted ==
    ASSUME RoomAssumption
    PROVE  /\ \A S \in SUBSET Users : IsFiniteSet(S) /\ Cardinality(S) \in Nat
           /\ \A S \in SUBSET Sessions :
                 /\ IsFiniteSet(S) /\ Cardinality(S) \in Nat
                 /\ Cardinality(S) <= Cardinality(Sessions)
           /\ Cardinality(Sessions) \in Nat
  BY FS_Subset, FS_CardinalityType DEF RoomAssumption

(* Steps that seat nobody and see no free seat keep the count.             *)
LEMMA QuietStep ==
    ASSUME RoomAssumption, SeatsPromised,
           Participants' \subseteq Participants, Joiners' \subseteq Joiners
    PROVE  SeatsPromised'
  <1>1. Participants \subseteq Users /\ Joiners \subseteq Sessions
    BY DEF Participants, Joiners
  <1>2. IsFiniteSet(Participants) /\ IsFiniteSet(Joiners)
    BY <1>1, Counted
  <1>3. /\ Cardinality(Participants') <= Cardinality(Participants)
        /\ Cardinality(Joiners') <= Cardinality(Joiners)
        /\ Cardinality(Participants') \in Nat /\ Cardinality(Participants) \in Nat
        /\ Cardinality(Joiners') \in Nat /\ Cardinality(Joiners) \in Nat
    BY <1>2, FS_Subset, FS_CardinalityType
  <1> QED
    BY <1>3, Counted DEF SeatsPromised, RoomAssumption

\* A step in which session s does not get to the point of joining.
Aside(s) == \A t \in Sessions \ {s} : req'[t] = req[t]

LEMMA JoinersShrink ==
    ASSUME NEW s \in Sessions, Aside(s), req'[s].pc # "joinRead"
    PROVE  Joiners' = Joiners \ {s}
  BY DEF Aside, Joiners

LEMMA MovesAside ==
    ASSUME Typed, NEW s \in Sessions
    PROVE  /\ Done(s) => Aside(s) /\ req'[s].pc = "idle"
           /\ \A step : Goto(s, step) => Aside(s) /\ req'[s].pc = step
  BY DEF Typed, TypeOK, Request, Aside, Idle

(* Only the two statements that seat somebody read a free seat or use it.  *)
LEMMA OthersAreQuiet ==
    ASSUME RoomAssumption, Typed, NEW s \in Sessions,
           Arrive(s) \/ StartRequest(s) \/ FinishRequest(s) \/ Continue(s),
           ~JoinRead(s), ~JoinCommit(s)
    PROVE  Participants' \subseteq Participants /\ Joiners' \subseteq Joiners
  <1> req \in [Sessions -> Request]
    BY DEF Typed, TypeOK
  <1>1. ASSUME Arrive(s) \/ StartRequest(s) \/ FinishRequest(s)
        PROVE  joinedAt' = joinedAt /\ Aside(s) /\ req'[s].pc # "joinRead"
    <2>1. CASE \E u \in Users : JoinRequest(s, u) \/ ApproveRequest(s, u)
      BY <2>1 DEF JoinRequest, ApproveRequest, Aside, Idle
    <2>2. CASE \E u \in Users : LeaveRequest(s, u) \/ KickRequest(s, u)
      BY <2>2 DEF LeaveRequest, KickRequest, Aside, Idle
    <2>3. CASE \E u \in Users, isReady \in BOOLEAN : ReadyRequest(s, u, isReady)
      BY <2>3 DEF ReadyRequest, Aside, Idle
    <2>4. CASE StartRequest(s) \/ FinishRequest(s)
      BY <2>4 DEF StartRequest, FinishRequest, Aside, Idle
    <2> QED
      BY <1>1, <2>1, <2>2, <2>3, <2>4 DEF Arrive
  <1>2. ASSUME \/ JoinCheck(s) \/ JoinRefused(s) \/ JoinRejected(s)
               \/ AlreadyJoined(s) \/ JoinConflict(s) \/ Pardon(s)
        PROVE  joinedAt' = joinedAt /\ Aside(s) /\ req'[s].pc # "joinRead"
    BY <1>2, MovesAside DEF JoinCheck, JoinRefused, JoinRejected, AlreadyJoined, JoinConflict,
                            JoinDone, Pardon
  <1>3. ASSUME LeaveRead(s) \/ LeaveList(s) \/ Ban(s)
        PROVE  joinedAt' = joinedAt /\ Aside(s) /\ req'[s].pc # "joinRead"
    <2>1. CASE LeaveRead(s)
      BY <2>1 DEF LeaveRead, Aside, Request
    <2>2. CASE LeaveList(s)
      BY <2>2 DEF LeaveList, Aside, Request
    <2>3. CASE Ban(s)
      BY <2>3, MovesAside DEF Ban
    <2> QED
      BY <1>3, <2>1, <2>2, <2>3
  <1>4. ASSUME LeaveCommit(s)
        PROVE  Participants' \subseteq Participants /\ Aside(s) /\ req'[s].pc # "joinRead"
    <2>1. Participants' \subseteq Participants
      BY <1>4 DEF LeaveCommit, Participants
    <2> QED
      BY <1>4, <2>1, MovesAside DEF LeaveCommit
  <1>5. ASSUME ReadyRead(s) \/ ReadyCommit(s) \/ StartCommit(s) \/ FinishRank(s) \/ FinishCommit(s)
        PROVE  joinedAt' = joinedAt /\ Aside(s) /\ req'[s].pc # "joinRead"
    <2>1. CASE ReadyRead(s)
      BY <2>1 DEF ReadyRead, Aside, Request
    <2>2. CASE ReadyCommit(s) \/ StartCommit(s) \/ FinishRank(s) \/ FinishCommit(s)
      BY <2>2, MovesAside DEF ReadyCommit, StartCommit, FinishRank, FinishCommit
    <2> QED
      BY <1>5, <2>1, <2>2
  <1>6. Participants' \subseteq Participants /\ Aside(s) /\ req'[s].pc # "joinRead"
    BY <1>1, <1>2, <1>3, <1>4, <1>5 DEF Continue, Participants
  <1> QED
    BY <1>6, JoinersShrink

LEMMA StepPromised ==
    RoomAssumption /\ Typed /\ SeatsPromised /\ [Next]_vars => SeatsPromised'
  <1> SUFFICES ASSUME RoomAssumption, Typed, SeatsPromised, [Next]_vars
               PROVE  SeatsPromised'
    OBVIOUS
  <1> req \in [Sessions -> Request] /\ MaxPlayers \in Nat
    BY DEF Typed, TypeOK, RoomAssumption
  <1>1. ASSUME NEW s \in Sessions, JoinRead(s) PROVE SeatsPromised'
    <2>1. Participants' = Participants /\ Joiners' \subseteq Sessions
      BY <1>1 DEF JoinRead, Participants, Joiners
    <2>2. Cardinality(Participants) <= MaxPlayers - 1 /\ Cardinality(Participants) \in Nat
      BY <1>1, Counted DEF JoinRead, HasSeat, Participants
    <2>3. /\ Cardinality(Joiners') <= Cardinality(Sessions)
          /\ Cardinality(Joiners') \in Nat /\ Cardinality(Sessions) \in Nat
      BY <2>1, Counted
    <2> QED
      BY <2>1, <2>2, <2>3 DEF SeatsPromised
  <1>2. ASSUME NEW s \in Sessions, JoinCommit(s) PROVE SeatsPromised'
    <2> DEFINE u == req[s].user
    <2>1. u \in Users /\ u \notin Participants /\ s \in Joiners
      BY <1>2 DEF JoinCommit, Typed, UserKnown, OnBehalf, Joining, Joiners
    <2>2. Participants' = Participants \cup {u}
      <3>1. clock + 1 # 0 /\ joinedAt \in [Users -> Nat]
        BY DEF Typed, TypeOK
      <3>2. joinedAt' = [joinedAt EXCEPT ![u] = clock + 1]
        BY <1>2 DEF JoinCommit
      <3> HIDE DEF u
      <3> QED
        BY <3>1, <3>2, <2>1 DEF Participants
    <2>3. Joiners' = Joiners \ {s}
      <3>1. Aside(s) /\ req'[s].pc # "joinRead"
        BY <1>2, MovesAside DEF JoinCommit, JoinDone
      <3> QED
        BY <3>1, JoinersShrink
    <2> HIDE DEF u
    <2>4. IsFiniteSet(Participants) /\ IsFiniteSet(Joiners)
      BY Counted DEF Participants, Joiners
    <2>5. /\ Cardinality(Participants') = Cardinality(Participants) + 1
          /\ Cardinality(Joiners') = Cardinality(Joiners) - 1
      BY <2>1, <2>2, <2>3, <2>4, FS_AddElement, FS_RemoveElement
    <2>6. Cardinality(Participants) \in Nat /\ Cardinality(Joiners) \in Nat
      BY <2>4, FS_CardinalityType
    <2> QED
      BY <2>5, <2>6, Counted DEF SeatsPromised
  <1>3. ASSUME NEW s \in Sessions, ~JoinRead(s), ~JoinCommit(s),
               Arrive(s) \/ StartRequest(s) \/ FinishRequest(s) \/ Continue(s)
        PROVE  SeatsPromised'
    BY <1>3, OthersAreQuiet, QuietStep
  <1>4. CASE BanExpires \/ UNCHANGED vars
    <2>1. Participants' \subseteq Participants /\ Joiners' \subseteq Joiners
      BY <1>4 DEF BanExpires, vars, Participants, Joiners
    <2> QED
      BY <2>1, QuietStep
  <1> QED
    BY <1>1, <1>2, <1>3, <1>4 DEF Next

LEMMA InitPromised == RoomAssumption /\ Init => SeatsPromised
  <1> SUFFICES ASSUME RoomAssumption, Init PROVE SeatsPromised
    OBVIOUS
  <1>1. Participants = {host} /\ Joiners = {}
    BY DEF Init, Participants, Joiners, Idle
  <1>2. Cardinality(Participants) = 1 /\ Cardinality(Joiners) = 0
    BY <1>1, FS_Singleton, FS_EmptySet
  <1>3. Cardinality(Sessions) \in Nat /\ Cardinality(Sessions) # 0
    BY Counted, FS_EmptySet DEF RoomAssumption
  <1> QED
    BY <1>2, <1>3 DEF SeatsPromised, RoomAssumption

(* Requests in flight that have read a free seat, and the seats already    *)
(* taken, stay within the capacity and the requests beside the first one,  *)
(* for any capacity and any concurrency.                                   *)
THEOREM RoomSeatsPromised == Spec => []SeatsPromised
  <1> DEFINE IInv == Typed /\ SeatsPromised
  <1>1. Init => IInv
    BY InitTyped, InitPromised, RoomAssumption
  <1>2. IInv /\ [Next]_vars => IInv'
    BY StepTyped, StepPromised, RoomAssumption
  <1>3. IInv => SeatsPromised
    OBVIOUS
  <1> QED
    BY <1>1, <1>2, <1>3, PTL DEF Spec

(* So the participants alone overfill the room by no more than that.       *)
THEOREM RoomOverfillBounded == Spec => []OverfillBounded
  <1>1. SeatsPromised => OverfillBounded
    <2> SUFFICES ASSUME SeatsPromised PROVE OverfillBounded
      OBVIOUS
    <2>1. /\ Cardinality(Participants) \in Nat /\ Cardinality(Joiners) \in Nat
          /\ Cardinality(Sessions) \in Nat /\ MaxPlayers \in Nat
      BY RoomAssumption, Counted DEF Participants, Joiners, RoomAssumption
    <2> QED
      BY <2>1 DEF SeatsPromised, OverfillBounded
  <1> QED
    BY <1>1, RoomSeatsPromised, PTL
-----------------------------------------------------------------------------
(* Requests that do not overlap: whatever a request has read still holds   *)
(* when it writes, and each of its steps is a step of Lobby or none.       *)

Serial == \A s, t \in Sessions : At(s, "idle") \/ At(t, "idle") \/ s = t

\* What a request that joins, leaves, sets a flag or starts the battle knows of the room.
JoinKnown(r) ==
    /\ r.pc \in Joining => r.via = "host" \/ r.user \notin kicked
    /\ r.pc = "joinRead" =>
        r.status = status /\ status \in Open /\ HasSeat /\ r.user \notin Participants
    /\ r.pc = "pardon" => r.user \in Participants
LeaveKnown(r) ==
    /\ r.pc \in Leaving \ {"leave"} => r.status = status /\ r.wasHost = (host = r.user)
    /\ r.pc \in {"leaveListed", "leaveMissed"} =>
        /\ r.pc = "leaveListed" <=> r.user \in Participants
        /\ r.heir \in (Participants \ {r.user}) \cup {NoUser}
        /\ r.heir = NoUser <=> Participants \ {r.user} = {}
        /\ r.allReady = Unanimous(Participants \ {r.user}, ready)
    /\ r.pc = "ban" => r.user \notin Participants
Flagged(r) == IF r.isReady THEN ready \cup {r.user} ELSE ready \ {r.user}
ReadyKnown(r) ==
    /\ r.pc \in {"readyListed", "readyChecked"} =>
        r.user \in Participants /\ r.allReady = Unanimous(Participants, Flagged(r))
    /\ r.pc = "readyChecked" => r.status = status
StartKnown(r) == r.pc = "start" => Cardinality(Participants) >= 2
Current(r) == JoinKnown(r) /\ LeaveKnown(r) /\ ReadyKnown(r) /\ StartKnown(r)

\* Only who is about to be pardoned is both banned and seated.
BansHold ==
    \A u \in kicked \cap Participants : \E s \in Sessions : At(s, "pardon") /\ req[s].user = u

SerialInv ==
    /\ Typed
    /\ ready \subseteq Participants
    /\ BansHold
    /\ \A s \in Sessions : Current(req[s])

\* Lobby counts with a FiniteSets of its own.
LEMMA SameCount == \A S : L!Cardinality(S) = Cardinality(S)
  BY DEF L!Cardinality, Cardinality

LEMMA SameUnanimous == \A S, T : L!Unanimous(S, T) = Unanimous(S, T)
  BY SameCount DEF L!Unanimous, Unanimous

(* Whoever moves is alone, before the step or after it.                    *)
LEMMA OthersIdle ==
    ASSUME Typed, Serial, Serial', NEW s \in Sessions, NEW r,
           req' = [req EXCEPT ![s] = r], ~At(s, "idle") \/ r.pc # "idle"
    PROVE  \A t \in Sessions \ {s} : At(t, "idle") /\ req'[t] = req[t]
  BY DEF Typed, TypeOK, Serial

(* So only what the moving request knows, and the bans, are to be shown.   *)
LEMMA AloneKnows ==
    ASSUME Typed, Typed', Serial, Serial', NEW s \in Sessions, NEW r,
           req' = [req EXCEPT ![s] = r], ~At(s, "idle") \/ r.pc # "idle",
           r.pc # "idle" => Current(r)',
           ready' \subseteq Participants',
           \A u \in kicked' \cap Participants' : r.pc = "pardon" /\ r.user = u
    PROVE  SerialInv'
  <1>1. \A t \in Sessions \ {s} : At(t, "idle") /\ req'[t] = req[t]
    BY OthersIdle
  <1>2. req'[s] = r
    BY DEF Typed, TypeOK
  <1>3. BansHold'
    BY <1>2 DEF BansHold
  <1>4. \A q : q.pc = "idle" => Current(q)'
    BY DEF Current, JoinKnown, LeaveKnown, ReadyKnown, StartKnown, Joining, Leaving
  <1>5. \A t \in Sessions : Current(req[t])'
    BY <1>1, <1>2, <1>4
  <1> QED
    BY <1>3, <1>5 DEF SerialInv

(* A step that writes neither the room nor its rows nor the bans.          *)
LEMMA QuietKnows ==
    ASSUME SerialInv, Typed', Serial, Serial', NEW s \in Sessions, NEW r,
           UNCHANGED <<room, rows, kicked>>, ~At(s, "pardon"),
           req' = [req EXCEPT ![s] = r], ~At(s, "idle") \/ r.pc # "idle",
           r.pc # "idle" => Current(r)
    PROVE  SerialInv' /\ UNCHANGED L!vars
  <1>1. Participants' = Participants
    BY DEF Participants
  <1>2. kicked \cap Participants = {}
    BY OthersIdle DEF SerialInv, BansHold
  <1>3. r.pc # "idle" => Current(r)'
    BY <1>1 DEF Current, JoinKnown, LeaveKnown, ReadyKnown, StartKnown, HasSeat, Flagged
  <1>4. ready' \subseteq Participants'
    BY <1>1 DEF SerialInv
  <1>5. SerialInv'
    BY <1>1, <1>2, <1>3, <1>4, AloneKnows DEF SerialInv
  <1> QED
    BY <1>1, <1>5 DEF L!vars

(* What an arriving request is told, or has read with its first statement. *)
LEMMA ArriveKnows ==
    ASSUME SerialInv, Typed', Serial, Serial', NEW s \in Sessions,
           Arrive(s) \/ StartRequest(s) \/ FinishRequest(s)
    PROVE  SerialInv' /\ UNCHANGED L!vars
  <1>1. PICK r :
            /\ req' = [req EXCEPT ![s] = r] /\ r.pc # "idle" /\ Current(r)
            /\ At(s, "idle") /\ UNCHANGED <<room, rows, kicked>>
    <2>1. CASE \E u \in Users : JoinRequest(s, u)
      <3>1. PICK u \in Users : JoinRequest(s, u)
        BY <2>1
      <3> DEFINE r == [Idle EXCEPT !.pc = "join", !.user = u]
      <3>2. r.pc = "join" /\ r.user = u
        BY DEF Idle
      <3>3. Current(r)
        BY <3>1, <3>2
          DEF JoinRequest, Current, JoinKnown, LeaveKnown, ReadyKnown, StartKnown, Flagged,
              Idle, Joining, Leaving
      <3> QED
        BY <3>1, <3>2, <3>3 DEF JoinRequest
    <2>2. CASE \E u \in Users : ApproveRequest(s, u)
      <3>1. PICK u \in Users : ApproveRequest(s, u)
        BY <2>2
      <3> DEFINE r == [Idle EXCEPT !.pc = "join", !.user = u, !.via = "host"]
      <3>2. r.pc = "join" /\ r.via = "host"
        BY DEF Idle
      <3>3. Current(r)
        BY <3>2
          DEF Current, JoinKnown, LeaveKnown, ReadyKnown, StartKnown, Flagged, Idle, Joining,
              Leaving
      <3> QED
        BY <3>1, <3>2, <3>3 DEF ApproveRequest
    <2>3. CASE \E u \in Users : LeaveRequest(s, u) \/ KickRequest(s, u)
      <3>1. PICK u \in Users : LeaveRequest(s, u) \/ KickRequest(s, u)
        BY <2>3
      <3>2. PICK r : /\ req' = [req EXCEPT ![s] = r] /\ r.pc = "leave" /\ At(s, "idle")
                     /\ UNCHANGED <<room, rows, kicked>>
        BY <3>1 DEF LeaveRequest, KickRequest, Idle
      <3>3. Current(r)
        BY <3>2
          DEF Current, JoinKnown, LeaveKnown, ReadyKnown, StartKnown, Flagged, Idle, Joining,
              Leaving
      <3> QED
        BY <3>2, <3>3
    <2>4. CASE \E u \in Users, isReady \in BOOLEAN : ReadyRequest(s, u, isReady)
      <3>1. PICK u \in Users, isReady \in BOOLEAN : ReadyRequest(s, u, isReady)
        BY <2>4
      <3> DEFINE agreed == IF isReady THEN ready \cup {u} ELSE ready \ {u}
                 all == Unanimous(Participants, agreed)
                 r == [Idle EXCEPT !.pc = "readyListed", !.user = u, !.isReady = isReady,
                                   !.allReady = all]
      <3> HIDE DEF all
      <3>2. /\ req' = [req EXCEPT ![s] = r] /\ At(s, "idle") /\ u \in Participants
            /\ UNCHANGED <<room, rows, kicked>>
        BY <3>1 DEF ReadyRequest, all
      <3>3. r.pc = "readyListed" /\ r.user = u /\ r.isReady = isReady /\ r.allReady = all
        BY DEF Idle
      <3>4. all = Unanimous(Participants, Flagged(r))
        BY <3>3 DEF all, Flagged
      <3> HIDE DEF r
      <3>5. Current(r)
        BY <3>2, <3>3, <3>4 DEF Current, JoinKnown, LeaveKnown, ReadyKnown, StartKnown,
                                Joining, Leaving
      <3> QED
        BY <3>2, <3>3, <3>5
    <2>5. CASE StartRequest(s)
      <3> DEFINE r == [Idle EXCEPT !.pc = "start"]
      <3>1. r.pc = "start" /\ Current(r)
        BY <2>5
          DEF StartRequest, Current, JoinKnown, LeaveKnown, ReadyKnown, StartKnown, Flagged,
              Idle, Joining, Leaving
      <3> QED
        BY <2>5, <3>1 DEF StartRequest
    <2>6. CASE FinishRequest(s)
      <3> DEFINE r == [Idle EXCEPT !.pc = "finish", !.seats = Participants]
      <3>1. r.pc = "finish" /\ Current(r)
        BY DEF Current, JoinKnown, LeaveKnown, ReadyKnown, StartKnown, Flagged, Idle, Joining,
               Leaving
      <3> QED
        BY <2>6, <3>1 DEF FinishRequest
    <2> QED
      BY <2>1, <2>2, <2>3, <2>4, <2>5, <2>6 DEF Arrive
  <1> QED
    BY <1>1, QuietKnows

(* A request that is over knows nothing.                                   *)
LEMMA DoneKnows ==
    ASSUME SerialInv, Typed', Serial, Serial', NEW s \in Sessions, Done(s),
           UNCHANGED <<room, rows, kicked>>, ~At(s, "idle"), ~At(s, "pardon")
    PROVE  SerialInv' /\ UNCHANGED L!vars
  <1>1. Idle.pc = "idle" /\ req' = [req EXCEPT ![s] = Idle]
    BY DEF Idle
  <1>2. PICK r : r.pc = "idle" /\ req' = [req EXCEPT ![s] = r]
    BY <1>1
  <1> QED
    BY <1>2, QuietKnows

(* What a request has read before its transaction writes anything.         *)
LEMMA ReadingKnows ==
    ASSUME SerialInv, Typed', Serial, Serial', NEW s \in Sessions,
           \/ JoinCheck(s) \/ JoinRefused(s) \/ JoinRead(s) \/ JoinRejected(s)
           \/ AlreadyJoined(s) \/ JoinConflict(s)
           \/ LeaveRead(s) \/ LeaveList(s) \/ ReadyRead(s) \/ FinishRank(s)
    PROVE  SerialInv' /\ UNCHANGED L!vars
  <1>0. req \in [Sessions -> Request] /\ Current(req[s])
    BY DEF SerialInv, Typed, TypeOK
  <1>1. CASE JoinRefused(s) \/ JoinRejected(s) \/ JoinConflict(s)
    BY <1>1, DoneKnows DEF JoinRefused, JoinRejected, JoinConflict
  <1>2. CASE JoinCheck(s)
    <2>1. PICK r : r = [req[s] EXCEPT !.pc = "joinChecked"]
      OBVIOUS
    <2>2. r.pc = "joinChecked" /\ r.user = req[s].user /\ r.via = req[s].via
      BY <1>0, <2>1 DEF Request
    <2>3. /\ req' = [req EXCEPT ![s] = r] /\ UNCHANGED <<room, rows, kicked>>
          /\ At(s, "join")
      BY <1>0, <1>2, <2>1 DEF JoinCheck
    <2>4. Current(r)
      BY <1>0, <2>2, <2>3
        DEF Current, JoinKnown, LeaveKnown, ReadyKnown, StartKnown, Joining, Leaving
    <2> QED
      BY <2>2, <2>3, <2>4, QuietKnows
  <1>3. CASE JoinRead(s)
    <2>1. PICK r : r = [req[s] EXCEPT !.pc = "joinRead", !.status = status]
      OBVIOUS
    <2>2. /\ r.pc = "joinRead" /\ r.status = status
          /\ r.user = req[s].user /\ r.via = req[s].via
      BY <1>0, <2>1 DEF Request
    <2>3. /\ req' = [req EXCEPT ![s] = r] /\ UNCHANGED <<room, rows, kicked>>
          /\ At(s, "joinChecked") /\ status \in Open /\ HasSeat /\ r.user \notin Participants
      BY <1>0, <1>3, <2>1, <2>2 DEF JoinRead
    <2>4. Current(r)
      BY <1>0, <2>2, <2>3
        DEF Current, JoinKnown, LeaveKnown, ReadyKnown, StartKnown, Joining, Leaving
    <2> QED
      BY <2>2, <2>3, <2>4, QuietKnows
  <1>4. CASE AlreadyJoined(s)
    <2>1. /\ UNCHANGED <<room, rows, kicked>> /\ JoinDone(s) /\ req[s].user \in Participants
          /\ At(s, "join") \/ At(s, "joinChecked")
      BY <1>4 DEF AlreadyJoined
    <2>2. CASE req[s].via = "host"
      <3>1. PICK r : r = [req[s] EXCEPT !.pc = "pardon"]
        OBVIOUS
      <3>2. r.pc = "pardon" /\ r.user = req[s].user
        BY <1>0, <3>1 DEF Request
      <3>3. req' = [req EXCEPT ![s] = r]
        BY <1>0, <2>1, <2>2, <3>1 DEF JoinDone
      <3>4. Current(r)
        BY <2>1, <3>2 DEF Current, JoinKnown, LeaveKnown, ReadyKnown, StartKnown, Joining, Leaving
      <3> QED
        BY <2>1, <3>2, <3>3, <3>4, QuietKnows
    <2> QED
      BY <2>1, <2>2, DoneKnows DEF JoinDone
  <1>5. CASE LeaveRead(s)
    <2>1. PICK r : r = [req[s] EXCEPT !.pc = "leaveRead", !.status = status,
                                      !.wasHost = (host = req[s].user)]
      OBVIOUS
    <2>2. /\ r.pc = "leaveRead" /\ r.status = status
          /\ r.user = req[s].user /\ r.wasHost = (host = r.user)
      BY <1>0, <2>1 DEF Request
    <2>3. /\ req' = [req EXCEPT ![s] = r] /\ UNCHANGED <<room, rows, kicked>>
          /\ At(s, "leave")
      BY <1>0, <1>5, <2>1 DEF LeaveRead
    <2>4. Current(r)
      BY <2>2 DEF Current, JoinKnown, LeaveKnown, ReadyKnown, StartKnown, Joining, Leaving
    <2> QED
      BY <2>2, <2>3, <2>4, QuietKnows
  <1>6. CASE LeaveList(s)
    <2> DEFINE u == req[s].user
               remaining == Participants \ {u}
               all == Unanimous(remaining, ready)
    <2>1. PICK heir \in remaining \cup {NoUser} :
              /\ heir = NoUser <=> remaining = {}
              /\ req' = [req EXCEPT ![s].pc = IF u \in Participants THEN "leaveListed"
                                                                  ELSE "leaveMissed",
                                    ![s].heir = heir, ![s].allReady = all]
      BY <1>6 DEF LeaveList
    <2>2. At(s, "leaveRead") /\ UNCHANGED <<room, rows, kicked>>
      BY <1>6 DEF LeaveList
    <2>3. PICK r : r = [req[s] EXCEPT !.pc = IF u \in Participants THEN "leaveListed"
                                                                 ELSE "leaveMissed",
                                      !.heir = heir, !.allReady = all]
      OBVIOUS
    <2>4. /\ r.pc = IF u \in Participants THEN "leaveListed" ELSE "leaveMissed"
          /\ r.user = u /\ r.status = req[s].status /\ r.wasHost = req[s].wasHost
          /\ r.heir = heir /\ r.allReady = all
      BY <1>0, <2>3 DEF Request
    <2>5. req' = [req EXCEPT ![s] = r]
      BY <1>0, <2>1, <2>3
    <2>6. Current(r)
      BY <1>0, <2>1, <2>2, <2>4
        DEF Current, JoinKnown, LeaveKnown, ReadyKnown, StartKnown, Joining, Leaving
    <2> QED
      BY <2>2, <2>4, <2>5, <2>6, QuietKnows
  <1>7. CASE ReadyRead(s)
    <2>1. PICK r : r = [req[s] EXCEPT !.pc = "readyChecked", !.status = status]
      OBVIOUS
    <2>2. /\ r.pc = "readyChecked" /\ r.status = status /\ r.user = req[s].user
          /\ r.isReady = req[s].isReady /\ r.allReady = req[s].allReady
      BY <1>0, <2>1 DEF Request
    <2>3. /\ req' = [req EXCEPT ![s] = r] /\ UNCHANGED <<room, rows, kicked>>
          /\ At(s, "readyListed")
      BY <1>0, <1>7, <2>1 DEF ReadyRead
    <2>4. Current(r)
      BY <1>0, <2>2, <2>3
        DEF Flagged, Current, JoinKnown, LeaveKnown, ReadyKnown, StartKnown, Joining, Leaving
    <2> QED
      BY <2>2, <2>3, <2>4, QuietKnows
  <1>8. CASE FinishRank(s)
    <2>1. /\ UNCHANGED <<room, rows, kicked>> /\ At(s, "finish")
          /\ Goto(s, "ranked") \/ Done(s)
      BY <1>8 DEF FinishRank
    <2>2. CASE Goto(s, "ranked")
      <3>1. PICK r : r = [req[s] EXCEPT !.pc = "ranked"]
        OBVIOUS
      <3>2. r.pc = "ranked"
        BY <1>0, <3>1 DEF Request
      <3>3. req' = [req EXCEPT ![s] = r]
        BY <1>0, <2>2, <3>1
      <3>4. Current(r)
        BY <3>2 DEF Current, JoinKnown, LeaveKnown, ReadyKnown, StartKnown, Joining, Leaving
      <3> QED
        BY <2>1, <3>2, <3>3, <3>4, QuietKnows
    <2> QED
      BY <2>1, <2>2, DoneKnows
  <1> QED
    BY <1>1, <1>2, <1>3, <1>4, <1>5, <1>6, <1>7, <1>8

(* The commit of a join is Lobby's Join.                                   *)
LEMMA JoinIsAtomic ==
    ASSUME RoomAssumption, SerialInv, Typed', Serial, Serial', NEW s \in Sessions, JoinCommit(s)
    PROVE  SerialInv' /\ L!Next
  <1> DEFINE u == req[s].user
  <1>0. req \in [Sessions -> Request] /\ Current(req[s]) /\ u \in Users
    BY DEF SerialInv, Typed, TypeOK, JoinCommit, UserKnown, OnBehalf, Joining
  <1>1. /\ status \in Open /\ req[s].status = status /\ HasSeat /\ u \notin Participants
        /\ req[s].via = "host" \/ u \notin kicked
    BY <1>0 DEF Current, JoinKnown, JoinCommit, Joining
  <1>2. /\ joinedAt' = [joinedAt EXCEPT ![u] = clock + 1] /\ JoinDone(s)
        /\ status' = "WAITING" /\ UNCHANGED <<host, ready, kicked>> /\ At(s, "joinRead")
    BY <1>1 DEF JoinCommit, Open
  <1>3. Participants' = Participants \cup {u}
    BY <1>0, <1>2 DEF Participants, SerialInv, Typed, TypeOK
  <1>4. L!Join(u)
    BY <1>1, <1>2, <1>3, SameCount DEF L!Join, Open, HasSeat
  <1>5. kicked \cap Participants = {}
    BY <1>2 DEF SerialInv, BansHold, Serial
  <1>6. CASE req[s].via = "host"
    <2>1. PICK r : r = [req[s] EXCEPT !.pc = "pardon"]
      OBVIOUS
    <2>2. r.pc = "pardon" /\ r.user = u
      BY <1>0, <2>1 DEF Request
    <2>3. req' = [req EXCEPT ![s] = r]
      BY <1>0, <1>2, <1>6, <2>1 DEF JoinDone
    <2>4. Current(r)'
      BY <1>3, <2>2 DEF Current, JoinKnown, LeaveKnown, ReadyKnown, StartKnown, Joining, Leaving
    <2>5. ready' \subseteq Participants'
      BY <1>2, <1>3 DEF SerialInv
    <2>6. SerialInv'
      BY <1>2, <1>3, <1>5, <2>2, <2>3, <2>4, <2>5, AloneKnows DEF SerialInv
    <2> QED
      BY <1>0, <1>4, <2>6 DEF L!Next
  <1>7. CASE req[s].via # "host"
    <2>1. Idle.pc = "idle" /\ req' = [req EXCEPT ![s] = Idle]
      BY <1>2, <1>7 DEF Idle, JoinDone
    <2>2. PICK r : r.pc = "idle" /\ req' = [req EXCEPT ![s] = r]
      BY <2>1
    <2>3. ready' \subseteq Participants' /\ kicked' \cap Participants' = {}
      BY <1>1, <1>2, <1>3, <1>5, <1>7 DEF SerialInv
    <2>4. SerialInv'
      BY <1>2, <2>2, <2>3, AloneKnows DEF SerialInv
    <2> QED
      BY <1>0, <1>4, <2>4 DEF L!Next
  <1> QED
    BY <1>6, <1>7

(* The commit of a leave is Lobby's Leave, whoever asked for it.           *)
LEMMA LeaveIsAtomic ==
    ASSUME RoomAssumption, SerialInv, Typed', Serial, Serial', NEW s \in Sessions, LeaveCommit(s)
    PROVE  SerialInv' /\ L!Next
  <1> DEFINE u == req[s].user
             gone == IF At(s, "leaveListed") THEN {u} ELSE {}
             remaining == Participants \ {u}
  <1>0. /\ req \in [Sessions -> Request] /\ Current(req[s]) /\ u \in Users
        /\ At(s, "leaveListed") \/ At(s, "leaveMissed")
    BY DEF SerialInv, Typed, TypeOK, LeaveCommit, UserKnown, OnBehalf, Leaving
  <1>1. /\ req[s].status = status /\ req[s].wasHost = (host = u)
        /\ At(s, "leaveListed") <=> u \in Participants
        /\ req[s].heir \in remaining \cup {NoUser}
        /\ req[s].heir = NoUser <=> remaining = {}
        /\ req[s].allReady = Unanimous(remaining, ready)
    BY <1>0 DEF Current, LeaveKnown, Leaving
  <1>2. /\ LeaveUpdate(req[s])
        /\ joinedAt' = [v \in Users |-> IF v \in gone THEN 0 ELSE joinedAt[v]]
        /\ ready' = ready \ gone
        /\ IF req[s].via = "host" THEN Goto(s, "ban") ELSE Done(s)
        /\ UNCHANGED kicked
    BY DEF LeaveCommit
  <1>3. Participants' = remaining /\ ready' = ready \ {u} /\ ready' \subseteq remaining
    <2>1. Participants' = Participants \ gone
      BY <1>2 DEF Participants
    <2>2. ready \subseteq Participants
      BY DEF SerialInv
    <2> QED
      BY <1>1, <1>2, <2>1, <2>2
  <1>4. L!LeaveLast(u) \/ L!LeaveHost(u) \/ L!LeaveGuest(u)
    <2>1. CASE remaining = {}
      BY <1>1, <1>2, <2>1 DEF LeaveUpdate, L!LeaveLast
    <2>2. CASE remaining # {} /\ host = u
      BY <1>1, <1>2, <2>2, SameUnanimous DEF LeaveUpdate, L!LeaveHost
    <2>3. CASE remaining # {} /\ host # u
      BY <1>1, <1>2, <2>3, SameUnanimous DEF LeaveUpdate, L!LeaveGuest
    <2> QED
      BY <2>1, <2>2, <2>3
  <1>5. L!Next
    BY <1>0, <1>3, <1>4 DEF L!Next, L!Leave
  <1>6. kicked' \cap Participants' = {}
    BY <1>0, <1>2, <1>3 DEF SerialInv, BansHold, Serial
  <1>7. CASE req[s].via = "host"
    <2>1. PICK r : r = [req[s] EXCEPT !.pc = "ban"]
      OBVIOUS
    <2>2. r.pc = "ban" /\ r.user = u
      BY <1>0, <2>1 DEF Request
    <2>3. req' = [req EXCEPT ![s] = r]
      BY <1>0, <1>2, <1>7, <2>1
    <2>4. Current(r)'
      BY <1>3, <2>2 DEF Current, JoinKnown, LeaveKnown, ReadyKnown, StartKnown, Joining, Leaving
    <2>5. SerialInv'
      BY <1>0, <1>3, <1>6, <2>3, <2>4, AloneKnows DEF SerialInv
    <2> QED
      BY <1>5, <2>5
  <1>8. CASE req[s].via # "host"
    <2>1. Idle.pc = "idle" /\ req' = [req EXCEPT ![s] = Idle]
      BY <1>2, <1>8 DEF Idle
    <2>2. PICK r : r.pc = "idle" /\ req' = [req EXCEPT ![s] = r]
      BY <2>1
    <2>3. SerialInv'
      BY <1>0, <1>3, <1>6, <2>2, AloneKnows DEF SerialInv
    <2> QED
      BY <1>5, <2>3
  <1> QED
    BY <1>7, <1>8

(* The commit of a flag is Lobby's SetReady.                               *)
LEMMA ReadyIsAtomic ==
    ASSUME RoomAssumption, SerialInv, Typed', Serial, Serial', NEW s \in Sessions, ReadyCommit(s)
    PROVE  SerialInv' /\ L!Next
  <1> DEFINE u == req[s].user
             flag == req[s].isReady
  <1>0. /\ req \in [Sessions -> Request] /\ Current(req[s]) /\ At(s, "readyChecked")
        /\ u \in Users
    BY DEF SerialInv, Typed, TypeOK, ReadyCommit, UserKnown, OnBehalf
  <1>1. /\ u \in Participants /\ req[s].status = status
        /\ req[s].allReady = Unanimous(Participants, Flagged(req[s]))
    BY <1>0 DEF Current, ReadyKnown
  <1>2. /\ ready' = IF flag THEN ready \cup {u} ELSE ready \ {u}
        /\ status' = CASE status = "WAITING" /\ req[s].allReady -> "READY"
                       [] status = "READY" /\ ~req[s].allReady -> "WAITING"
                       [] OTHER -> status
        /\ Done(s) /\ UNCHANGED <<host, joinedAt, clock, kicked>>
    BY <1>1 DEF ReadyCommit, ReadyUpdate
  <1>3. Participants' = Participants
    BY <1>2 DEF Participants
  <1>4. req[s].allReady = L!Unanimous(Participants, ready')
    BY <1>1, <1>2, SameUnanimous DEF Flagged
  <1>5. flag \in BOOLEAN
    BY <1>0 DEF Request
  <1>6. L!SetReady(u, flag)
    BY <1>1, <1>2, <1>3, <1>4 DEF L!SetReady
  <1>7. L!Next
    BY <1>0, <1>5, <1>6 DEF L!Next
  <1>8. Idle.pc = "idle" /\ req' = [req EXCEPT ![s] = Idle]
    BY <1>2 DEF Idle
  <1>9. PICK r : r.pc = "idle" /\ req' = [req EXCEPT ![s] = r]
    BY <1>8
  <1>10. ready' \subseteq Participants' /\ kicked' \cap Participants' = {}
    BY <1>0, <1>1, <1>2, <1>3 DEF SerialInv, BansHold, Serial
  <1>11. SerialInv'
    BY <1>0, <1>9, <1>10, AloneKnows DEF SerialInv
  <1> QED
    BY <1>7, <1>11

(* Starting and finishing are single statements on the room.               *)
LEMMA LifecycleIsAtomic ==
    ASSUME RoomAssumption, SerialInv, Typed', Serial, Serial', NEW s \in Sessions,
           StartCommit(s) \/ FinishCommit(s)
    PROVE  SerialInv' /\ L!Next
  <1>0. /\ UNCHANGED <<host, rows, kicked>> /\ Done(s)
        /\ At(s, "start") \/ At(s, "ranked")
    BY DEF StartCommit, FinishCommit
  <1>1. Participants' = Participants
    BY <1>0 DEF Participants
  <1>2. ASSUME StartCommit(s) PROVE L!Next
    <2>1. Cardinality(Participants) >= 2
      BY <1>2 DEF SerialInv, Current, StartKnown, StartCommit
    <2> QED
      BY <1>0, <1>1, <1>2, <2>1, SameCount DEF StartCommit, L!Next, L!Start
  <1>3. ASSUME FinishCommit(s) PROVE L!Next
    BY <1>0, <1>1, <1>3 DEF FinishCommit, L!Next, L!Finish
  <1>4. Idle.pc = "idle" /\ req' = [req EXCEPT ![s] = Idle]
    BY <1>0 DEF Idle
  <1>5. PICK r : r.pc = "idle" /\ req' = [req EXCEPT ![s] = r]
    BY <1>4
  <1>6. ready' \subseteq Participants' /\ kicked' \cap Participants' = {}
    BY <1>0, <1>1 DEF SerialInv, BansHold, Serial
  <1>7. SerialInv'
    BY <1>0, <1>5, <1>6, AloneKnows DEF SerialInv
  <1> QED
    BY <1>2, <1>3, <1>7

(* Bans are no concern of Lobby.                                           *)
LEMMA BansAreSilent ==
    ASSUME RoomAssumption, SerialInv, Typed', Serial, Serial', NEW s \in Sessions,
           Pardon(s) \/ Ban(s)
    PROVE  SerialInv' /\ UNCHANGED L!vars
  <1>0. /\ req \in [Sessions -> Request] /\ Current(req[s]) /\ UNCHANGED <<room, rows>>
        /\ Done(s)
        /\ At(s, "pardon") \/ At(s, "ban")
    BY DEF SerialInv, Typed, TypeOK, Pardon, Ban
  <1>1. Participants' = Participants
    BY <1>0 DEF Participants
  <1>2. kicked' \cap Participants = {}
    <2>1. CASE Pardon(s)
      <3>1. kicked \cap Participants \subseteq {req[s].user}
        BY <2>1 DEF SerialInv, BansHold, Serial, Pardon
      <3> QED
        BY <2>1, <3>1 DEF Pardon
    <2>2. CASE Ban(s)
      <3>1. kicked \cap Participants = {} /\ req[s].user \notin Participants
        BY <1>0, <2>2 DEF SerialInv, BansHold, Serial, Ban, Current, LeaveKnown
      <3> QED
        BY <2>2, <3>1 DEF Ban
    <2> QED
      BY <2>1, <2>2
  <1>3. Idle.pc = "idle" /\ req' = [req EXCEPT ![s] = Idle]
    BY <1>0 DEF Idle
  <1>4. PICK r : r.pc = "idle" /\ req' = [req EXCEPT ![s] = r]
    BY <1>3
  <1>5. SerialInv'
    BY <1>0, <1>1, <1>2, <1>4, AloneKnows DEF SerialInv
  <1> QED
    BY <1>0, <1>1, <1>5 DEF L!vars

LEMMA ExpiryIsSilent ==
    ASSUME SerialInv, Typed', BanExpires
    PROVE  SerialInv' /\ UNCHANGED L!vars
  <1>1. Participants' = Participants /\ kicked' = {} /\ UNCHANGED <<room, rows, req>>
    BY DEF BanExpires, Participants
  <1>2. \A s \in Sessions : Current(req[s])'
    BY <1>1 DEF SerialInv, Current, JoinKnown, LeaveKnown, ReadyKnown, StartKnown, HasSeat,
                Flagged
  <1> QED
    BY <1>1, <1>2 DEF SerialInv, BansHold, L!vars

(* Every step is a step of Lobby or leaves the lobby as it is.             *)
LEMMA StepIsAtomic ==
    ASSUME RoomAssumption, SerialInv, Serial, Serial', [Next]_vars
    PROVE  SerialInv' /\ [L!Next]_(L!vars)
  <1>0. Typed'
    BY StepTyped DEF SerialInv
  <1>1. ASSUME NEW s \in Sessions, Arrive(s) \/ StartRequest(s) \/ FinishRequest(s)
        PROVE  SerialInv' /\ UNCHANGED L!vars
    BY <1>0, <1>1, ArriveKnows
  <1>2. ASSUME NEW s \in Sessions, Continue(s)
        PROVE  SerialInv' /\ (L!Next \/ UNCHANGED L!vars)
    BY <1>0, <1>2, ReadingKnows, JoinIsAtomic, LeaveIsAtomic, ReadyIsAtomic,
       LifecycleIsAtomic, BansAreSilent DEF Continue
  <1>3. CASE BanExpires
    BY <1>0, <1>3, ExpiryIsSilent
  <1>4. CASE UNCHANGED vars
    <2>1. Participants' = Participants
      BY <1>4 DEF vars, Participants
    <2>2. \A s \in Sessions : Current(req[s])'
      BY <1>4, <2>1 DEF vars, SerialInv, Current, JoinKnown, LeaveKnown, ReadyKnown,
                        StartKnown, HasSeat, Flagged
    <2> QED
      BY <1>0, <1>4, <2>1, <2>2 DEF vars, SerialInv, BansHold, L!vars
  <1> QED
    BY <1>1, <1>2, <1>3, <1>4 DEF Next

LEMMA InitIsAtomic ==
    ASSUME RoomAssumption, Init
    PROVE  SerialInv /\ L!Init
  <1>1. Participants = {host} /\ kicked = {} /\ ready = {host}
    BY DEF Init, Participants
  <1>2. \A s \in Sessions : Current(req[s])
    BY DEF Init, Idle, Current, JoinKnown, LeaveKnown, ReadyKnown, StartKnown, Joining, Leaving
  <1> QED
    BY <1>1, <1>2, InitTyped DEF SerialInv, BansHold, Init, L!Init

\* Lobby's theorem, of the room.
Atomic == INSTANCE Lobby_proofs WITH players <- Participants

LEMMA AtomicUnanimous == \A S, T : L!Unanimous(S, T) = Atomic!Unanimous(S, T)
  BY DEF L!Unanimous, Atomic!Unanimous, L!Cardinality, Atomic!Cardinality

LEMMA AtomicSteps == (L!Init => Atomic!Init) /\ ([L!Next]_(L!vars) => [Atomic!Next]_(Atomic!vars))
  <1>1. L!Init => Atomic!Init
    BY DEF L!Init, Atomic!Init
  <1>2. \A u \in Users : L!Join(u) => Atomic!Join(u)
    BY DEF L!Join, Atomic!Join, L!Cardinality, Atomic!Cardinality
  <1>3. \A u \in Users : L!Leave(u) => Atomic!Leave(u)
    BY AtomicUnanimous DEF L!Leave, Atomic!Leave, L!LeaveLast, Atomic!LeaveLast, L!LeaveHost,
       Atomic!LeaveHost, L!LeaveGuest, Atomic!LeaveGuest
  <1>4. \A u \in Users, isReady \in BOOLEAN : L!SetReady(u, isReady) => Atomic!SetReady(u, isReady)
    BY AtomicUnanimous DEF L!SetReady, Atomic!SetReady
  <1>5. (L!Start => Atomic!Start) /\ (L!Finish => Atomic!Finish)
    BY DEF L!Start, Atomic!Start, L!Finish, Atomic!Finish, L!Cardinality, Atomic!Cardinality
  <1>6. L!Next => Atomic!Next
    BY <1>2, <1>3, <1>4, <1>5 DEF L!Next, Atomic!Next
  <1> QED
    BY <1>1, <1>6 DEF L!vars, Atomic!vars

(* As long as requests do not overlap, however many sessions there are to  *)
(* serve them, the statements of each add up to the atomic operation that  *)
(* Lobby promises or to nothing.                                           *)
THEOREM RoomImplementsLobby == Spec /\ []Serial => ImplementsLobby
  <1>1. Init => SerialInv /\ L!Init
    BY InitIsAtomic, RoomAssumption
  <1>2. SerialInv /\ Serial /\ Serial' /\ [Next]_vars => SerialInv' /\ [L!Next]_(L!vars)
    BY StepIsAtomic, RoomAssumption
  <1> QED
    BY <1>1, <1>2, PTL DEF Spec, ImplementsLobby, L!Spec

(* ... so the room keeps the lobby invariant, within a request too.        *)
THEOREM RoomLobbyKept == Spec /\ []Serial => []LobbyKept
  <1>1. Atomic!LobbyAssumption
    BY RoomAssumption DEF Atomic!LobbyAssumption, RoomAssumption, Atomic!IsFiniteSet, IsFiniteSet
  <1>2. Atomic!Spec => []Atomic!LobbyInv
    BY <1>1, Atomic!LobbyIsSafe
  <1>3. L!Spec => Atomic!Spec
    BY AtomicSteps, PTL DEF L!Spec, Atomic!Spec
  <1>4. Atomic!LobbyInv => LobbyKept
    BY AtomicUnanimous DEF LobbyKept, L!LobbyInv, Atomic!LobbyInv, L!ReadyIsUnanimous,
       Atomic!ReadyIsUnanimous, L!HostIsSeated, Atomic!HostIsSeated, L!EmptyIsClosed,
       Atomic!EmptyIsClosed, L!WithinCapacity, Atomic!WithinCapacity, L!Cardinality,
       Atomic!Cardinality
  <1> QED
    BY <1>2, <1>3, <1>4, RoomImplementsLobby, PTL DEF ImplementsLobby

(* ... and between two requests nobody who is banned holds a seat.         *)
THEOREM RoomBannedStayOut == Spec /\ []Serial => []BannedStayOut
  <1>1. Init => SerialInv
    BY InitIsAtomic, RoomAssumption
  <1>2. SerialInv /\ Serial /\ Serial' /\ [Next]_vars => SerialInv'
    BY StepIsAtomic, RoomAssumption
  <1>3. SerialInv => BannedStayOut
    BY DEF SerialInv, BansHold, BannedStayOut
  <1> QED
    BY <1>1, <1>2, <1>3, PTL DEF Spec

(* A single session serves its requests one at a time: the run's instance. *)
LEMMA OneSessionIsSerial == (\A s, t \in Sessions : s = t) => []Serial
  <1> SUFFICES ASSUME \A s, t \in Sessions : s = t PROVE []Serial
    OBVIOUS
  <1>1. Serial
    BY DEF Serial
  <1> QED
    BY <1>1, PTL
=============================================================================
