--------------------------- MODULE Services_proofs ---------------------------
(* Proofs about the services side by side: each of them moves as its own    *)
(* module says, so that what is proved of it holds of the composition.  And *)
(* about Presence: whoever closed the battle page is watched.               *)
EXTENDS MCServices, Squad_proofs, Submission_proofs, Rewards_proofs

-----------------------------------------------------------------------------
(* Connections                                                             *)

USE DEF sessions, leaving, forfeits, IsOpen, Forgets

LEMMA ConnectionInitTyped == ConnectionInit => ConnectionTypeOK
  BY DEF ConnectionInit, ConnectionTypeOK, Keys

LEMMA ConnectionStepTyped ==
    ASSUME ConnectionTypeOK, [ConnectionNext]_connectionVars
    PROVE  ConnectionTypeOK'
  <1> USE DEF ConnectionTypeOK
  <1>1. ASSUME NEW s \in Sockets, Open(s) \/ Auth(s) \/ Authenticated(s) \/ Close(s)
        PROVE  ConnectionTypeOK'
    BY <1>1 DEF Open, Auth, Authenticated, Close
  <1>2. ASSUME NEW s \in Sockets, NEW key \in Keys, JoinRoomChannel(s, key)
        PROVE  ConnectionTypeOK'
    BY <1>2 DEF JoinRoomChannel
  <1>3. ASSUME NEW s \in Sockets, NEW key \in Keys, LeaveBattle(s, key)
        PROVE  ConnectionTypeOK'
    BY <1>3 DEF LeaveBattle
  <1>4. ASSUME NEW s \in Sockets,
               \/ DisconnectByCode(s) \/ DisconnectInBattle(s) \/ DisconnectElsewhere(s)
        PROVE  ConnectionTypeOK'
    BY <1>4 DEF DisconnectByCode, DisconnectInBattle, DisconnectElsewhere, Watch, WatchLobby, Keys
  <1>5. ASSUME NEW s \in Sockets, ForfeitTimeout(s) \/ Forfeit(s) \/ WatchFails(s)
        PROVE  ConnectionTypeOK'
    BY <1>5 DEF ForfeitTimeout, Forfeit, WatchFails
  <1>6. ASSUME NEW key \in Keys, LobbyTimeout(key)
        PROVE  ConnectionTypeOK'
    BY <1>6 DEF LobbyTimeout
  <1>7. CASE RoomStarts \/ BattleStarts \/ DispatchMatch \/ Readmit \/ BattleEnds
    BY <1>7 DEF RoomStarts, BattleStarts, DispatchMatch, Readmit, BattleEnds
  <1>8. CASE UNCHANGED connectionVars
    BY <1>8 DEF connectionVars
  <1> QED
    BY <1>1, <1>2, <1>3, <1>4, <1>5, <1>6, <1>7, <1>8 DEF ConnectionNext

(* What makes a player absent, or unwatched, makes them watched, present   *)
(* or excused.                                                             *)
LEMMA WatchStep ==
    ASSUME ConnectionTypeOK, AbsentIsWatched, [ConnectionNext]_connectionVars
    PROVE  AbsentIsWatched'
  <1> USE DEF AbsentIsWatched
  <1>1. ASSUME NEW s \in Sockets, Open(s) \/ Auth(s)
        PROVE  AbsentIsWatched'
    BY <1>1 DEF Open, Auth
  (* The last session by id is gone only where the player is excused.      *)
  <1>2. ASSUME NEW s \in Sockets, Authenticated(s) \/ \E key \in Keys : LeaveBattle(s, key)
        PROVE  AbsentIsWatched'
    <2>1. byId' = byId \ {s} /\ excused' = (excused \/ byId = {s}) /\ came' = came
          /\ UNCHANGED <<leavingById, timers, expiring>>
      BY <1>2 DEF Authenticated, LeaveBattle
    <2>2. byId' = {} /\ ~excused' => byId = {} /\ ~excused
      BY <2>1
    <2>3. battle' = "RUNNING" /\ standing' = "in" => battle = "RUNNING" /\ standing = "in"
      BY <1>2 DEF Authenticated, LeaveBattle, HasDocument
    <2> QED
      BY <2>1, <2>2, <2>3
  <1>3. ASSUME NEW s \in Sockets, NEW key \in Keys, JoinRoomChannel(s, key)
        PROVE  AbsentIsWatched'
    <2>1. key = "id" \/ key = "code"
      BY DEF Keys
    <2>2. CASE key = "id"
      BY <1>3, <2>2 DEF JoinRoomChannel
    <2>3. CASE key = "code"
      <3>1. byId' = byId \ {s} /\ excused' = (excused \/ byId \subseteq {s})
        BY <1>3, <2>3 DEF JoinRoomChannel
      <3>2. byId' = {} => excused'
        BY <3>1
      <3> QED
        BY <3>2
    <2> QED
      BY <2>1, <2>2, <2>3
  <1>4. ASSUME NEW s \in Sockets, Close(s)
        PROVE  AbsentIsWatched'
    <2>1. CASE s \in byId
      BY <1>4, <2>1 DEF Close
    <2>2. CASE s \notin byId
      BY <1>4, <2>2 DEF Close
    <2> QED
      BY <2>1, <2>2
  <1>5. ASSUME NEW s \in Sockets,
               DisconnectByCode(s) \/ DisconnectInBattle(s) \/ DisconnectElsewhere(s)
        PROVE  AbsentIsWatched'
    BY <1>5 DEF DisconnectByCode, DisconnectInBattle, DisconnectElsewhere, Watch
  <1>6. ASSUME NEW s \in Sockets, ForfeitTimeout(s) \/ Forfeit(s) \/ WatchFails(s)
        PROVE  AbsentIsWatched'
    BY <1>6 DEF ForfeitTimeout, Forfeit, WatchFails
  <1>7. ASSUME NEW key \in Keys, LobbyTimeout(key)
        PROVE  AbsentIsWatched'
    BY <1>7 DEF LobbyTimeout
  <1>8. CASE RoomStarts \/ BattleStarts \/ DispatchMatch \/ Readmit \/ BattleEnds
    BY <1>8 DEF RoomStarts, BattleStarts, DispatchMatch, Readmit, BattleEnds
  <1>9. CASE UNCHANGED connectionVars
    BY <1>9 DEF connectionVars
  <1> QED
    BY <1>1, <1>2, <1>3, <1>4, <1>5, <1>6, <1>7, <1>8, <1>9 DEF ConnectionNext

\* Every variable of the connections keeps its type.
THEOREM ConnectionTypes == ConnectionSpec => []ConnectionTypeOK
  BY ConnectionInitTyped, ConnectionStepTyped, PTL DEF ConnectionSpec

\* A player whose sockets on the battle page have closed while it runs is on the way to
\* forfeit, however many sockets they open and close, unless the watch was called off or the
\* last session by the room's id ended in another way (handleDisconnect, join_room_channel).
THEOREM ConnectionAbsentIsWatched == ConnectionSpec => []AbsentIsWatched
  <1>1. ConnectionInit => AbsentIsWatched
    BY DEF ConnectionInit, AbsentIsWatched
  <1>2. ConnectionTypeOK /\ AbsentIsWatched /\ [ConnectionNext]_connectionVars => AbsentIsWatched'
    BY WatchStep
  <1> QED
    BY <1>1, <1>2, ConnectionTypes, PTL DEF ConnectionSpec

-----------------------------------------------------------------------------
(* The composition                                                         *)

LEMMA ServicesInit ==
    ASSUME Init
    PROVE  SubmissionInit /\ PointInit /\ ScoreInit /\ ConnectionInit /\ JudgeInit
  BY DEF Init

LEMMA ServicesStep ==
    ASSUME [Next]_vars
    PROVE  /\ [SubmissionNext]_submissionVars /\ [PointNext]_pointVars
           /\ [ScoreNext]_scoreVars /\ [ConnectionNext]_connectionVars /\ [JudgeNext]_judgeVars
  BY DEF Next, vars

\* Whichever service moves, each of them behaves as its own specification says.
THEOREM ServicesCompose ==
    Spec => SubmissionSpec /\ PointSpec /\ ScoreSpec /\ ConnectionSpec /\ JudgeSpec
  <1>1. Init => SubmissionInit /\ PointInit /\ ScoreInit /\ ConnectionInit /\ JudgeInit
    BY ServicesInit
  <1>2. [Next]_vars => /\ [SubmissionNext]_submissionVars /\ [PointNext]_pointVars
                       /\ [ScoreNext]_scoreVars /\ [ConnectionNext]_connectionVars
                       /\ [JudgeNext]_judgeVars
    BY ServicesStep
  <1> QED
    BY <1>1, <1>2, PTL
    DEF Spec, SubmissionSpec, PointSpec, ScoreSpec, ConnectionSpec, JudgeSpec

\* So every service keeps its types in the composition too.
THEOREM ServicesTyped == Spec => []TypeOK
  <1>0. SubmissionAssumption /\ RewardAssumption /\ ScoreAssumption /\ JudgeAssumption
    BY ServicesAssumption
  <1>1. SubmissionSpec => []SubmissionTypeOK
    BY <1>0, SubmissionTypes
  <1>2. PointSpec => []PointTypeOK
    BY <1>0, RewardTypes
  <1>3. ScoreSpec => []ScoreTypeOK
    BY <1>0, ScoreTypes
  <1>4. JudgeSpec => []JudgeTypeOK
    BY <1>0, JudgeTypes
  <1>5. SubmissionTypeOK /\ PointTypeOK /\ ScoreTypeOK /\ ConnectionTypeOK /\ JudgeTypeOK
        => TypeOK
    BY DEF TypeOK
  <1> QED
    BY <1>1, <1>2, <1>3, <1>4, <1>5, ConnectionTypes, ServicesCompose, PTL

\* ... and what is proved of each of them holds there.
THEOREM ServicesSafe ==
    Spec => [](/\ AwardedOnce /\ EndsFinalized
               /\ WeeklyPaidOnce /\ MarkedIsPaid /\ AchievementPaidOnce
               /\ AwardsBounded /\ OverdraftBounded /\ UnlockedIsPaid
               /\ PaidIsKept
               /\ TeamCreditedOnce /\ FinishEarned /\ ClaimIsCredited
               /\ AbsentIsWatched /\ PoolIsUsed /\ VerdictIsDeterministic)
  <1>0. SubmissionAssumption /\ RewardAssumption /\ ScoreAssumption /\ JudgeAssumption
    BY ServicesAssumption
  <1>1. SubmissionSpec => []AwardedOnce /\ []EndsFinalized
    BY <1>0, SubmissionAwardedOnce, SubmissionEndsFinalized
  <1>2. PointSpec => /\ []WeeklyPaidOnce /\ []MarkedIsPaid /\ []AchievementPaidOnce
                     /\ []AwardsBounded /\ []OverdraftBounded /\ []UnlockedIsPaid
                     /\ []PaidIsKept
    BY <1>0, RewardWeeklyPaidOnce, RewardMarkedIsPaid, RewardAchievementPaidOnce,
       RewardAwardsBounded, RewardOverdraftBounded, RewardUnlockedIsPaid, RewardPaidIsKept
  <1>3. ScoreSpec => []TeamCreditedOnce /\ []FinishEarned /\ []ClaimIsCredited
    BY <1>0, ScoreTeamCreditedOnce, ScoreFinishEarned, ScoreClaimIsCredited
  <1>4. JudgeSpec => []PoolIsUsed /\ []VerdictIsDeterministic
    BY <1>0, JudgePoolIsUsed, JudgeVerdictIsDeterministic
  <1> QED
    BY <1>1, <1>2, <1>3, <1>4, ConnectionAbsentIsWatched, ServicesCompose, PTL
=============================================================================
