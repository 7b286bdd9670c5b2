--------------------------- MODULE Rewards_proofs ---------------------------
(* Proofs about Rewards: types, how often each kind of reward is paid, and *)
(* what overlapping redemptions can do to the balance and the vault.       *)
EXTENDS Rewards, FiniteSetTheorems, TLAPS

\* What a call is about depends on its step.
Subject(c) ==
    /\ pointCall[c].pc \in {"mark", "commit"} => pointCall[c].of \in Milestones
    /\ PointAt(c, "create") => pointCall[c].of \in Achievements
    /\ pointCall[c].pc \in {"look", "pay"} => pointCall[c].of \in Rewards
    /\ pointCall[c].pc \in {"sync", "deduct", "take", "record"} => pointCall[c].of \in Items

PointTyped == PointTypeOK /\ \A c \in PointCalls : Subject(c)

USE DEF PointAt, PointGoes, PointDone, Begin, ledger, document, weekly

-----------------------------------------------------------------------------
(* Types                                                                   *)

LEMMA PointIdleTyped ==
    ASSUME RewardAssumption
    PROVE  PointIdle \in PointRequest /\ PointIdle.pc = "idle"
  BY DEF PointIdle, PointRequest, PointSteps, RewardAssumption

LEMMA PointInitTyped ==
    ASSUME RewardAssumption, PointInit
    PROVE  PointTyped
  <1>1. paid \in [Rewards -> Nat] /\ pointCall \in [PointCalls -> PointRequest]
    BY PointIdleTyped DEF PointInit
  <1>2. late \in BOOLEAN /\ spoiled \in BOOLEAN
    BY Zenon DEF PointInit
  <1>3. \A c \in PointCalls : Subject(c)
    BY PointIdleTyped DEF PointInit, Subject
  <1> QED
    BY <1>1, <1>2, <1>3 DEF PointInit, PointTyped, PointTypeOK, RewardAssumption

(* The call of one session becomes another well-typed one.                 *)
LEMMA PointCallTyped ==
    ASSUME PointTyped, NEW c \in PointCalls, NEW r \in PointRequest,
           pointCall' = [pointCall EXCEPT ![c] = r],
           r.pc \in {"mark", "commit"} => r.of \in Milestones,
           r.pc = "create" => r.of \in Achievements,
           r.pc \in {"look", "pay"} => r.of \in Rewards,
           r.pc \in {"sync", "deduct", "take", "record"} => r.of \in Items
    PROVE  /\ pointCall' \in [PointCalls -> PointRequest] /\ \A x \in PointCalls : Subject(x)'
           /\ pointCall'[c] = r /\ \A x \in PointCalls \ {c} : pointCall'[x] = pointCall[x]
  <1>1. pointCall' \in [PointCalls -> PointRequest]
    BY DEF PointTyped, PointTypeOK
  <1>2. pointCall'[c] = r /\ \A x \in PointCalls \ {c} : pointCall'[x] = pointCall[x]
    BY DEF PointTyped, PointTypeOK
  <1>3. \A x \in PointCalls : Subject(x)'
    BY <1>2 DEF PointTyped, Subject
  <1> QED
    BY <1>1, <1>2, <1>3

LEMMA PointDoneTyped ==
    ASSUME RewardAssumption, PointTyped, NEW c \in PointCalls, PointDone(c)
    PROVE  /\ pointCall' \in [PointCalls -> PointRequest] /\ \A x \in PointCalls : Subject(x)'
           /\ pointCall'[c] = PointIdle /\ \A x \in PointCalls \ {c} : pointCall'[x] = pointCall[x]
  BY PointIdleTyped, PointCallTyped

LEMMA PointGotoTyped ==
    ASSUME PointTyped, NEW c \in PointCalls, NEW step \in PointSteps, PointGoes(c, step),
           step \in {"mark", "commit"} => pointCall[c].of \in Milestones,
           step = "create" => pointCall[c].of \in Achievements,
           step \in {"look", "pay"} => pointCall[c].of \in Rewards,
           step \in {"sync", "deduct", "take", "record"} => pointCall[c].of \in Items
    PROVE  /\ pointCall' \in [PointCalls -> PointRequest] /\ \A x \in PointCalls : Subject(x)'
           /\ pointCall'[c].pc = step /\ pointCall'[c].of = pointCall[c].of
           /\ pointCall'[c].marks = pointCall[c].marks /\ pointCall'[c].vault = pointCall[c].vault
           /\ pointCall'[c].cost = pointCall[c].cost
           /\ \A x \in PointCalls \ {c} : pointCall'[x] = pointCall[x]
  <1> DEFINE r == [pointCall[c] EXCEPT !.pc = step]
  <1>1. /\ r \in PointRequest /\ r.pc = step /\ r.of = pointCall[c].of
        /\ r.marks = pointCall[c].marks /\ r.vault = pointCall[c].vault
        /\ r.cost = pointCall[c].cost
    BY DEF PointTyped, PointTypeOK, PointRequest
  <1>2. pointCall' = [pointCall EXCEPT ![c] = r]
    OBVIOUS
  <1> HIDE DEF r
  <1>3. /\ r.pc \in {"mark", "commit"} => r.of \in Milestones
        /\ r.pc = "create" => r.of \in Achievements
        /\ r.pc \in {"look", "pay"} => r.of \in Rewards
        /\ r.pc \in {"sync", "deduct", "take", "record"} => r.of \in Items
    BY <1>1
  <1>4. /\ pointCall' \in [PointCalls -> PointRequest] /\ \A x \in PointCalls : Subject(x)'
        /\ pointCall'[c] = r /\ \A x \in PointCalls \ {c} : pointCall'[x] = pointCall[x]
    <2> HIDE DEF PointGoes
    <2> QED
      BY <1>1, <1>2, <1>3, PointCallTyped
  <1> QED
    BY <1>1, <1>4

Begins(c) ==
    \/ \E k \in Battles : BattleReward(c, k)
    \/ \E k \in Milestones : ClaimWeekly(c, k)
    \/ \E k \in Achievements : Unlock(c, k)
    \/ \E i \in Items : (\E k \in 1..MaxCost : Redeem(c, i, k)) \/ RedeemFree(c, i)
    \/ \E own \in BOOLEAN, items \in SUBSET Items : EditProfile(c, own, items)
    \/ SyncBalance(c)

GoesOn(c) ==
    \/ Look(c) \/ Pay(c) \/ Mark(c) \/ Commit(c) \/ TimeOut(c) \/ Create(c)
    \/ Sync(c) \/ Deduct(c) \/ TakePoints(c) \/ Record(c) \/ SaveProfile(c) \/ Abort(c)

(* A call that begins, with what the user's record says.                   *)
LEMMA BeginTyped ==
    ASSUME RewardAssumption, PointTyped, NEW c \in PointCalls, Begins(c)
    PROVE  /\ pointCall' \in [PointCalls -> PointRequest] /\ \A x \in PointCalls : Subject(x)'
           /\ PointAt(c, "idle")
           /\ pointCall'[c].pc \in {"look", "mark", "create", "sync", "deduct", "resync", "record", "save"}
           /\ pointCall'[c].pc = "look" => pointCall'[c].of \in Battles
           /\ pointCall'[c].pc = "record" => pointCall'[c].of \in given'
           /\ pointCall'[c].marks \subseteq marks
           /\ pointCall'[c].vault \subseteq vault \cup given'
           /\ Holding(c)' => spoiled' \/ pointCall'[c].vault = vault
           /\ \A x \in PointCalls \ {c} : pointCall'[x] = pointCall[x]
           /\ given \subseteq given' /\ given' \subseteq Items /\ spoiled' \in {spoiled, TRUE}
           /\ UNCHANGED <<ledger, vault, weekly, unlocked, pointFaults, late>>
  <1> USE DEF PointIdle, PointRequest, PointSteps, Rewards, Holding
  <1> USE PointIdleTyped
  <1>0. vault \subseteq Items /\ given \subseteq Items /\ marks \subseteq Milestones
    BY DEF PointTyped, PointTypeOK
  <1>1. CASE \E k \in Battles : BattleReward(c, k)
    <2>1. PICK k \in Battles : BattleReward(c, k)
      BY <1>1
    <2> DEFINE r == [PointIdle EXCEPT !.pc = "look", !.of = k]
    <2>2. r \in PointRequest /\ r.pc = "look" /\ r.of = k /\ r.marks = {} /\ r.vault = {}
      OBVIOUS
    <2>3. pointCall' = [pointCall EXCEPT ![c] = r]
      BY <2>1 DEF BattleReward
    <2> HIDE DEF r, PointIdle, PointRequest
    <2> QED
      BY <1>0, <2>1, <2>2, <2>3, PointCallTyped DEF BattleReward
  <1>2. CASE \E k \in Milestones : ClaimWeekly(c, k)
    <2>1. PICK k \in Milestones : ClaimWeekly(c, k)
      BY <1>2
    <2> DEFINE r == [PointIdle EXCEPT !.pc = "mark", !.of = k, !.marks = marks]
    <2>2. r \in PointRequest /\ r.pc = "mark" /\ r.of = k /\ r.marks = marks /\ r.vault = {}
      BY <1>0
    <2>3. pointCall' = [pointCall EXCEPT ![c] = r]
      BY <2>1 DEF ClaimWeekly
    <2> HIDE DEF r, PointIdle, PointRequest
    <2> QED
      BY <1>0, <2>1, <2>2, <2>3, PointCallTyped DEF ClaimWeekly
  <1>3. CASE \E k \in Achievements : Unlock(c, k)
    <2>1. PICK k \in Achievements : Unlock(c, k)
      BY <1>3
    <2> DEFINE r == [PointIdle EXCEPT !.pc = "create", !.of = k]
    <2>2. r \in PointRequest /\ r.pc = "create" /\ r.of = k /\ r.marks = {} /\ r.vault = {}
      OBVIOUS
    <2>3. pointCall' = [pointCall EXCEPT ![c] = r]
      BY <2>1 DEF Unlock
    <2> HIDE DEF r, PointIdle, PointRequest
    <2> QED
      BY <1>0, <2>1, <2>2, <2>3, PointCallTyped DEF Unlock
  <1>4. CASE \E i \in Items : \E k \in 1..MaxCost : Redeem(c, i, k)
    <2>1. PICK i \in Items, k \in 1..MaxCost, b \in Baselines :
             /\ PointAt(c, "idle")
             /\ UNCHANGED <<ledger, document, weekly, unlocked, pointFaults, late>>
             /\ pointCall' = [pointCall EXCEPT ![c] = [PointIdle EXCEPT
                    !.pc = IF balance < k /\ b >= k THEN "sync" ELSE "deduct",
                    !.of = i, !.vault = vault, !.cost = k,
                    !.baseline = IF balance < k /\ b >= k THEN b ELSE 0]]
      BY <1>4 DEF Redeem
    <2> DEFINE syncs == balance < k /\ b >= k
               r == [PointIdle EXCEPT !.pc = IF syncs THEN "sync" ELSE "deduct", !.of = i,
                        !.vault = vault, !.cost = k, !.baseline = IF syncs THEN b ELSE 0]
    <2>2. pointCall' = [pointCall EXCEPT ![c] = r]
      BY <2>1
    <2> HIDE DEF syncs
    <2>3. k \in 0..MaxCost
      BY DEF RewardAssumption
    <2>4. /\ r \in PointRequest /\ r.pc \in {"sync", "deduct"} /\ r.of = i
          /\ r.marks = {} /\ r.vault = vault
      BY <1>0, <2>3
    <2> HIDE DEF r, PointIdle, PointRequest
    <2> QED
      BY <1>0, <2>1, <2>2, <2>4, PointCallTyped
  <1>5. CASE \E i \in Items : RedeemFree(c, i)
    <2>1. PICK i \in Items : RedeemFree(c, i)
      BY <1>5
    <2> DEFINE r == [PointIdle EXCEPT !.pc = "record", !.of = i, !.vault = vault]
    <2>2. r \in PointRequest /\ r.pc = "record" /\ r.of = i /\ r.marks = {} /\ r.vault = vault
      BY <1>0 DEF RewardAssumption
    <2>3. pointCall' = [pointCall EXCEPT ![c] = r]
      BY <2>1 DEF RedeemFree
    <2> HIDE DEF r, PointIdle, PointRequest
    <2> QED
      BY <1>0, <2>1, <2>2, <2>3, PointCallTyped DEF RedeemFree
  <1>6. CASE \E own \in BOOLEAN, items \in SUBSET Items : EditProfile(c, own, items)
    <2>1. PICK own \in BOOLEAN, items \in SUBSET Items : EditProfile(c, own, items)
      BY <1>6
    <2> DEFINE copy == IF own THEN items ELSE KeptUnlocks
               r == [PointIdle EXCEPT !.pc = "save", !.vault = copy]
    <2>2. copy \subseteq Items /\ (own \/ copy = vault) /\ (~own \/ copy = items)
      BY <1>0 DEF KeptUnlocks
    <2>3. pointCall' = [pointCall EXCEPT ![c] = r]
      BY <2>1 DEF EditProfile
    <2> HIDE DEF copy
    <2>4. r \in PointRequest /\ r.pc = "save" /\ r.marks = {} /\ r.vault = copy
      BY <2>2
    <2>5. /\ IF own THEN given' = given \cup items /\ spoiled' = TRUE
                    ELSE given' = given /\ spoiled' = spoiled
          /\ PointAt(c, "idle")
          /\ UNCHANGED <<ledger, vault, weekly, unlocked, pointFaults, late>>
      BY <2>1 DEF EditProfile
    <2> HIDE DEF r, PointIdle, PointRequest
    <2> QED
      BY <1>0, <2>2, <2>3, <2>4, <2>5, PointCallTyped
  <1>7. CASE SyncBalance(c)
    <2>1. PICK b \in Baselines :
             /\ PointAt(c, "idle")
             /\ pointCall' = [pointCall EXCEPT ![c] = [PointIdle EXCEPT !.pc = "resync", !.baseline = b]]
             /\ UNCHANGED <<ledger, document, weekly, unlocked, pointFaults, late>>
      BY <1>7 DEF SyncBalance
    <2> DEFINE r == [PointIdle EXCEPT !.pc = "resync", !.baseline = b]
    <2>2. r \in PointRequest /\ r.pc = "resync" /\ r.marks = {} /\ r.vault = {}
      BY DEF RewardAssumption
    <2>3. pointCall' = [pointCall EXCEPT ![c] = r]
      BY <2>1
    <2> HIDE DEF r, PointIdle, PointRequest
    <2> QED
      BY <1>0, <2>1, <2>2, <2>3, PointCallTyped
  <1> QED
    BY <1>1, <1>2, <1>3, <1>4, <1>5, <1>6, <1>7 DEF Begins

LEMMA NextIsStep == PointNext => \E c \in PointCalls : Begins(c) \/ GoesOn(c)
  BY DEF PointNext, Begins, GoesOn

(* A call that goes on: the others stay as they are, and it is not about   *)
(* anything else.                                                          *)
LEMMA GoesOnTyped ==
    ASSUME RewardAssumption, PointTyped, NEW c \in PointCalls, GoesOn(c)
    PROVE  /\ PointTyped'
           /\ \A x \in PointCalls \ {c} : pointCall'[x] = pointCall[x]
           /\ \/ pointCall'[c] = PointIdle
              \/ /\ pointCall'[c].of = pointCall[c].of /\ pointCall'[c].marks = pointCall[c].marks
                 /\ pointCall'[c].vault = pointCall[c].vault /\ pointCall'[c].cost = pointCall[c].cost
  <1> USE DEF PointTyped
  <1> DEFINE Framed ==
        /\ pointCall' \in [PointCalls -> PointRequest] /\ \A x \in PointCalls : Subject(x)'
        /\ \A x \in PointCalls \ {c} : pointCall'[x] = pointCall[x]
        /\ \/ pointCall'[c] = PointIdle
           \/ /\ pointCall'[c].of = pointCall[c].of /\ pointCall'[c].marks = pointCall[c].marks
              /\ pointCall'[c].vault = pointCall[c].vault /\ pointCall'[c].cost = pointCall[c].cost
  <1>1. ASSUME PointDone(c) PROVE Framed
    BY <1>1, PointDoneTyped
  <1>2. ASSUME NEW step \in PointSteps, PointGoes(c, step),
               step \in {"mark", "commit"} => pointCall[c].of \in Milestones,
               step = "create" => pointCall[c].of \in Achievements,
               step \in {"look", "pay"} => pointCall[c].of \in Rewards,
               step \in {"sync", "deduct", "take", "record"} => pointCall[c].of \in Items
        PROVE  Framed
    BY <1>2, PointGotoTyped
  <1>3. ASSUME AfterAward(c) PROVE Framed
    BY <1>1, <1>2, <1>3 DEF AfterAward, PointSteps
  <1>4. CASE Look(c)
    <2>1. ASSUME PointGoes(c, "pay") PROVE Framed
      <3>1. pointCall[c].of \in Rewards
        BY <1>4 DEF Look, Subject
      <3> QED
        BY <1>2, <2>1, <3>1 DEF PointSteps
    <2>2. Framed
      <3> HIDE DEF Framed
      <3> QED
        BY <1>3, <1>4, <2>1 DEF Look
    <2> HIDE DEF Framed
    <2>3. PointTypeOK'
      BY <1>4, <2>2 DEF Look, PointTypeOK, Framed
    <2> QED
      BY <2>2, <2>3 DEF Framed
  <1>5. CASE Pay(c)
    <2>1. Framed
      BY <1>3, <1>5 DEF Pay
    <2> HIDE DEF Framed
    <2>2. balance' \in Int /\ paid' \in [Rewards -> Nat]
      BY <1>5 DEF Pay, PointTypeOK, Subject
    <2>3. PointTypeOK'
      BY <1>5, <2>1, <2>2 DEF Pay, PointTypeOK, Framed
    <2> QED
      BY <2>1, <2>3 DEF Framed
  <1>6. CASE Mark(c)
    <2>1. Framed
      BY <1>2, <1>6 DEF Mark, Subject, PointSteps, Rewards
    <2> HIDE DEF Framed
    <2>2. PointTypeOK'
      BY <1>6, <2>1 DEF Mark, PointTypeOK, Framed
    <2> QED
      BY <2>1, <2>2 DEF Framed
  <1>7. CASE Commit(c)
    <2>1. Framed
      BY <1>1, <1>7 DEF Commit
    <2> HIDE DEF Framed
    <2>2. pointCall[c].marks \subseteq Milestones /\ pointCall[c].of \in Milestones
      BY <1>7 DEF Commit, Subject, PointTypeOK, PointRequest
    <2>3. marks' \subseteq Milestones /\ locked' \in PointCalls \cup {NoSession}
      BY <1>7, <2>2 DEF Commit, PointTypeOK
    <2>4. PointTypeOK'
      BY <1>7, <2>1, <2>3 DEF Commit, PointTypeOK, Framed
    <2> QED
      BY <2>1, <2>4 DEF Framed
  <1>8. CASE TimeOut(c)
    <2>1. pointFaults' \in 0..MaxPointFaults /\ late' = TRUE
      BY <1>8 DEF TimeOut, PointMisfortune, PointTypeOK, RewardAssumption
    <2>2. PointTypeOK'
      BY <1>8, <2>1 DEF TimeOut, PointTypeOK
    <2> QED
      BY <1>8, <2>2 DEF TimeOut, Subject
  <1>9. CASE Create(c)
    <2>1. Framed
      BY <1>1, <1>2, <1>9 DEF Create, Subject, PointSteps, Rewards
    <2> HIDE DEF Framed
    <2>2. PointTypeOK'
      BY <1>9, <2>1 DEF Create, PointTypeOK, Framed, Subject
    <2> QED
      BY <2>1, <2>2 DEF Framed
  <1>10. CASE Sync(c)
    <2>1. Framed
      <3>1. CASE PointAt(c, "sync")
        <4> DEFINE r == [pointCall[c] EXCEPT !.pc = "deduct", !.baseline = 0]
        <4>1. pointCall[c] \in PointRequest
          BY DEF PointTypeOK
        <4>2. /\ r \in PointRequest /\ r.pc = "deduct" /\ r.of = pointCall[c].of
              /\ r.marks = pointCall[c].marks /\ r.vault = pointCall[c].vault
              /\ r.cost = pointCall[c].cost
          BY <4>1 DEF PointRequest, PointSteps
        <4>3. pointCall' = [pointCall EXCEPT ![c] = r]
          BY <1>10, <3>1, <4>1 DEF Sync, PointTypeOK, PointRequest
        <4>4. pointCall[c].of \in Items
          BY <3>1 DEF Subject
        <4> HIDE DEF r
        <4> QED
          BY <4>2, <4>3, <4>4, PointCallTyped
      <3>2. CASE ~PointAt(c, "sync")
        BY <1>1, <1>10, <3>2 DEF Sync
      <3> QED
        BY <3>1, <3>2
    <2> HIDE DEF Framed
    <2>2. balance' \in Int
      BY <1>10 DEF Sync, PointTypeOK, PointRequest, RewardAssumption
    <2>3. PointTypeOK'
      BY <1>10, <2>1, <2>2 DEF Sync, PointTypeOK, Framed
    <2> QED
      BY <2>1, <2>3 DEF Framed
  <1>11. CASE Deduct(c)
    <2>1. Framed
      BY <1>1, <1>2, <1>11 DEF Deduct, Subject, PointSteps
    <2> HIDE DEF Framed
    <2>2. PointTypeOK'
      BY <1>11, <2>1 DEF Deduct, PointTypeOK, Framed
    <2> QED
      BY <2>1, <2>2 DEF Framed
  <1>12. CASE TakePoints(c)
    <2>1. Framed
      BY <1>2, <1>12 DEF TakePoints, Subject, PointSteps
    <2> HIDE DEF Framed
    <2>2. balance' \in Int /\ bought' \subseteq Items
      BY <1>12 DEF TakePoints, PointTypeOK, Subject, PointRequest, RewardAssumption
    <2>3. PointTypeOK'
      BY <1>12, <2>1, <2>2 DEF TakePoints, PointTypeOK, Framed
    <2> QED
      BY <2>1, <2>3 DEF Framed
  <1>13. CASE Record(c)
    <2>1. Framed
      BY <1>1, <1>13 DEF Record
    <2> HIDE DEF Framed
    <2>2. vault' \subseteq Items /\ spoiled' \in BOOLEAN
      <3>1. vault' \subseteq Items
        BY <1>13 DEF Record, Unlocks, PointTypeOK, Subject, PointRequest
      <3>2. spoiled' \in BOOLEAN
        BY <1>13, Zenon DEF Record
      <3> QED
        BY <3>1, <3>2
    <2>3. PointTypeOK'
      BY <1>13, <2>1, <2>2 DEF Record, PointTypeOK, Framed
    <2> QED
      BY <2>1, <2>3 DEF Framed
  <1>14. CASE Abort(c)
    <2>1. Framed
      BY <1>1, <1>14 DEF Abort
    <2> HIDE DEF Framed
    <2>2. pointFaults' \in 0..MaxPointFaults /\ locked' \in PointCalls \cup {NoSession}
      BY <1>14 DEF Abort, PointMisfortune, PointTypeOK, RewardAssumption
    <2>3. spoiled' \in BOOLEAN
      BY <1>14, Zenon DEF Abort
    <2>4. PointTypeOK'
      BY <1>14, <2>1, <2>2, <2>3 DEF Abort, PointTypeOK, Framed
    <2> QED
      BY <2>1, <2>4 DEF Framed
  <1>15. CASE SaveProfile(c)
    <2>1. Framed
      BY <1>1, <1>15 DEF SaveProfile
    <2> HIDE DEF Framed
    <2>2. vault' \subseteq Items
      BY <1>15 DEF SaveProfile, PointTypeOK, PointRequest
    <2>3. spoiled' \in BOOLEAN
      BY <1>15, Zenon DEF SaveProfile
    <2>4. PointTypeOK'
      BY <1>15, <2>1, <2>2, <2>3 DEF SaveProfile, PointTypeOK, Framed
    <2> QED
      BY <2>1, <2>4 DEF Framed
  <1> QED
    BY <1>4, <1>5, <1>6, <1>7, <1>8, <1>9, <1>10, <1>11, <1>12, <1>13, <1>14, <1>15 DEF GoesOn

LEMMA PointStepTyped ==
    ASSUME RewardAssumption, PointTyped, [PointNext]_pointVars
    PROVE  PointTyped'
  <1>1. ASSUME NEW c \in PointCalls, Begins(c) PROVE PointTyped'
    BY <1>1, BeginTyped DEF PointTyped, PointTypeOK
  <1>2. ASSUME NEW c \in PointCalls, GoesOn(c) PROVE PointTyped'
    BY <1>2, GoesOnTyped
  <1>3. CASE UNCHANGED pointVars
    BY <1>3 DEF pointVars, PointTyped, PointTypeOK, Subject
  <1> QED
    BY <1>1, <1>2, <1>3, NextIsStep

\* For any rewards, prices and numbers of overlapping calls, each variable keeps its type
\* (TypeOK of Rewards).
THEOREM RewardTypes ==
    ASSUME RewardAssumption
    PROVE  PointSpec => []PointTypeOK
  <1>1. PointInit => PointTyped
    BY PointInitTyped
  <1>2. PointTyped /\ [PointNext]_pointVars => PointTyped'
    BY PointStepTyped
  <1>3. PointTyped => PointTypeOK
    BY DEF PointTyped
  <1> QED
    BY <1>1, <1>2, <1>3, PTL DEF PointSpec

-----------------------------------------------------------------------------
(* What is marked, and what is unlocked, has been paid                     *)

PaidFirst ==
    /\ \A k \in marks : paid[k] >= 1
    /\ \A c \in PointCalls : \A k \in pointCall[c].marks : paid[k] >= 1
    /\ \A c \in PointCalls : PointAt(c, "commit") => paid[pointCall[c].of] >= 1

BoughtFirst ==
    /\ vault \subseteq bought \cup given
    /\ \A c \in PointCalls : pointCall[c].vault \subseteq bought \cup given
    /\ \A c \in PointCalls : PointAt(c, "record") => pointCall[c].of \in bought \cup given

LEMMA InitPaidFirst ==
    ASSUME RewardAssumption, PointInit
    PROVE  PaidFirst /\ BoughtFirst
  BY DEF PointInit, PaidFirst, BoughtFirst, PointIdle

(* No row of the ledger is ever taken back.                                *)
LEMMA LedgerGrows ==
    ASSUME RewardAssumption, PointTyped, NEW c \in PointCalls, GoesOn(c)
    PROVE  /\ \A k \in Rewards : paid'[k] >= paid[k]
           /\ bought \subseteq bought'
  <1>1. CASE Pay(c)
    BY <1>1 DEF Pay, PointTyped, PointTypeOK
  <1>2. CASE TakePoints(c)
    BY <1>2 DEF TakePoints, PointTyped, PointTypeOK
  <1>3. CASE ~Pay(c) /\ ~TakePoints(c)
    BY <1>3 DEF GoesOn, Look, Mark, Commit, TimeOut, Create, Sync, Deduct, Record, SaveProfile, Abort,
                PointTyped, PointTypeOK
  <1> QED
    BY <1>1, <1>2, <1>3

LEMMA StepPaidFirst ==
    ASSUME RewardAssumption, PointTyped, PaidFirst, [PointNext]_pointVars
    PROVE  PaidFirst'
  <1>1. ASSUME NEW c \in PointCalls, Begins(c) PROVE PaidFirst'
    BY <1>1, BeginTyped DEF PaidFirst
  <1>2. ASSUME NEW c \in PointCalls, GoesOn(c) PROVE PaidFirst'
    <2>1. /\ \A x \in PointCalls \ {c} : pointCall'[x] = pointCall[x]
          /\ \/ pointCall'[c] = PointIdle
             \/ pointCall'[c].of = pointCall[c].of /\ pointCall'[c].marks = pointCall[c].marks
      BY <1>2, GoesOnTyped
    <2>2. \A k \in Rewards : paid[k] >= 1 => paid'[k] >= 1
      <3>1. \A k \in Rewards : paid[k] \in Nat /\ paid'[k] \in Nat /\ paid'[k] >= paid[k]
        BY <1>2, LedgerGrows, GoesOnTyped DEF PointTyped, PointTypeOK
      <3> QED
        BY <3>1
    <2>3. \A x \in PointCalls : pointCall[x].marks \subseteq Rewards
      BY DEF PointTyped, PointTypeOK, PointRequest, Rewards
    <2>4. \A x \in PointCalls : \A k \in pointCall'[x].marks : paid'[k] >= 1
      BY <2>1, <2>2, <2>3 DEF PaidFirst, PointIdle
    <2>5. \A x \in PointCalls \ {c} : pointCall'[x].pc = "commit" => paid'[pointCall'[x].of] >= 1
      <3>1. \A x \in PointCalls : PointAt(x, "commit") => pointCall[x].of \in Rewards
        BY DEF PointTyped, Subject, Rewards
      <3> QED
        BY <2>1, <2>2, <3>1 DEF PaidFirst
    (* A call gets to its commit by finding a row of the ledger, or by     *)
    (* writing one.                                                        *)
    <2>6. pointCall'[c].pc = "commit" => paid'[pointCall'[c].of] >= 1
      <3>1. CASE Look(c)
        <4>1. pointCall[c].of \in Rewards /\ pointCall'[c].pc \in {"pay", "commit", "idle"}
          BY <3>1, PointIdleTyped
            DEF Look, AfterAward, PointTyped, Subject, PointTypeOK, PointRequest
        <4>2. ASSUME pointCall'[c].pc = "commit" PROVE paid[pointCall[c].of] # 0 /\ pointCall'[c].of = pointCall[c].of
          BY <2>1, <3>1, <4>2, PointIdleTyped
            DEF Look, Unpaid, PointTyped, PointTypeOK, PointRequest
        <4>3. paid[pointCall[c].of] \in Nat /\ paid' = paid
          BY <3>1, <4>1 DEF Look, PointTyped, PointTypeOK
        <4> QED
          BY <4>2, <4>3
      <3>2. CASE Pay(c)
        <4>1. pointCall[c].of \in Rewards
          BY <3>2 DEF Pay, PointTyped, Subject
        <4>2. paid'[pointCall[c].of] = paid[pointCall[c].of] + 1 /\ paid[pointCall[c].of] \in Nat
          BY <3>2, <4>1 DEF Pay, PointTyped, PointTypeOK
        <4> QED
          BY <2>1, <4>2, PointIdleTyped
      <3>3. CASE TimeOut(c)
        <4>1. pointCall' = pointCall /\ (PointAt(c, "commit") => pointCall[c].of \in Rewards)
          BY <3>3 DEF TimeOut, PointTyped, Subject, Rewards
        <4> QED
          BY <2>2, <4>1 DEF PaidFirst
      <3>4. CASE ~Look(c) /\ ~Pay(c) /\ ~TimeOut(c)
        <4>1. pointCall'[c].pc # "commit"
          BY <1>2, <3>4, PointIdleTyped
            DEF GoesOn, Mark, Commit, Create, Sync, Deduct, TakePoints,
                                       Record, SaveProfile, Abort, PointTyped, PointTypeOK, PointRequest
        <4> QED
          BY <4>1
      <3> QED
        BY <3>1, <3>2, <3>3, <3>4
    <2>7. \A k \in marks' : paid'[k] >= 1
      <3>1. CASE Commit(c)
        <4>1. marks' \subseteq marks \cup pointCall[c].marks \cup {pointCall[c].of}
          BY <3>1 DEF Commit
        <4>2. marks' \subseteq Rewards
          BY <3>1, <4>1 DEF Commit, PointTyped, PointTypeOK, Subject, PointRequest, Rewards
        <4> QED
          BY <2>2, <3>1, <4>1, <4>2 DEF Commit, PaidFirst
      <3>2. CASE ~Commit(c)
        <4>1. marks' = marks /\ marks \subseteq Rewards
          BY <1>2, <3>2 DEF GoesOn, Look, Pay, Mark, TimeOut, Create, Sync, Deduct, TakePoints,
                            Record, SaveProfile, Abort, PointTyped, PointTypeOK, Rewards
        <4> QED
          BY <2>2, <4>1 DEF PaidFirst
      <3> QED
        BY <3>1, <3>2
    <2> QED
      BY <2>4, <2>5, <2>6, <2>7 DEF PaidFirst
  <1>3. CASE UNCHANGED pointVars
    BY <1>3 DEF pointVars, PaidFirst
  <1> QED
    BY <1>1, <1>2, <1>3, NextIsStep

LEMMA StepBoughtFirst ==
    ASSUME RewardAssumption, PointTyped, BoughtFirst, [PointNext]_pointVars
    PROVE  BoughtFirst'
  <1>1. ASSUME NEW c \in PointCalls, Begins(c) PROVE BoughtFirst'
    BY <1>1, BeginTyped DEF BoughtFirst
  <1>2. ASSUME NEW c \in PointCalls, GoesOn(c) PROVE BoughtFirst'
    <2>1. /\ \A x \in PointCalls \ {c} : pointCall'[x] = pointCall[x]
          /\ \/ pointCall'[c] = PointIdle
             \/ pointCall'[c].of = pointCall[c].of /\ pointCall'[c].vault = pointCall[c].vault
      BY <1>2, GoesOnTyped
    <2>2. bought \subseteq bought' /\ given' = given
      BY <1>2, LedgerGrows DEF GoesOn, Look, Pay, Mark, Commit, TimeOut, Create, Sync, Deduct,
                               TakePoints, Record, SaveProfile, Abort
    <2>3. pointCall'[c].pc = "record" => pointCall'[c].of \in bought' \cup given'
      <3>1. CASE TakePoints(c)
        BY <2>1, <3>1, PointIdleTyped DEF TakePoints
      <3>2. CASE TimeOut(c)
        BY <2>2, <3>2 DEF TimeOut, BoughtFirst
      <3>3. CASE ~TakePoints(c) /\ ~TimeOut(c)
        <4>1. pointCall'[c].pc # "record"
          BY <1>2, <3>3, PointIdleTyped
            DEF GoesOn, Look, Pay, AfterAward, Mark, Commit, Create, Sync, Deduct,
                Record, SaveProfile, Abort, PointTyped, PointTypeOK, PointRequest
        <4> QED
          BY <4>1
      <3> QED
        BY <3>1, <3>2, <3>3
    <2>4. vault' \subseteq bought' \cup given'
      <3>1. CASE Record(c)
        BY <3>1 DEF Record, Unlocks, BoughtFirst
      <3>2. CASE SaveProfile(c)
        BY <3>2 DEF SaveProfile, BoughtFirst
      <3>3. CASE ~Record(c) /\ ~SaveProfile(c)
        <4>1. vault' = vault
          BY <1>2, <3>3 DEF GoesOn, Look, Pay, Mark, Commit, TimeOut, Create, Sync, Deduct,
                            TakePoints, Abort
        <4> QED
          BY <2>2, <4>1 DEF BoughtFirst
      <3> QED
        BY <3>1, <3>2, <3>3
    <2> QED
      BY <2>1, <2>2, <2>3, <2>4 DEF BoughtFirst, PointIdle
  <1>3. CASE UNCHANGED pointVars
    BY <1>3 DEF pointVars, BoughtFirst
  <1> QED
    BY <1>1, <1>2, <1>3, NextIsStep

(* As long as nobody wrote the document under somebody else, each call     *)
(* that has a copy has what is in it now.                                  *)
Recording == {c \in PointCalls : PointAt(c, "record")}

Kept ==
    /\ \A c \in PointCalls : Holding(c) => vault \subseteq pointCall[c].vault
    /\ bought \subseteq vault \cup {pointCall[c].of : c \in Recording}

LEMMA StepKept ==
    ASSUME RewardAssumption, PointTyped, spoiled \/ Kept, [PointNext]_pointVars
    PROVE  spoiled' \/ Kept'
  <1>1. ASSUME NEW c \in PointCalls, Begins(c) PROVE spoiled' \/ Kept'
    <2> SUFFICES ASSUME ~spoiled' PROVE Kept'
      OBVIOUS
    <2>1. /\ PointAt(c, "idle") /\ ~spoiled
          /\ \A x \in PointCalls \ {c} : pointCall'[x] = pointCall[x]
          /\ vault' = vault /\ bought' = bought
          /\ Holding(c)' => pointCall'[c].vault = vault
      BY <1>1, BeginTyped
    <2>2. {pointCall[x].of : x \in Recording} \subseteq {pointCall'[x].of : x \in Recording'}
      BY <2>1 DEF Recording
    <2> QED
      BY <2>1, <2>2 DEF Kept, Holding
  <1>2. ASSUME NEW c \in PointCalls, GoesOn(c) PROVE spoiled' \/ Kept'
    <2> SUFFICES ASSUME ~spoiled' PROVE Kept'
      OBVIOUS
    <2>1. /\ \A x \in PointCalls \ {c} : pointCall'[x] = pointCall[x]
          /\ \/ pointCall'[c] = PointIdle
             \/ pointCall'[c].of = pointCall[c].of /\ pointCall'[c].vault = pointCall[c].vault
      BY <1>2, GoesOnTyped
    <2>2. Kept
      <3>1. ~spoiled
        BY <1>2 DEF GoesOn, Look, Pay, Mark, Commit, TimeOut, Create, Sync, Deduct,
                    TakePoints, Record, SaveProfile, Abort
      <3> QED
        BY <3>1
    (* Nobody else has a copy, or it would be spoiled now.                 *)
    <2>3. CASE Record(c) \/ SaveProfile(c)
      <3>1. /\ \A x \in PointCalls \ {c} : ~Holding(x)
            /\ bought' = bought /\ Holding(c) /\ pointCall'[c] = PointIdle
        BY <2>3, PointDoneTyped DEF Record, SaveProfile, Outdates, Holding
      <3>2. \A x \in PointCalls : ~Holding(x)'
        BY <2>1, <3>1, PointIdleTyped DEF Holding
      <3>3. bought \subseteq vault'
        <4>1. CASE Record(c)
          <5>1. vault' = pointCall[c].vault \cup {pointCall[c].of} /\ Recording = {c}
            BY <3>1, <4>1 DEF Record, Unlocks, Recording, Holding
          <5> QED
            BY <2>2, <3>1, <5>1 DEF Kept
        <4>2. CASE SaveProfile(c)
          <5>1. vault' = pointCall[c].vault /\ Recording = {}
            BY <3>1, <4>2 DEF SaveProfile, Recording, Holding
          <5> QED
            BY <2>2, <3>1, <5>1 DEF Kept
        <4> QED
          BY <2>3, <4>1, <4>2
      <3> QED
        BY <3>1, <3>2, <3>3 DEF Kept
    <2>4. CASE TakePoints(c)
      <3>1. /\ vault' = vault /\ bought' = bought \cup {pointCall[c].of}
            /\ pointCall'[c].pc = "record" /\ Holding(c)
        BY <2>4 DEF TakePoints, Holding, PointTyped, PointTypeOK, PointRequest
      <3>2. Recording' = Recording \cup {c}
        BY <2>1, <3>1 DEF Recording
      <3>3. pointCall'[c].of = pointCall[c].of /\ pointCall'[c].vault = pointCall[c].vault
        BY <2>1, <3>1, PointIdleTyped
      <3>4. {pointCall[x].of : x \in Recording} \cup {pointCall[c].of}
              \subseteq {pointCall'[x].of : x \in Recording'}
        <4>1. \A x \in Recording : pointCall'[x].of = pointCall[x].of
          BY <2>1, <3>3 DEF Recording
        <4> QED
          BY <3>2, <3>3, <4>1
      <3>5. \A x \in PointCalls : Holding(x)' => vault' \subseteq pointCall'[x].vault
        BY <2>1, <2>2, <3>1, <3>3 DEF Kept, Holding
      <3> QED
        BY <2>2, <3>1, <3>4, <3>5 DEF Kept
    <2>5. CASE ~Record(c) /\ ~SaveProfile(c) /\ ~TakePoints(c)
      <3>1. vault' = vault /\ bought' = bought
        BY <1>2, <2>5 DEF GoesOn, Look, Pay, Mark, Commit, TimeOut, Create, Sync, Deduct, Abort
      <3>2. Holding(c)' => Holding(c) /\ pointCall'[c].vault = pointCall[c].vault
        BY <1>2, <2>1, <2>5, PointIdleTyped
          DEF GoesOn, Look, Pay, AfterAward, Mark, Commit, TimeOut, Create, Sync, Deduct, Abort,
              Holding, PointTyped, PointTypeOK, PointRequest
      <3>3. PointAt(c, "record") => pointCall' = pointCall
        BY <1>2, <2>5 DEF GoesOn, Look, Pay, Mark, Commit, TimeOut, Create, Sync, Deduct, Abort
      <3>4. {pointCall[x].of : x \in Recording} \subseteq {pointCall'[x].of : x \in Recording'}
        BY <2>1, <3>3 DEF Recording
      <3> QED
        BY <2>1, <2>2, <3>1, <3>2, <3>4 DEF Kept, Holding
    <2> QED
      BY <2>3, <2>4, <2>5
  <1>3. CASE UNCHANGED pointVars
    BY <1>3 DEF pointVars, Kept, Holding, Recording
  <1> QED
    BY <1>1, <1>2, <1>3, NextIsStep

\* What was paid for gets into the vault and stays there, as long as no writer of the
\* metadata document overlaps another and no call dies between the payment and the item.
THEOREM RewardPaidIsKept ==
    ASSUME RewardAssumption
    PROVE  PointSpec => []PaidIsKept
  <1>1. PointInit => PointTyped /\ (spoiled \/ Kept)
    <2>1. PointInit => Kept
      BY PointIdleTyped DEF PointInit, Kept, Holding
    <2> QED
      BY <2>1, PointInitTyped
  <1>2. PointTyped /\ (spoiled \/ Kept) /\ [PointNext]_pointVars => (PointTyped /\ (spoiled \/ Kept))'
    BY PointStepTyped, StepKept
  <1>3. PointTyped /\ (spoiled \/ Kept) => PaidIsKept
    BY DEF Kept, PaidIsKept, Recording
  <1> QED
    BY <1>1, <1>2, <1>3, PTL DEF PointSpec

\* A milestone is marked as claimed only if its points were paid, with any overlapping
\* claims and whatever fails: the award is committed before the claim (claimWeeklyReward).
THEOREM RewardMarkedIsPaid ==
    ASSUME RewardAssumption
    PROVE  PointSpec => []MarkedIsPaid
  <1>1. PointInit => PointTyped /\ PaidFirst
    BY PointInitTyped, InitPaidFirst
  <1>2. PointTyped /\ PaidFirst /\ [PointNext]_pointVars => (PointTyped /\ PaidFirst)'
    BY PointStepTyped, StepPaidFirst
  <1>3. PointTyped /\ PaidFirst => MarkedIsPaid
    BY DEF PaidFirst, MarkedIsPaid
  <1> QED
    BY <1>1, <1>2, <1>3, PTL DEF PointSpec

\* Nothing is in the vault that was neither paid for nor asked for without a price, however
\* overlapping redemptions write the document over (POST /rewards/redeem).
THEOREM RewardUnlockedIsPaid ==
    ASSUME RewardAssumption
    PROVE  PointSpec => []UnlockedIsPaid
  <1>1. PointInit => PointTyped /\ BoughtFirst
    BY PointInitTyped, InitPaidFirst
  <1>2. PointTyped /\ BoughtFirst /\ [PointNext]_pointVars => (PointTyped /\ BoughtFirst)'
    BY PointStepTyped, StepBoughtFirst
  <1>3. PointTyped /\ BoughtFirst => UnlockedIsPaid
    BY DEF BoughtFirst, UnlockedIsPaid
  <1> QED
    BY <1>1, <1>2, <1>3, PTL DEF PointSpec

-----------------------------------------------------------------------------
(* The weekly claim                                                        *)

\* A claim that awards has the row of the week.
Claiming(c) == pointCall[c].pc \in {"look", "pay", "commit"} /\ pointCall[c].of \in Milestones

OneClaim ==
    /\ \A c \in PointCalls : Claiming(c) => locked = c
    /\ \A c \in PointCalls : Claiming(c) /\ PointAt(c, "pay") => paid[pointCall[c].of] = 0
    /\ \A k \in Milestones : paid[k] <= 1

LEMMA StepOneClaim ==
    ASSUME RewardAssumption, PointTyped, late \/ OneClaim, [PointNext]_pointVars
    PROVE  late' \/ OneClaim'
  <1> USE DEF RewardAssumption
  <1>1. CASE late
    <2>1. ASSUME NEW c \in PointCalls, Begins(c) PROVE late' = late
      BY <2>1, BeginTyped
    <2>2. ASSUME NEW c \in PointCalls, GoesOn(c), ~TimeOut(c) PROVE late' = late
      BY <2>2 DEF GoesOn, Look, Pay, Mark, Commit, Create, Sync, Deduct, TakePoints, Record, SaveProfile, Abort
    <2>3. CASE UNCHANGED pointVars
      BY <1>1, <2>3 DEF pointVars
    <2>4. ASSUME NEW c \in PointCalls, TimeOut(c) PROVE late'
      BY <2>4 DEF TimeOut
    <2>5. CASE PointNext
      <3>1. PICK c \in PointCalls : Begins(c) \/ GoesOn(c)
        BY <2>5, NextIsStep
      <3>2. CASE TimeOut(c)
        BY <3>2, <2>4
      <3>3. CASE ~TimeOut(c)
        <4>1. late' = late
          BY <3>1, <3>3, <2>1, <2>2
        <4> QED
          BY <1>1, <4>1
      <3> QED
        BY <3>2, <3>3
    <2> QED
      BY <2>3, <2>5
  <1>2. ASSUME OneClaim, NEW c \in PointCalls, Begins(c) PROVE OneClaim'
    BY <1>2, BeginTyped DEF OneClaim, Claiming
  <1>3. ASSUME OneClaim, NEW c \in PointCalls, GoesOn(c) PROVE late' \/ OneClaim'
    <2>1. /\ \A x \in PointCalls \ {c} : pointCall'[x] = pointCall[x]
          /\ pointCall'[c] = PointIdle \/ pointCall'[c].of = pointCall[c].of
      BY <1>3, GoesOnTyped
    <2>2. CASE Look(c)
      <3>1. pointCall'[c].pc \in {"pay", "commit", "idle"} /\ UNCHANGED <<paid, locked>>
        BY <2>2, PointIdleTyped DEF Look, AfterAward, PointTyped, PointTypeOK, PointRequest
      <3>2. pointCall'[c].pc = "pay" => paid[pointCall[c].of] = 0
        BY <2>2, PointIdleTyped
          DEF Look, Unpaid, AfterAward, PointTyped, PointTypeOK, PointRequest
      <3>3. Claiming(c)' => Claiming(c)
        BY <2>1, <2>2, <3>1, PointIdleTyped DEF Look, Claiming
      <3> QED
        BY <1>3, <2>1, <3>1, <3>2, <3>3, PointIdleTyped DEF OneClaim, Claiming
    <2>3. CASE Pay(c)
      <3> DEFINE k == pointCall[c].of
      <3>1. k \in Rewards /\ pointCall'[c].pc \in {"commit", "idle"} /\ locked' = locked
        BY <2>3, PointIdleTyped
          DEF Pay, AfterAward, PointTyped, Subject, PointTypeOK, PointRequest
      <3>2. paid' = [paid EXCEPT ![k] = @ + 1]
        BY <2>3 DEF Pay
      <3>3. Claiming(c)' => Claiming(c)
        BY <2>1, <2>3, <3>1, PointIdleTyped DEF Pay, Claiming
      <3>4. \A x \in PointCalls : Claiming(x)' => locked' = x
        BY <1>3, <2>1, <3>1, <3>3 DEF OneClaim, Claiming
      <3>5. \A j \in Milestones : paid'[j] <= 1
        <4>1. k \in Milestones => paid[k] = 0
          BY <1>3, <2>3 DEF Pay, OneClaim, Claiming
        <4> HIDE DEF k
        <4> QED
          BY <1>3, <3>1, <3>2, <4>1 DEF OneClaim, PointTyped, PointTypeOK, Rewards
      <3>6. ASSUME NEW x \in PointCalls, Claiming(x)', pointCall'[x].pc = "pay"
            PROVE  paid'[pointCall'[x].of] = 0
        <4>1. x # c /\ Claiming(x) /\ PointAt(x, "pay") /\ pointCall'[x] = pointCall[x]
          BY <2>1, <3>1, <3>6 DEF Claiming
        <4>2. k \notin Milestones
          BY <1>3, <2>3, <4>1 DEF Pay, OneClaim, Claiming
        <4>3. pointCall[x].of # k /\ paid[pointCall[x].of] = 0 /\ pointCall[x].of \in Rewards
          BY <1>3, <4>1, <4>2 DEF OneClaim, Claiming, Rewards
        <4> HIDE DEF k
        <4> QED
          BY <3>2, <4>1, <4>3 DEF PointTyped, PointTypeOK
      <3> QED
        BY <3>4, <3>5, <3>6 DEF OneClaim
    (* The row was free, so there is no other claim.                       *)
    <2>4. CASE Mark(c)
      <3>1. locked = NoSession /\ locked' = c /\ pointCall'[c].pc = "look" /\ paid' = paid
        BY <2>4 DEF Mark, RowFree, PointTyped, PointTypeOK, PointRequest
      <3>2. \A x \in PointCalls : ~Claiming(x)
        BY <1>3, <3>1 DEF OneClaim
      <3> QED
        BY <1>3, <2>1, <3>1, <3>2 DEF OneClaim, Claiming
    <2>5. CASE Commit(c) \/ Abort(c)
      <3>1. pointCall'[c].pc = "idle" /\ paid' = paid /\ (locked' = locked \/ locked = c)
        BY <2>5, PointDoneTyped, PointIdleTyped DEF Commit, Abort
      <3> QED
        BY <1>3, <2>1, <3>1 DEF OneClaim, Claiming
    <2>6. CASE TimeOut(c)
      BY <2>6 DEF TimeOut
    <2>7. CASE Create(c)
      <3>1. /\ pointCall'[c].pc \in {"look", "idle"} /\ UNCHANGED <<paid, locked>>
            /\ pointCall[c].of \in Achievements
        BY <2>7, PointIdleTyped DEF Create, PointTyped, Subject, PointTypeOK, PointRequest
      <3>2. ~Claiming(c)'
        BY <2>1, <3>1, PointIdleTyped DEF Claiming
      <3> QED
        BY <1>3, <2>1, <3>1, <3>2 DEF OneClaim, Claiming
    <2>8. CASE Sync(c) \/ Deduct(c) \/ TakePoints(c) \/ Record(c) \/ SaveProfile(c)
      <3>1. pointCall'[c].pc \notin {"look", "pay", "commit"} /\ UNCHANGED <<paid, locked>>
        BY <2>8, PointIdleTyped
          DEF Sync, Deduct, TakePoints, Record, SaveProfile, PointTyped, PointTypeOK, PointRequest
      <3> QED
        BY <1>3, <2>1, <3>1 DEF OneClaim, Claiming
    <2> QED
      BY <1>3, <2>2, <2>3, <2>4, <2>5, <2>6, <2>7, <2>8 DEF GoesOn
  <1>4. ASSUME OneClaim, UNCHANGED pointVars PROVE OneClaim'
    BY <1>4 DEF pointVars, OneClaim, Claiming
  <1> QED
    BY <1>1, <1>2, <1>3, <1>4, NextIsStep

\* A weekly milestone is paid once for any number of overlapping claims, as long as no
\* claim's transaction times out with its award still open: claims wait for one another at
\* the row of the week (claimWeeklyReward).
THEOREM RewardWeeklyPaidOnce ==
    ASSUME RewardAssumption
    PROVE  PointSpec => []WeeklyPaidOnce
  <1>1. PointInit => PointTyped /\ (late \/ OneClaim)
    <2> SUFFICES ASSUME PointInit PROVE PointTyped /\ OneClaim
      OBVIOUS
    <2>1. \A c \in PointCalls : pointCall[c].pc = "idle"
      BY PointIdleTyped DEF PointInit
    <2>2. \A k \in Milestones : paid[k] = 0
      BY DEF PointInit, Rewards
    <2> QED
      BY <2>1, <2>2, PointInitTyped DEF OneClaim, Claiming
  <1>2. PointTyped /\ (late \/ OneClaim) /\ [PointNext]_pointVars => (PointTyped /\ (late \/ OneClaim))'
    BY PointStepTyped, StepOneClaim
  <1>3. PointTyped /\ (late \/ OneClaim) => WeeklyPaidOnce
    BY DEF OneClaim, WeeklyPaidOnce
  <1> QED
    BY <1>1, <1>2, <1>3, PTL DEF PointSpec

-----------------------------------------------------------------------------
(* Achievements                                                            *)

Unlocking(c) == pointCall[c].pc \in {"look", "pay"} /\ pointCall[c].of \in Achievements

OneUnlock ==
    /\ \A c, d \in PointCalls :
        Unlocking(c) /\ Unlocking(d) /\ pointCall[c].of = pointCall[d].of => c = d
    /\ \A c \in PointCalls :
        Unlocking(c) => pointCall[c].of \in unlocked /\ paid[pointCall[c].of] = 0
    /\ \A k \in Achievements : paid[k] <= 1 /\ (k \notin unlocked => paid[k] = 0)

(* Steps after which the call does not unlock more than before.            *)
LEMMA NoUnlock ==
    ASSUME OneUnlock, NEW c \in PointCalls, \A x \in PointCalls \ {c} : pointCall'[x] = pointCall[x],
           Unlocking(c)' => Unlocking(c) /\ pointCall'[c].of = pointCall[c].of,
           UNCHANGED <<paid, unlocked>>
    PROVE  OneUnlock'
  BY DEF OneUnlock, Unlocking

LEMMA StepOneUnlock ==
    ASSUME RewardAssumption, PointTyped, OneUnlock, [PointNext]_pointVars
    PROVE  OneUnlock'
  <1> USE DEF RewardAssumption
  <1>1. ASSUME NEW c \in PointCalls, Begins(c) PROVE OneUnlock'
    BY <1>1, BeginTyped, NoUnlock DEF Unlocking
  <1>2. ASSUME NEW c \in PointCalls, GoesOn(c) PROVE OneUnlock'
    <2>1. /\ \A x \in PointCalls \ {c} : pointCall'[x] = pointCall[x]
          /\ pointCall'[c] = PointIdle \/ pointCall'[c].of = pointCall[c].of
      BY <1>2, GoesOnTyped
    (* The first row of the achievement: nobody else is paying for it.     *)
    <2>2. CASE Create(c)
      <3> DEFINE k == pointCall[c].of
      <3>1. k \in Achievements /\ unlocked' = unlocked \cup {k} /\ paid' = paid
        BY <2>2 DEF Create, PointTyped, Subject
      <3>2. CASE k \in unlocked
        <4>1. pointCall'[c].pc = "idle" /\ unlocked' = unlocked
          BY <2>2, <3>1, <3>2, PointIdleTyped, PointDoneTyped DEF Create, FirstUnlock
        <4> QED
          BY <2>1, <3>1, <4>1, NoUnlock DEF Unlocking
      <3>3. CASE k \notin unlocked
        <4>1. pointCall'[c].pc = "look" /\ pointCall'[c].of = k
          BY <2>2, <3>3 DEF Create, FirstUnlock, PointTyped, PointTypeOK, PointRequest
        <4>2. \A x \in PointCalls : Unlocking(x) => pointCall[x].of # k
          BY <3>3 DEF OneUnlock
        <4>3. paid[k] = 0
          BY <3>1, <3>3 DEF OneUnlock
        <4> HIDE DEF k
        <4> QED
          BY <2>1, <3>1, <4>1, <4>2, <4>3 DEF OneUnlock, Unlocking
      <3> QED
        BY <3>2, <3>3
    <2>3. CASE Pay(c)
      <3> DEFINE k == pointCall[c].of
      <3>1. k \in Rewards /\ pointCall'[c].pc \in {"commit", "idle"} /\ unlocked' = unlocked
        BY <2>3, PointIdleTyped
          DEF Pay, AfterAward, PointTyped, Subject, PointTypeOK, PointRequest
      <3>2. paid' = [paid EXCEPT ![k] = @ + 1]
        BY <2>3 DEF Pay
      <3>3. k \in Achievements => k \in unlocked /\ paid[k] = 0
        BY <2>3 DEF Pay, OneUnlock, Unlocking
      <3>4. \A x \in PointCalls \ {c} : Unlocking(x) => pointCall[x].of # k
        BY <2>3 DEF Pay, OneUnlock, Unlocking
      <3> HIDE DEF k
      <3>5. \A j \in Rewards : paid'[j] = IF j = k THEN paid[j] + 1 ELSE paid[j]
        BY <3>1, <3>2 DEF PointTyped, PointTypeOK
      <3>6. \A j \in Achievements : paid'[j] <= 1 /\ (j \notin unlocked' => paid'[j] = 0)
        BY <3>1, <3>3, <3>5 DEF OneUnlock, Rewards
      <3>7. \A x \in PointCalls :
               Unlocking(x)' => x # c /\ Unlocking(x) /\ pointCall'[x].of = pointCall[x].of
        BY <2>1, <3>1 DEF Unlocking
      <3>8. \A x \in PointCalls : Unlocking(x)' => paid'[pointCall'[x].of] = 0
        BY <3>4, <3>5, <3>7 DEF OneUnlock, Unlocking, Rewards
      <3> QED
        BY <2>1, <3>1, <3>6, <3>7, <3>8 DEF OneUnlock
    <2>4. CASE Mark(c)
      <3>1. pointCall[c].of \in Milestones /\ UNCHANGED <<paid, unlocked>>
        BY <2>4 DEF Mark, PointTyped, Subject
      <3>2. ~Unlocking(c)'
        BY <2>1, <3>1, PointIdleTyped DEF Unlocking
      <3> QED
        BY <2>1, <3>1, <3>2, NoUnlock
    <2>5. CASE Look(c)
      <3>1. PointAt(c, "look") /\ UNCHANGED <<paid, unlocked>>
        BY <2>5 DEF Look
      <3> QED
        BY <2>1, <3>1, PointIdleTyped, NoUnlock DEF Unlocking
    <2>6. CASE TimeOut(c)
      BY <2>6, NoUnlock DEF TimeOut, Unlocking
    <2>7. CASE \/ Commit(c) \/ Abort(c) \/ Sync(c) \/ Deduct(c) \/ TakePoints(c) \/ Record(c) \/ SaveProfile(c)
      <3>1. pointCall'[c].pc \notin {"look", "pay"} /\ UNCHANGED <<paid, unlocked>>
        BY <2>7, PointIdleTyped
          DEF Commit, Abort, Sync, Deduct, TakePoints, Record, SaveProfile, PointTyped, PointTypeOK,
              PointRequest
      <3> QED
        BY <2>1, <3>1, NoUnlock DEF Unlocking
    <2> QED
      BY <1>2, <2>2, <2>3, <2>4, <2>5, <2>6, <2>7 DEF GoesOn
  <1>3. CASE UNCHANGED pointVars
    BY <1>3 DEF pointVars, OneUnlock, Unlocking
  <1> QED
    BY <1>1, <1>2, <1>3, NextIsStep

\* An achievement is paid once, for any overlapping checks and failures: the unique key of
\* its row admits one award (checkAndUnlockAchievements).
THEOREM RewardAchievementPaidOnce ==
    ASSUME RewardAssumption
    PROVE  PointSpec => []AchievementPaidOnce
  <1>1. PointInit => PointTyped /\ OneUnlock
    <2> SUFFICES ASSUME PointInit PROVE PointTyped /\ OneUnlock
      OBVIOUS
    <2>1. \A c \in PointCalls : pointCall[c].pc = "idle"
      BY PointIdleTyped DEF PointInit
    <2>2. \A k \in Achievements : paid[k] = 0
      BY DEF PointInit, Rewards
    <2> QED
      BY <2>1, <2>2, PointInitTyped DEF OneUnlock, Unlocking
  <1>2. PointTyped /\ OneUnlock /\ [PointNext]_pointVars => (PointTyped /\ OneUnlock)'
    BY PointStepTyped, StepOneUnlock
  <1>3. PointTyped /\ OneUnlock => AchievementPaidOnce
    BY DEF OneUnlock, AchievementPaidOnce
  <1> QED
    BY <1>1, <1>2, <1>3, PTL DEF PointSpec

-----------------------------------------------------------------------------
(* awardPoints alone                                                       *)

\* Calls that have found no row of the reward, and are about to write one.
Paying(k) == {c \in PointCalls : PointAt(c, "pay") /\ pointCall[c].of = k}

PaymentsPromised ==
    \A k \in Rewards : paid[k] + Cardinality(Paying(k)) <= Cardinality(PointCalls)

LEMMA PointCounted ==
    ASSUME RewardAssumption
    PROVE  /\ \A C \in SUBSET PointCalls :
                 /\ IsFiniteSet(C) /\ Cardinality(C) \in Nat
                 /\ Cardinality(C) <= Cardinality(PointCalls)
                 /\ \A D \in SUBSET C : Cardinality(D) <= Cardinality(C)
           /\ Cardinality(PointCalls) \in Nat /\ Cardinality(PointCalls) >= 1
  <1>1. \A C \in SUBSET PointCalls :
           /\ IsFiniteSet(C) /\ Cardinality(C) \in Nat
           /\ Cardinality(C) <= Cardinality(PointCalls)
           /\ \A D \in SUBSET C : Cardinality(D) <= Cardinality(C)
    BY FS_Subset, FS_CardinalityType DEF RewardAssumption
  <1>2. Cardinality(PointCalls) \in Nat /\ Cardinality(PointCalls) # 0
    BY FS_EmptySet, FS_CardinalityType DEF RewardAssumption
  <1> QED
    BY <1>1, <1>2

LEMMA PayingShrinks ==
    ASSUME RewardAssumption, PointTyped, PaymentsPromised, paid' = paid, NEW k \in Rewards,
           Paying(k)' \subseteq Paying(k)
    PROVE  paid'[k] + Cardinality(Paying(k)') <= Cardinality(PointCalls)
  <1>1. Cardinality(Paying(k)') <= Cardinality(Paying(k))
        /\ Cardinality(Paying(k)') \in Nat /\ Cardinality(Paying(k)) \in Nat
    BY PointCounted DEF Paying
  <1> QED
    BY <1>1, PointCounted DEF PaymentsPromised, PointTyped, PointTypeOK

LEMMA StepPayments ==
    ASSUME RewardAssumption, PointTyped, PaymentsPromised, [PointNext]_pointVars
    PROVE  PaymentsPromised'
  <1> SUFFICES ASSUME NEW k \in Rewards
               PROVE  paid'[k] + Cardinality(Paying(k)') <= Cardinality(PointCalls)
    BY DEF PaymentsPromised
  <1>1. paid[k] \in Nat
    BY DEF PointTyped, PointTypeOK
  <1>2. ASSUME NEW c \in PointCalls, Begins(c)
        PROVE  paid'[k] + Cardinality(Paying(k)') <= Cardinality(PointCalls)
    <2>1. paid' = paid /\ Paying(k)' \subseteq Paying(k)
      BY <1>2, BeginTyped DEF Paying
    <2> QED
      BY <2>1, PayingShrinks
  <1>3. ASSUME NEW c \in PointCalls, GoesOn(c)
        PROVE  paid'[k] + Cardinality(Paying(k)') <= Cardinality(PointCalls)
    <2>1. \A x \in PointCalls \ {c} : pointCall'[x] = pointCall[x]
      BY <1>3, GoesOnTyped
    <2>2. CASE Look(c)
      <3>1. paid' = paid
        BY <2>2 DEF Look
      <3>2. CASE pointCall[c].of = k /\ paid[k] = 0
        <4>1. Paying(k)' \subseteq PointCalls
          BY DEF Paying
        <4>2. Cardinality(Paying(k)') <= Cardinality(PointCalls) /\ Cardinality(Paying(k)') \in Nat
          BY <4>1, PointCounted
        <4> QED
          BY <3>1, <3>2, <4>2, PointCounted
      <3>3. CASE ~(pointCall[c].of = k /\ paid[k] = 0)
        <4>1. pointCall'[c].pc # "pay" \/ pointCall'[c].of # k
          BY <2>2, <3>3, PointIdleTyped
            DEF Look, Unpaid, AfterAward, PointTyped, PointTypeOK, PointRequest
        <4>2. Paying(k)' \subseteq Paying(k)
          BY <2>1, <4>1 DEF Paying
        <4> QED
          BY <3>1, <4>2, PayingShrinks
      <3> QED
        BY <3>2, <3>3
    <2>3. CASE Pay(c)
      <3>1. pointCall'[c].pc # "pay" /\ pointCall[c].of \in Rewards
        BY <2>3, PointIdleTyped
          DEF Pay, AfterAward, PointTyped, Subject, PointTypeOK, PointRequest
      <3>2. \A j \in Rewards : paid'[j] = IF j = pointCall[c].of THEN paid[j] + 1 ELSE paid[j]
        BY <2>3, <3>1 DEF Pay, PointTyped, PointTypeOK
      <3>3. IsFiniteSet(Paying(k)) /\ Cardinality(Paying(k)) \in Nat
        BY PointCounted DEF Paying
      <3>4. CASE pointCall[c].of = k
        <4>1. c \in Paying(k) /\ Paying(k)' = Paying(k) \ {c}
          BY <2>1, <2>3, <3>1, <3>4 DEF Pay, Paying
        <4>2. Cardinality(Paying(k) \ {c}) = Cardinality(Paying(k)) - 1
          BY <3>3, <4>1, FS_RemoveElement
        <4> QED
          BY <1>1, <3>2, <3>3, <3>4, <4>1, <4>2, PointCounted DEF PaymentsPromised
      <3>5. CASE pointCall[c].of # k
        <4>1. Paying(k)' = Paying(k) /\ paid'[k] = paid[k]
          BY <2>1, <3>1, <3>2, <3>5 DEF Paying
        <4> QED
          BY <4>1 DEF PaymentsPromised
      <3> QED
        BY <3>4, <3>5
    <2>4. CASE TimeOut(c)
      <3>1. paid' = paid /\ Paying(k)' \subseteq Paying(k)
        BY <2>4 DEF TimeOut, Paying
      <3> QED
        BY <3>1, PayingShrinks
    <2>5. CASE ~Look(c) /\ ~Pay(c) /\ ~TimeOut(c)
      <3>1. pointCall'[c].pc # "pay" /\ paid' = paid
        BY <1>3, <2>5, PointIdleTyped DEF GoesOn, Mark, Commit, Create, Sync, Deduct, TakePoints,
                                     Record, SaveProfile, Abort, PointTyped, PointTypeOK, PointRequest
      <3>2. Paying(k)' \subseteq Paying(k)
        BY <2>1, <3>1 DEF Paying
      <3> QED
        BY <3>1, <3>2, PayingShrinks
    <2> QED
      BY <2>2, <2>3, <2>4, <2>5
  <1>4. CASE UNCHANGED pointVars
    <2>1. paid' = paid /\ Paying(k)' \subseteq Paying(k)
      BY <1>4 DEF pointVars, Paying
    <2> QED
      BY <2>1, PayingShrinks
  <1> QED
    BY <1>2, <1>3, <1>4, NextIsStep

\* However often a reward is awarded, it is paid no more times than calls can overlap
\* (awardPoints, whose check of the ledger is no lock).
THEOREM RewardAwardsBounded ==
    ASSUME RewardAssumption
    PROVE  PointSpec => []AwardsBounded
  <1>1. PointInit => PointTyped /\ PaymentsPromised
    <2> SUFFICES ASSUME PointInit, NEW k \in Rewards
                 PROVE  PointTyped /\ paid[k] + Cardinality(Paying(k)) <= Cardinality(PointCalls)
      BY PointInitTyped DEF PaymentsPromised
    <2>1. paid[k] = 0 /\ Paying(k) = {}
      BY PointIdleTyped DEF PointInit, Paying
    <2> QED
      BY <2>1, PointInitTyped, PointCounted, FS_EmptySet
  <1>2. PointTyped /\ PaymentsPromised /\ [PointNext]_pointVars => (PointTyped /\ PaymentsPromised)'
    BY PointStepTyped, StepPayments
  <1>3. PointTyped /\ PaymentsPromised => AwardsBounded
    <2> SUFFICES ASSUME PointTyped, PaymentsPromised, NEW k \in Rewards
                 PROVE  paid[k] <= Cardinality(PointCalls)
      BY DEF AwardsBounded
    <2>1. Cardinality(Paying(k)) \in Nat /\ paid[k] \in Nat
      BY PointCounted DEF Paying, PointTyped, PointTypeOK
    <2> QED
      BY <2>1, PointCounted DEF PaymentsPromised
  <1> QED
    BY <1>1, <1>2, <1>3, PTL DEF PointSpec

-----------------------------------------------------------------------------
(* Redemptions                                                             *)

LEMMA Multiples ==
    ASSUME NEW c \in Nat, NEW m \in Int, NEW n \in Int
    PROVE  /\ m <= n => c * m <= c * n
           /\ c * (m + 1) = c * m + c /\ c * (m - 1) = c * m - c
           /\ c * m \in Int /\ -(c * m) = c * (-m)
  <1>1. m <= n => c * (n - m) >= 0
    OBVIOUS
  <1>2. c * (n - m) = c * n - c * m
    OBVIOUS
  <1>3. c * m \in Int /\ c * n \in Int
    OBVIOUS
  <1>4. m <= n => c * m <= c * n
    BY <1>1, <1>2, <1>3
  <1>5. c * (m + 1) = c * m + c /\ c * (m - 1) = c * m - c
    OBVIOUS
  <1> QED
    BY <1>3, <1>4, <1>5

(* What n calls waiting to take points may leave of the overdraft.          *)
Margin(n) == MaxCost * (Cardinality(PointCalls) - n)

LEMMA MarginShrinks ==
    ASSUME RewardAssumption, NEW n \in Nat
    PROVE  /\ MaxCost \in Nat /\ Margin(n) \in Int /\ Margin(n - 1) = Margin(n) + MaxCost
           /\ n <= Cardinality(PointCalls) => Margin(n) >= 0
           /\ n < Cardinality(PointCalls) => Margin(n) >= MaxCost
           /\ n >= 1 => Margin(n) <= Margin(1)
  <1> DEFINE N == Cardinality(PointCalls)
  <1>1. N \in Nat /\ N >= 1 /\ MaxCost \in Nat
    BY PointCounted DEF RewardAssumption
  <1> HIDE DEF N
  <1>2. MaxCost * ((N - n) + 1) = MaxCost * (N - n) + MaxCost /\ MaxCost * (N - n) \in Int
    BY <1>1, Multiples
  <1>3. (N - n) + 1 = N - (n - 1)
    BY <1>1
  <1>4. n <= N => MaxCost * 0 <= MaxCost * (N - n)
    BY <1>1, Multiples
  <1>5. n < N => MaxCost * 1 <= MaxCost * (N - n)
    BY <1>1, Multiples
  <1>6. n >= 1 => MaxCost * (N - n) <= MaxCost * (N - 1)
    BY <1>1, Multiples
  <1>7. MaxCost * 0 = 0 /\ MaxCost * 1 = MaxCost
    BY <1>1
  <1> QED
    BY <1>1, <1>2, <1>3, <1>4, <1>5, <1>6, <1>7 DEF Margin, N

(* Calls that have found the balance worth their price.                     *)
Pending == {c \in PointCalls : PointAt(c, "take")}

(* The last of them to look saw its price, and the others take at most     *)
(* the highest price each.                                                 *)
OverdraftPromised ==
    \/ Pending = {} /\ balance >= -Margin(1)
    \/ \E w \in Pending : balance >= pointCall[w].cost - Margin(Cardinality(Pending))

LEMMA OverdraftIsBounded ==
    ASSUME RewardAssumption, PointTyped, OverdraftPromised
    PROVE  OverdraftBounded
  <1>1. balance \in Int
    BY DEF PointTyped, PointTypeOK
  <1>2. balance >= -Margin(1)
    <2>1. CASE Pending = {} /\ balance >= -Margin(1)
      BY <2>1
    <2>2. ASSUME NEW w \in Pending, balance >= pointCall[w].cost - Margin(Cardinality(Pending))
          PROVE  balance >= -Margin(1)
      <3>1. pointCall[w].cost \in Nat
        BY DEF Pending, PointTyped, PointTypeOK, PointRequest, RewardAssumption
      <3>2. Cardinality(Pending) \in Nat /\ Cardinality(Pending) # 0
        BY PointCounted, FS_EmptySet DEF Pending
      <3>3. Margin(Cardinality(Pending)) <= Margin(1) /\ Margin(Cardinality(Pending)) \in Int
        BY <3>2, MarginShrinks
      <3>4. Margin(1) \in Int
        BY MarginShrinks
      <3> QED
        BY <1>1, <2>2, <3>1, <3>3, <3>4
    <2> QED
      BY <2>1, <2>2 DEF OverdraftPromised
  <1> QED
    BY <1>2 DEF OverdraftBounded, Margin

(* Steps after which the same calls wait, and the balance is not lower.    *)
LEMMA OverdraftStays ==
    ASSUME RewardAssumption, PointTyped, balance' \in Int, OverdraftPromised, balance' >= balance,
           Pending' = Pending, \A w \in Pending : pointCall'[w] = pointCall[w]
    PROVE  OverdraftPromised'
  <1>1. balance \in Int /\ Margin(1) \in Int
    BY MarginShrinks DEF PointTyped, PointTypeOK
  <1>2. \A w \in Pending : pointCall[w].cost \in Nat
    BY DEF Pending, PointTyped, PointTypeOK, PointRequest, RewardAssumption
  <1>3. Margin(Cardinality(Pending)) \in Int
    BY PointCounted, MarginShrinks DEF Pending
  <1>4. CASE Pending = {} /\ balance >= -Margin(1)
    <2>1. balance' >= -Margin(1) /\ Margin(1)' = Margin(1)
      BY <1>1, <1>4 DEF Margin
    <2> QED
      BY <1>4, <2>1 DEF OverdraftPromised
  <1>5. ASSUME NEW w \in Pending, balance >= pointCall[w].cost - Margin(Cardinality(Pending))
        PROVE  OverdraftPromised'
    <2>1. balance' >= pointCall'[w].cost - Margin(Cardinality(Pending))
      BY <1>1, <1>2, <1>3, <1>5
    <2>2. Margin(Cardinality(Pending))' = Margin(Cardinality(Pending))
      BY DEF Margin
    <2> QED
      BY <1>5, <2>1, <2>2 DEF OverdraftPromised
  <1> QED
    BY <1>4, <1>5 DEF OverdraftPromised

(* A call stops to wait, and takes its price or nothing.                   *)
LEMMA OverdraftTaken ==
    ASSUME RewardAssumption, PointTyped, balance' \in Int, OverdraftPromised,
           NEW c \in Pending, balance' >= balance - pointCall[c].cost,
           Pending' = Pending \ {c}, \A w \in Pending' : pointCall'[w] = pointCall[w]
    PROVE  OverdraftPromised'
  <1> DEFINE n == Cardinality(Pending)
  <1>1. n \in Nat /\ n # 0 /\ Cardinality(Pending') = n - 1 /\ n - 1 \in Nat
    <2>1. IsFiniteSet(Pending) /\ n \in Nat
      BY PointCounted DEF Pending
    <2>2. n # 0 /\ Cardinality(Pending \ {c}) = n - 1
      BY <2>1, FS_EmptySet, FS_RemoveElement
    <2> HIDE DEF n
    <2> QED
      BY <2>1, <2>2
  <1>2. Margin(n - 1) = Margin(n) + MaxCost /\ Margin(n) \in Int /\ MaxCost \in Nat
    BY <1>1, MarginShrinks
  <1>3. balance \in Int /\ \A w \in Pending : pointCall[w].cost \in 0..MaxCost
    BY DEF Pending, PointTyped, PointTypeOK, PointRequest
  <1>4. PICK w \in Pending : balance >= pointCall[w].cost - Margin(n)
    BY DEF OverdraftPromised
  <1>5. CASE Pending' = {}
    <2>1. w = c /\ n = 1
      <3>1. w = c
        BY <1>5
      <3>2. n - 1 = 0
        BY <1>1, <1>5, FS_EmptySet
      <3> QED
        BY <1>1, <3>1, <3>2
    <2>2. balance' >= -Margin(1)
      <3> HIDE DEF n
      <3> QED
        BY <1>2, <1>3, <1>4, <2>1
    <2> QED
      BY <1>5, <2>2 DEF OverdraftPromised, Margin
  <1>6. CASE Pending' # {}
    <2>1. PICK v \in Pending' : w = c \/ v = w
      BY <1>6
    <2>2. pointCall'[v] = pointCall[v] /\ v \in Pending
      OBVIOUS
    <2>3. balance' >= pointCall'[v].cost - Margin(n - 1)
      <3> HIDE DEF n
      <3> QED
        BY <1>2, <1>3, <1>4, <2>1, <2>2
    <2>4. balance' >= pointCall'[v].cost - Margin(Cardinality(Pending'))
      BY <1>1, <2>3
    <2> QED
      BY <2>4 DEF OverdraftPromised, Margin
  <1> QED
    BY <1>5, <1>6

LEMMA StepOverdraft ==
    ASSUME RewardAssumption, PointTyped, OverdraftPromised, [PointNext]_pointVars
    PROVE  OverdraftPromised'
  <1>1. balance \in Int /\ balance' \in Int /\ MaxCost \in Nat
    BY PointStepTyped DEF PointTyped, PointTypeOK, RewardAssumption
  <1>2. ASSUME NEW c \in PointCalls, Begins(c) PROVE OverdraftPromised'
    <2>1. /\ balance' = balance /\ PointAt(c, "idle") /\ pointCall'[c].pc # "take"
          /\ \A x \in PointCalls \ {c} : pointCall'[x] = pointCall[x]
      BY <1>2, BeginTyped
    <2>2. Pending' = Pending /\ c \notin Pending
      BY <2>1 DEF Pending
    <2> QED
      BY <1>1, <2>1, <2>2, OverdraftStays DEF Pending
  <1>3. ASSUME NEW c \in PointCalls, GoesOn(c) PROVE OverdraftPromised'
    <2>1. \A x \in PointCalls \ {c} : pointCall'[x] = pointCall[x]
      BY <1>3, GoesOnTyped
    (* The balance is worth the price, and all calls at most wait.         *)
    <2>2. CASE Deduct(c) /\ Affordable(c)
      <3>1. /\ balance' = balance /\ balance >= pointCall[c].cost
            /\ pointCall'[c].pc = "take" /\ pointCall'[c].cost = pointCall[c].cost
        BY <2>2 DEF Deduct, Affordable, PointTyped, PointTypeOK, PointRequest
      <3>2. c \in Pending' /\ Pending' \subseteq PointCalls
        BY <3>1 DEF Pending
      <3>3. Margin(Cardinality(Pending')) >= 0 /\ Margin(Cardinality(Pending')) \in Int
        BY <3>2, PointCounted, MarginShrinks
      <3>4. pointCall[c].cost \in Nat
        BY DEF PointTyped, PointTypeOK, PointRequest, RewardAssumption
      <3>5. balance' >= pointCall'[c].cost - Margin(Cardinality(Pending'))
        BY <1>1, <3>1, <3>3, <3>4
      <3> QED
        BY <3>2, <3>5 DEF OverdraftPromised, Margin
    <2>3. CASE TakePoints(c)
      <3>1. /\ c \in Pending /\ pointCall'[c].pc = "record"
            /\ balance' = balance - pointCall[c].cost
        BY <2>3 DEF TakePoints, Pending, PointTyped, PointTypeOK, PointRequest
      <3>2. Pending' = Pending \ {c}
        BY <2>1, <3>1 DEF Pending
      <3>3. balance' >= balance - pointCall[c].cost
        BY <1>1, <3>1
      <3> QED
        BY <1>1, <2>1, <3>1, <3>2, <3>3, OverdraftTaken DEF Pending
    (* The call that sets the balance waits for nothing itself.            *)
    <2>4. CASE Sync(c)
      <3>1. pointCall'[c].pc # "take" /\ pointCall[c].pc # "take" /\ balance' \in Nat
        BY <2>4, PointIdleTyped DEF Sync, PointTyped, PointTypeOK, PointRequest, RewardAssumption
      <3>2. Pending' = Pending /\ Pending \subseteq PointCalls \ {c} /\ IsFiniteSet(PointCalls)
        BY <2>1, <3>1 DEF Pending, RewardAssumption
      <3>3. Cardinality(PointCalls \ {c}) = Cardinality(PointCalls) - 1
        BY <3>2, FS_RemoveElement
      <3>4. /\ Cardinality(Pending) \in Nat /\ Cardinality(PointCalls) \in Nat
            /\ Cardinality(Pending) <= Cardinality(PointCalls \ {c})
        BY <3>2, PointCounted
      <3>5. Margin(Cardinality(Pending)) >= MaxCost /\ Margin(Cardinality(Pending)) \in Int
        BY <3>3, <3>4, MarginShrinks
      <3>6. CASE Pending = {}
        <4>1. Margin(1) >= 0 /\ Margin(1) \in Int
          BY PointCounted, MarginShrinks
        <4>2. balance' >= -Margin(1)
          BY <3>1, <4>1
        <4> QED
          BY <3>2, <3>6, <4>2 DEF OverdraftPromised, Margin
      <3>7. ASSUME NEW w \in Pending PROVE OverdraftPromised'
        <4>1. pointCall'[w] = pointCall[w] /\ pointCall[w].cost \in 0..MaxCost
          BY <2>1, <3>2 DEF Pending, PointTyped, PointTypeOK, PointRequest
        <4>2. balance' >= pointCall'[w].cost - Margin(Cardinality(Pending))
          BY <1>1, <3>1, <3>5, <4>1
        <4> QED
          BY <3>2, <4>2 DEF OverdraftPromised, Margin
      <3> QED
        BY <3>6, <3>7
    <2>5. CASE Abort(c)
      <3>1. balance' = balance /\ pointCall'[c].pc = "idle"
        BY <2>5, PointDoneTyped, PointIdleTyped DEF Abort
      <3>2. CASE c \in Pending
        <4>1. Pending' = Pending \ {c}
          BY <2>1, <3>1 DEF Pending
        <4>2. pointCall[c].cost \in Nat
          BY DEF PointTyped, PointTypeOK, PointRequest, RewardAssumption
        <4>3. balance' >= balance - pointCall[c].cost
          BY <1>1, <3>1, <4>2
        <4> QED
          BY <1>1, <2>1, <3>2, <4>1, <4>3, OverdraftTaken DEF Pending
      <3>3. CASE c \notin Pending
        <4>1. Pending' = Pending
          BY <2>1, <3>1, <3>3 DEF Pending
        <4> QED
          BY <1>1, <2>1, <3>1, <3>3, <4>1, OverdraftStays DEF Pending
      <3> QED
        BY <3>2, <3>3
    <2>6. CASE ~(Deduct(c) /\ Affordable(c)) /\ ~TakePoints(c) /\ ~Sync(c) /\ ~Abort(c)
      <3>1. balance' >= balance
        BY <1>1, <1>3, <2>6 DEF GoesOn, Look, Pay, Mark, Commit, TimeOut, Create, Deduct, Record,
                                SaveProfile
      <3>2. (pointCall'[c].pc # "take" /\ ~PointAt(c, "take")) \/ pointCall' = pointCall
        BY <1>3, <2>6, PointIdleTyped DEF GoesOn, Look, Pay, AfterAward, Mark, Commit, TimeOut, Create,
                               Deduct, Record, SaveProfile, PointTyped, PointTypeOK, PointRequest
      <3>3. Pending' = Pending /\ \A w \in Pending : pointCall'[w] = pointCall[w]
        BY <2>1, <3>2 DEF Pending
      <3> QED
        BY <1>1, <3>1, <3>3, OverdraftStays
    <2> QED
      BY <2>2, <2>3, <2>4, <2>5, <2>6
  <1>4. CASE UNCHANGED pointVars
    <2>1. balance' = balance /\ Pending' = Pending /\ pointCall' = pointCall
      BY <1>4 DEF pointVars, Pending
    <2> QED
      BY <1>1, <2>1, OverdraftStays
  <1> QED
    BY <1>2, <1>3, <1>4, NextIsStep

\* Overlapping redemptions overdraw the balance by at most the highest price for each call
\* beside the first, and no more, the resync included (deductPoints).
THEOREM RewardOverdraftBounded ==
    ASSUME RewardAssumption
    PROVE  PointSpec => []OverdraftBounded
  <1>1. PointInit => PointTyped /\ OverdraftPromised
    <2> SUFFICES ASSUME PointInit PROVE OverdraftPromised
      BY PointInitTyped
    <2>1. balance = 0 /\ Pending = {}
      BY PointIdleTyped DEF PointInit, Pending
    <2>2. Margin(1) >= 0 /\ Margin(1) \in Int
      BY PointCounted, MarginShrinks
    <2> QED
      BY <2>1, <2>2 DEF OverdraftPromised
  <1>2. PointTyped /\ OverdraftPromised /\ [PointNext]_pointVars => (PointTyped /\ OverdraftPromised)'
    BY PointStepTyped, StepOverdraft
  <1>3. PointTyped /\ OverdraftPromised => OverdraftBounded
    BY OverdraftIsBounded
  <1> QED
    BY <1>1, <1>2, <1>3, PTL DEF PointSpec

=============================================================================
