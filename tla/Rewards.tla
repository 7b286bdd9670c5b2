------------------------------ MODULE Rewards ------------------------------
(***************************************************************************)
(* One user's Arena Points: what awardPoints and deductPoints do to the     *)
(* balance and the ledger, and the callers that rely on them: the weekly    *)
(* claim, achievements, battle rewards, redemptions and the balance resync; *)
(* and the metadata document of the user, where what is redeemed is stored. *)
(*                                                                         *)
(* Transactions run at READ COMMITTED.  An increment and its ledger row are *)
(* one step, since they are committed together and the increment reads the  *)
(* row it locks; every read before them is a step of its own.  Every reward *)
(* is one point; which milestones have been reached, and what a battle is   *)
(* worth, is left open.                                                     *)
(***************************************************************************)
EXTENDS Integers, FiniteSets

CONSTANTS
    Milestones,     \* weekly thresholds
    Achievements,
    Battles,        \* rated battles that end
    Items,          \* what the vault sells
    MaxCost,        \* bound of the model: the price a request may name
    Baselines,      \* what the resync may compute from the user's record
    PointCalls,     \* calls that can be in flight at once
    NoSession,
    MaxPointFaults  \* bound of the model: transactions that time out, calls that die

Rewards == Milestones \cup Achievements \cup Battles

\* What the proofs assume of the constants.
RewardAssumption ==
    /\ Milestones \cap Achievements = {}
    /\ (Milestones \cup Achievements) \cap Battles = {}
    /\ MaxCost \in Nat /\ Baselines \subseteq Nat /\ MaxPointFaults \in Nat
    /\ IsFiniteSet(PointCalls) /\ PointCalls # {} /\ NoSession \notin PointCalls

VARIABLES
    balance,        \* User.arenaPoints
    paid,           \* ledger rows of each reward
    bought,         \* items with a redemption row in the ledger
    vault,          \* items in the user's metadata document
    given,          \* history: items a request stored without a price
    spoiled,        \* history: the document was written under a call with a copy of it, a
                    \* client sent one of its own, or a call died between payment and item
    marks,          \* WeeklyActivity.claimedMilestones, as committed
    locked,         \* whose open transaction has written the WeeklyActivity row
    unlocked,       \* UserAchievement rows
    pointCall,      \* the calls in flight
    pointFaults,
    late            \* history: a claim's transaction timed out while its award was open

ledger == <<balance, paid, bought>>
document == <<vault, given, spoiled>>
weekly == <<marks, locked>>
pointVars == <<ledger, document, weekly, unlocked, pointCall, pointFaults, late>>

PointSteps == {"idle", "mark", "create", "look", "pay", "commit",
               "sync", "deduct", "take", "record", "resync", "save"}

PointRequest == [pc : PointSteps, of : Rewards \cup Items \cup {NoSession},
                 marks : SUBSET Milestones, vault : SUBSET Items,
                 cost : 0..MaxCost, baseline : Baselines \cup {0}]

PointIdle == [pc |-> "idle", of |-> NoSession, marks |-> {}, vault |-> {},
              cost |-> 0, baseline |-> 0]

PointTypeOK ==
    /\ balance \in Int
    /\ paid \in [Rewards -> Nat]
    /\ bought \subseteq Items /\ vault \subseteq Items
    /\ given \subseteq Items /\ spoiled \in BOOLEAN
    /\ marks \subseteq Milestones
    /\ locked \in PointCalls \cup {NoSession}
    /\ unlocked \subseteq Achievements
    /\ pointCall \in [PointCalls -> PointRequest]
    /\ pointFaults \in 0..MaxPointFaults
    /\ late \in BOOLEAN

PointInit ==
    /\ balance = 0
    /\ paid = [k \in Rewards |-> 0]
    /\ bought = {} /\ vault = {}
    /\ given = {} /\ spoiled = FALSE
    /\ marks = {} /\ locked = NoSession
    /\ unlocked = {}
    /\ pointCall = [c \in PointCalls |-> PointIdle]
    /\ pointFaults = 0 /\ late = FALSE

PointAt(c, step) == pointCall[c].pc = step
PointGoes(c, step) == pointCall' = [pointCall EXCEPT ![c].pc = step]
PointDone(c) == pointCall' = [pointCall EXCEPT ![c] = PointIdle]
Begin(c, step, k) ==
    pointCall' = [pointCall EXCEPT ![c] = [PointIdle EXCEPT !.pc = step, !.of = k]]

PointMisfortune == pointFaults < MaxPointFaults /\ pointFaults' = pointFaults + 1

-----------------------------------------------------------------------------
(* awardPoints                                                             *)

\* Where a call goes on once the award has returned, paid or not.
AfterAward(c) == IF pointCall[c].of \in Milestones THEN PointGoes(c, "commit") ELSE PointDone(c)

\* Variant: no check.
Unpaid_unchecked(k) == TRUE

\* The idempotency check; no unique key backs it.
Unpaid(k) == paid[k] = 0

Look(c) ==
    /\ PointAt(c, "look")
    /\ IF Unpaid(pointCall[c].of) THEN PointGoes(c, "pay") ELSE AfterAward(c)
    /\ UNCHANGED <<ledger, document, weekly, unlocked, pointFaults, late>>

Pay(c) ==
    /\ PointAt(c, "pay")
    /\ balance' = balance + 1
    /\ paid' = [paid EXCEPT ![pointCall[c].of] = @ + 1]
    /\ AfterAward(c)
    /\ UNCHANGED <<bought, document, weekly, unlocked, pointFaults, late>>

\* processBattleReward, one call for each finalization of the battle.
BattleReward(c, k) ==
    /\ PointAt(c, "idle")
    /\ Begin(c, "look", k)
    /\ UNCHANGED <<ledger, document, weekly, unlocked, pointFaults, late>>

-----------------------------------------------------------------------------
(* claimWeeklyReward: the award runs inside the callback of the claim's     *)
(* transaction, but in a transaction of its own.                            *)

ClaimWeekly(c, k) ==
    /\ PointAt(c, "idle")
    /\ k \notin marks
    /\ pointCall' = [pointCall EXCEPT ![c] = [PointIdle EXCEPT
                        !.pc = "mark", !.of = k, !.marks = marks]]
    /\ UNCHANGED <<ledger, document, weekly, unlocked, pointFaults, late>>

\* Variant: the claim does not touch the row before it awards.
RowFree_ignored == TRUE

\* The update waits for whoever has the row.
RowFree == locked = NoSession

\* Variant: the marks are stored by a statement of their own, before the award.
Mark_outside(c) ==
    /\ PointAt(c, "mark")
    /\ RowFree
    /\ marks' = pointCall[c].marks \cup {pointCall[c].of}
    /\ locked' = c
    /\ PointGoes(c, "look")
    /\ UNCHANGED <<ledger, document, unlocked, pointFaults, late>>

Mark(c) ==
    /\ PointAt(c, "mark")
    /\ RowFree
    /\ locked' = c
    /\ PointGoes(c, "look")
    /\ UNCHANGED <<ledger, document, marks, unlocked, pointFaults, late>>

\* The whole array is written, as computed from the record read at first.  A
\* transaction that has timed out cannot be committed.
Commit(c) ==
    /\ PointAt(c, "commit")
    /\ IF locked = c
       THEN marks' = pointCall[c].marks \cup {pointCall[c].of} /\ locked' = NoSession
       ELSE UNCHANGED weekly
    /\ PointDone(c)
    /\ UNCHANGED <<ledger, document, unlocked, pointFaults, late>>

\* Five seconds have passed: the claim is rolled back, the award goes on.
TimeOut(c) ==
    /\ locked = c
    /\ PointMisfortune
    /\ locked' = NoSession
    /\ late' = TRUE
    /\ UNCHANGED <<ledger, document, marks, unlocked, pointCall>>

-----------------------------------------------------------------------------
(* checkAndUnlockAchievements, one achievement of its loop                 *)

Unlock(c, k) ==
    /\ PointAt(c, "idle")
    /\ k \notin unlocked
    /\ Begin(c, "create", k)
    /\ UNCHANGED <<ledger, document, weekly, unlocked, pointFaults, late>>

\* Variant: the key (userId, achievementKey) is not unique.
FirstUnlock_any(k) == TRUE

FirstUnlock(k) == k \notin unlocked

Create(c) ==
    /\ PointAt(c, "create")
    /\ unlocked' = unlocked \cup {pointCall[c].of}
    /\ IF FirstUnlock(pointCall[c].of) THEN PointGoes(c, "look") ELSE PointDone(c)
    /\ UNCHANGED <<ledger, document, weekly, pointFaults, late>>

-----------------------------------------------------------------------------
(* POST /rewards/redeem and POST /rewards/sync-balance                      *)

\* The user's record is read: the balance, the vault, and all the baseline counts.  The
\* price is what the request says.
Redeem(c, i, k) ==
    /\ PointAt(c, "idle")
    /\ \E b \in Baselines :
         pointCall' = [pointCall EXCEPT ![c] = [PointIdle EXCEPT
                    !.pc = IF balance < k /\ b >= k THEN "sync" ELSE "deduct",
                    !.of = i, !.vault = vault, !.cost = k,
                    !.baseline = IF balance < k /\ b >= k THEN b ELSE 0]]
    /\ UNCHANGED <<ledger, document, weekly, unlocked, pointFaults, late>>

\* A request without a price, or an admin's: nothing is deducted.
RedeemFree(c, i) ==
    /\ PointAt(c, "idle")
    /\ pointCall' = [pointCall EXCEPT ![c] = [PointIdle EXCEPT
                        !.pc = "record", !.of = i, !.vault = vault]]
    /\ given' = given \cup {i}
    /\ UNCHANGED <<ledger, vault, spoiled, weekly, unlocked, pointFaults, late>>

\* The balance is set to the baseline, whatever either has become.
Sync(c) ==
    /\ pointCall[c].pc \in {"sync", "resync"}
    /\ balance' = pointCall[c].baseline
    /\ IF PointAt(c, "sync")
       THEN pointCall' = [pointCall EXCEPT ![c].pc = "deduct", ![c].baseline = 0]
       ELSE PointDone(c)
    /\ UNCHANGED <<paid, bought, document, weekly, unlocked, pointFaults, late>>

\* Variant: whoever has points may spend them.
Affordable_any(c) == balance > 0

Affordable(c) == balance >= pointCall[c].cost

\* Variant: what cannot be paid is unlocked all the same.
Deduct_unpaid(c) ==
    /\ PointAt(c, "deduct")
    /\ PointGoes(c, IF Affordable(c) THEN "take" ELSE "record")
    /\ UNCHANGED <<ledger, document, weekly, unlocked, pointFaults, late>>

\* deductPoints: the balance is tested ...
Deduct(c) ==
    /\ PointAt(c, "deduct")
    /\ IF Affordable(c) THEN PointGoes(c, "take") ELSE PointDone(c)
    /\ UNCHANGED <<ledger, document, weekly, unlocked, pointFaults, late>>

\* ... and decremented.
TakePoints(c) ==
    /\ PointAt(c, "take")
    /\ balance' = balance - pointCall[c].cost
    /\ bought' = bought \cup {pointCall[c].of}
    /\ PointGoes(c, "record")
    /\ UNCHANGED <<paid, document, weekly, unlocked, pointFaults, late>>

\* Calls with a copy of the document.
Holding(c) == pointCall[c].pc \in {"sync", "deduct", "take", "record", "save"}

\* Writing the document leaves other calls' copies of it behind.
Outdates(c) == \E x \in PointCalls \ {c} : Holding(x)

Unlocks(c) == pointCall[c].vault \cup {pointCall[c].of}

\* The metadata document is replaced, with what was in it when the request came.
Record(c) ==
    /\ PointAt(c, "record")
    /\ vault' = Unlocks(c)
    /\ spoiled' = (spoiled \/ Outdates(c))
    /\ PointDone(c)
    /\ UNCHANGED <<ledger, given, weekly, unlocked, pointFaults, late>>

\* Variant: the document is written anew, with the profile in it only.
KeptUnlocks_none == {}

\* What an edit of the profile leaves of the vault.
KeptUnlocks == vault

\* Whatever else is kept in the document (the theme, the faculty profile, the photo) is
\* changed in a copy of it; POST /users takes what the request says of the vault, too.
EditProfile(c, own, items) ==
    /\ PointAt(c, "idle")
    /\ pointCall' = [pointCall EXCEPT ![c] = [PointIdle EXCEPT
                        !.pc = "save", !.vault = IF own THEN items ELSE KeptUnlocks]]
    /\ IF own
       THEN given' = given \cup items /\ spoiled' = TRUE
       ELSE UNCHANGED <<given, spoiled>>
    /\ UNCHANGED <<ledger, vault, weekly, unlocked, pointFaults, late>>

SaveProfile(c) ==
    /\ PointAt(c, "save")
    /\ vault' = pointCall[c].vault
    /\ spoiled' = (spoiled \/ Outdates(c))
    /\ PointDone(c)
    /\ UNCHANGED <<ledger, given, weekly, unlocked, pointFaults, late>>

SyncBalance(c) ==
    /\ PointAt(c, "idle")
    /\ \E b \in Baselines :
         /\ balance < b
         /\ pointCall' = [pointCall EXCEPT ![c] = [PointIdle EXCEPT
                            !.pc = "resync", !.baseline = b]]
    /\ UNCHANGED <<ledger, document, weekly, unlocked, pointFaults, late>>

\* A call throws or its process dies; its open transaction is rolled back.
Abort(c) ==
    /\ ~PointAt(c, "idle")
    /\ PointMisfortune
    /\ locked' = IF locked = c THEN NoSession ELSE locked
    /\ PointDone(c)
    /\ spoiled' = (spoiled \/ PointAt(c, "record"))
    /\ UNCHANGED <<ledger, vault, given, marks, unlocked, late>>

PointNext ==
    \E c \in PointCalls :
        \/ Look(c) \/ Pay(c)
        \/ \E k \in Battles : BattleReward(c, k)
        \/ \E k \in Milestones : ClaimWeekly(c, k)
        \/ Mark(c) \/ Commit(c) \/ TimeOut(c)
        \/ \E k \in Achievements : Unlock(c, k)
        \/ Create(c)
        \/ \E i \in Items :
            \/ \E k \in 1..MaxCost : Redeem(c, i, k)
            \/ RedeemFree(c, i)
        \/ \E own \in BOOLEAN, items \in SUBSET Items : EditProfile(c, own, items)
        \/ SaveProfile(c)
        \/ Sync(c) \/ Deduct(c) \/ TakePoints(c) \/ Record(c)
        \/ SyncBalance(c) \/ Abort(c)

PointSpec == PointInit /\ [][PointNext]_pointVars

-----------------------------------------------------------------------------
\* A weekly milestone is paid once, though marks are written over by stale copies and
\* awardPoints' own check is no lock: the row of the week, which the claim writes before
\* it awards, makes claims wait for one another.  The exception is a claim whose
\* transaction has timed out with its award still running.
WeeklyPaidOnce == late \/ \A k \in Milestones : paid[k] <= 1

\* A milestone is marked as claimed only if its points were paid: the award is committed
\* before the claim is.
MarkedIsPaid == \A k \in marks : paid[k] >= 1

\* An achievement is paid once, whatever fails: the unique key admits one award.
AchievementPaidOnce == \A k \in Achievements : paid[k] <= 1

\* awardPoints alone, as a battle's finalizations use it: no more payments than calls
\* can overlap, however many come after.
AwardsBounded == \A k \in Rewards : paid[k] <= Cardinality(PointCalls)

\* Overlapping redemptions overdraw the balance by at most the highest price for each call
\* beside the first, the resync included (deductPoints).
OverdraftBounded == balance >= -(MaxCost * (Cardinality(PointCalls) - 1))

\* Nothing is in the vault that the ledger has no redemption of, but for what a request
\* stored without a price: whole documents are written from stale copies, which may lose
\* an item but do not give one away that was never paid.
UnlockedIsPaid == vault \subseteq bought \cup given

\* What was paid for gets into the vault and stays there, whatever else is changed in the
\* document, as long as no writer of the document overlaps another and no call dies between
\* the payment and the item.
PaidIsKept ==
    spoiled \/ bought \subseteq vault \cup {pointCall[c].of : c \in {x \in PointCalls : PointAt(x, "record")}}
=============================================================================
