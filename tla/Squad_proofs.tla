---------------------------- MODULE Squad_proofs ----------------------------
(* Proofs about Squad: types, that approvals which count cover the roster, *)
(* that an agreement starts a countdown, and how far a team can be         *)
(* overfilled.  And about SquadScore: what the Redis lock does for the     *)
(* score of a team although whole documents are written back from stale    *)
(* copies.                                                                 *)
EXTENDS Squad, SquadScore, FiniteSetTheorems, TLAPS

\* Steps of a call about somebody who joins or is kicked.
Naming == {"captain", "insert", "unseat"}

UserKnown == \A c \in SquadCalls : squadCall[c].pc \in Naming => squadCall[c].user \in Combatants

SquadTyped == SquadTypeOK /\ UserKnown

USE DEF CallAt, CallEnds, CallGoes, roster, votes

-----------------------------------------------------------------------------
(* Types                                                                   *)

LEMMA SquadIdleTyped == NoCall \in SquadRequest /\ NoCall.pc = "idle"
  BY DEF NoCall, SquadRequest, Sides

LEMMA SquadInitTyped ==
    ASSUME SquadAssumption, SquadInit
    PROVE  SquadTyped
  <1>1. SquadTypeOK
    <2>1. binding \in [Sides -> BOOLEAN] /\ fizzled \in BOOLEAN
      BY Zenon DEF SquadInit
    <2>2. seen \in [Sides -> SUBSET Combatants] /\ approval \in [Sides -> Nat]
      BY DEF SquadInit
    <2>3. team \in [Combatants -> Sides \cup {"NONE", "OUT"}] /\ captain \in [Sides -> Combatants]
      BY DEF SquadInit, Sides, SquadAssumption
    <2> QED
      BY <2>1, <2>2, <2>3, SquadIdleTyped DEF SquadAssumption, SquadInit, SquadTypeOK, Lobby
  <1>2. UserKnown
    BY SquadIdleTyped DEF SquadInit, UserKnown, Naming
  <1> QED
    BY <1>1, <1>2 DEF SquadTyped

(* A step that gives one session a well-typed call keeps call typed.       *)
LEMMA SquadCallTyped ==
    ASSUME SquadTyped, NEW c \in SquadCalls, NEW r \in SquadRequest,
           r.pc \in Naming => r.user \in Combatants,
           squadCall' = [squadCall EXCEPT ![c] = r]
    PROVE  squadCall' \in [SquadCalls -> SquadRequest] /\ UserKnown'
  BY DEF SquadTyped, SquadTypeOK, UserKnown

(* A call that ends, or goes on to another step.                           *)
LEMMA SquadDoneTyped ==
    ASSUME SquadTyped, NEW c \in SquadCalls, CallEnds(c)
    PROVE  squadCall' \in [SquadCalls -> SquadRequest] /\ UserKnown'
  BY SquadIdleTyped, SquadCallTyped DEF Naming

LEMMA SquadGotoTyped ==
    ASSUME SquadTyped, NEW c \in SquadCalls, NEW step,
           step \in {"captain", "insert", "stamp", "count", "unseat", "validate", "start"},
           step \in Naming => squadCall[c].pc \in Naming,
           CallGoes(c, step)
    PROVE  squadCall' \in [SquadCalls -> SquadRequest] /\ UserKnown'
  <1> DEFINE r == [squadCall[c] EXCEPT !.pc = step]
  <1>1. r \in SquadRequest /\ r.pc = step /\ r.user = squadCall[c].user
    BY DEF SquadTyped, SquadTypeOK, SquadRequest
  <1>2. r.pc \in Naming => r.user \in Combatants
    BY <1>1 DEF SquadTyped, UserKnown
  <1>3. squadCall' = [squadCall EXCEPT ![c] = r]
    OBVIOUS
  <1> HIDE DEF r
  <1> QED
    BY <1>1, <1>2, <1>3, SquadCallTyped

(* A revision of the roster: no approval is left.                          *)
LEMMA RevisionTyped ==
    ASSUME SquadTyped, ReviseRoster
    PROVE  /\ version' \in Nat \ {0} /\ version' # 0
           /\ approval' \in [Sides -> Nat] /\ seen' \in [Sides -> SUBSET Combatants]
           /\ binding' \in [Sides -> BOOLEAN] /\ fizzled' \in BOOLEAN
           /\ \A s \in Sides : approval'[s] = 0
  <1>1. binding' \in [Sides -> BOOLEAN] /\ fizzled' \in BOOLEAN
    BY Zenon DEF ReviseRoster
  <1>2. /\ version' \in Nat \ {0} /\ version' # 0
        /\ approval' \in [Sides -> Nat] /\ seen' \in [Sides -> SUBSET Combatants]
        /\ \A s \in Sides : approval'[s] = 0
    BY DEF ReviseRoster, Revised, SquadTyped, SquadTypeOK
  <1> QED
    BY <1>1, <1>2

LEMMA SquadStepTyped ==
    ASSUME SquadAssumption, SquadTyped, [SquadNext]_squadVars
    PROVE  SquadTyped'
  <1> USE DEF SquadAssumption
  <1>1. ASSUME NEW c \in SquadCalls, NEW s \in Sides, NEW u \in Combatants, Join(c, u, s)
        PROVE  SquadTyped'
    <2> DEFINE r == [NoCall EXCEPT
                        !.pc = IF s = "BETA" /\ Members(s) = {} THEN "captain" ELSE "insert",
                        !.user = u, !.side = s]
    <2>1. r \in SquadRequest /\ r.user \in Combatants
      BY DEF NoCall, SquadRequest, Sides
    <2>2. squadCall' = [squadCall EXCEPT ![c] = r]
      BY <1>1 DEF Join
    <2> HIDE DEF r
    <2> QED
      BY <1>1, <2>1, <2>2, SquadCallTyped DEF Join, SquadTyped, SquadTypeOK
  <1>2. ASSUME NEW c \in SquadCalls, NEW s \in Sides, NEW u \in Combatants, Kick(c, s, u)
        PROVE  SquadTyped'
    <2> DEFINE r == [NoCall EXCEPT !.pc = "unseat", !.user = u, !.side = s]
    <2>1. r \in SquadRequest /\ r.user \in Combatants
      BY DEF NoCall, SquadRequest, Sides
    <2>2. squadCall' = [squadCall EXCEPT ![c] = r]
      BY <1>2 DEF Kick
    <2> HIDE DEF r
    <2> QED
      BY <1>2, <2>1, <2>2, SquadCallTyped DEF Kick, SquadTyped, SquadTypeOK
  <1>3. ASSUME NEW c \in SquadCalls, NEW s \in Sides, NEW yes \in BOOLEAN,
               NEW live \in BOOLEAN, Vote(c, s, yes, live)
        PROVE  SquadTyped'
    <2> DEFINE full == BothFull
               r == [NoCall EXCEPT !.pc = "stamp", !.side = s, !.yes = yes, !.live = live,
                        !.version = version, !.members = Rostered, !.full = full]
    <2>1. full \in BOOLEAN
      BY DEF BothFull
    <2>2. squadCall' = [squadCall EXCEPT ![c] = r]
      BY <1>3 DEF Vote
    <2> HIDE DEF full
    <2>3. r \in SquadRequest /\ r.pc = "stamp"
      BY <2>1 DEF NoCall, SquadRequest, SquadTyped, SquadTypeOK, Rostered, Sides
    <2> HIDE DEF r
    <2> QED
      BY <1>3, <2>2, <2>3, SquadCallTyped DEF Vote, SquadTyped, SquadTypeOK, Naming
  <1>4. ASSUME NEW c \in SquadCalls, NameCaptain(c)
        PROVE  SquadTyped'
    <2>1. squadCall' \in [SquadCalls -> SquadRequest] /\ UserKnown'
      BY <1>4, SquadGotoTyped DEF NameCaptain, Naming
    <2>2. squadCall[c].user \in Combatants
      BY <1>4 DEF NameCaptain, SquadTyped, UserKnown, Naming
    <2> QED
      BY <1>4, <2>1, <2>2 DEF NameCaptain, Withdraw, SquadTyped, SquadTypeOK, Sides
  <1>5. ASSUME NEW c \in SquadCalls, Insert(c)
        PROVE  SquadTyped'
    <2>1. squadCall' \in [SquadCalls -> SquadRequest] /\ UserKnown'
      BY <1>5, SquadDoneTyped DEF Insert
    <2>2. squadCall[c].side \in Sides
      BY DEF SquadTyped, SquadTypeOK, SquadRequest
    <2> QED
      BY <1>5, <2>1, <2>2, RevisionTyped DEF Insert, SquadTyped, SquadTypeOK
  <1>6. ASSUME NEW c \in SquadCalls, Unseat(c)
        PROVE  SquadTyped'
    <2>1. squadCall' \in [SquadCalls -> SquadRequest] /\ UserKnown'
      BY <1>6, SquadDoneTyped DEF Unseat
    <2> QED
      BY <1>6, <2>1, RevisionTyped DEF Unseat, SquadTyped, SquadTypeOK
  <1>7. ASSUME NEW c \in SquadCalls, InsertConflict(c) \/ UnseatMissing(c)
        PROVE  SquadTyped'
    <2>1. squadCall' \in [SquadCalls -> SquadRequest] /\ UserKnown'
      BY <1>7, SquadDoneTyped DEF InsertConflict, UnseatMissing
    <2> QED
      BY <1>7, <2>1 DEF InsertConflict, UnseatMissing, SquadTyped, SquadTypeOK
  <1>8. ASSUME NEW c \in SquadCalls, Stamp(c)
        PROVE  SquadTyped'
    <2> DEFINE r == [squadCall[c] EXCEPT !.pc = "count", !.yes = FALSE, !.members = {}]
    <2>1. squadCall[c] \in SquadRequest
      BY DEF SquadTyped, SquadTypeOK
    <2>2. r \in SquadRequest /\ r.pc = "count"
      BY <2>1 DEF SquadRequest
    <2>3. squadCall[c].live => squadCall' = [squadCall EXCEPT ![c] = r]
      BY <1>8, <2>1 DEF Stamp, SquadRequest, SquadTyped, SquadTypeOK
    <2>4. ~squadCall[c].live => CallEnds(c)
      BY <1>8 DEF Stamp
    <2> HIDE DEF r
    <2>5. squadCall' \in [SquadCalls -> SquadRequest] /\ UserKnown'
      BY <2>2, <2>3, <2>4, SquadCallTyped, SquadDoneTyped DEF Naming
    <2>6. /\ squadCall[c].version \in Nat /\ squadCall[c].side \in Sides
          /\ squadCall[c].members \in SUBSET Combatants
          /\ squadCall[c].yes \in BOOLEAN /\ squadCall[c].full \in BOOLEAN
          /\ squadCall[c].live \in BOOLEAN
      BY <2>1 DEF SquadRequest
    <2>7. approval' \in [Sides -> Nat] /\ seen' \in [Sides -> SUBSET Combatants]
      BY <1>8, <2>6 DEF Stamp, SquadTyped, SquadTypeOK
    <2>8. binding' \in [Sides -> BOOLEAN]
      BY <1>8, <2>6, Zenon DEF Stamp, SquadTyped, SquadTypeOK
    <2> QED
      BY <1>8, <2>5, <2>7, <2>8 DEF Stamp, SquadTyped, SquadTypeOK
  <1>9. ASSUME NEW c \in SquadCalls, CountVotes(c)
        PROVE  SquadTyped'
    <2>1. squadCall' \in [SquadCalls -> SquadRequest] /\ UserKnown'
      BY <1>9, SquadDoneTyped DEF CountVotes
    <2>2. countdowns' \in Nat
      BY <1>9 DEF CountVotes, SquadTyped, SquadTypeOK
    <2> QED
      BY <1>9, <2>1, <2>2 DEF CountVotes, SquadTyped, SquadTypeOK
  <1>10. ASSUME NEW c \in SquadCalls, Elapse(c)
         PROVE  SquadTyped'
    <2>1. squadCall' \in [SquadCalls -> SquadRequest] /\ UserKnown'
      <3>1. CASE roomStatus = "WAITING"
        <4> DEFINE r == [NoCall EXCEPT !.pc = "validate", !.members = Seated]
        <4>1. r \in SquadRequest /\ r.pc = "validate"
          BY DEF NoCall, SquadRequest, Seated, Sides
        <4>2. squadCall' = [squadCall EXCEPT ![c] = r]
          BY <1>10, <3>1 DEF Elapse
        <4> HIDE DEF r
        <4> QED
          BY <4>1, <4>2, SquadCallTyped DEF Naming
      <3>2. CASE roomStatus # "WAITING"
        BY <1>10, <3>2 DEF Elapse, SquadTyped, SquadTypeOK, UserKnown
      <3> QED
        BY <3>1, <3>2
    <2>2. countdowns' \in Nat
      BY <1>10 DEF Elapse, SquadTyped, SquadTypeOK
    <2>3. fizzled' \in BOOLEAN
      BY <1>10, Zenon DEF Elapse, SquadTyped, SquadTypeOK
    <2> QED
      BY <1>10, <2>1, <2>2, <2>3 DEF Elapse, SquadTyped, SquadTypeOK
  <1>11. ASSUME NEW c \in SquadCalls, Validate(c)
         PROVE  SquadTyped'
    <2> DEFINE r == [squadCall[c] EXCEPT !.pc = "start", !.members = {}]
    <2>1. squadCall[c] \in SquadRequest
      BY DEF SquadTyped, SquadTypeOK
    <2>2. r \in SquadRequest /\ r.pc = "start"
      BY <2>1 DEF SquadRequest
    <2>3. squadCall' = [squadCall EXCEPT ![c] = r]
      BY <1>11, <2>1 DEF Validate, SquadRequest, SquadTyped, SquadTypeOK
    <2> HIDE DEF r
    <2> QED
      BY <1>11, <2>2, <2>3, SquadCallTyped DEF Validate, Naming, SquadTyped, SquadTypeOK
  <1>12. ASSUME NEW c \in SquadCalls, RefuseStart(c) \/ StartBattle(c)
         PROVE  SquadTyped'
    <2>1. squadCall' \in [SquadCalls -> SquadRequest] /\ UserKnown'
      BY <1>12, SquadDoneTyped DEF RefuseStart, StartBattle
    <2> QED
      BY <1>12, <2>1 DEF RefuseStart, StartBattle, SquadTyped, SquadTypeOK
  <1>13. ASSUME NEW u \in Combatants, Leave(u)
         PROVE  SquadTyped'
    <2>1. roomStatus' \in Lobby \cup {"RUNNING", "CANCELLED"} /\ upsets' \in 0..MaxUpsets
      BY <1>13 DEF Leave, Upset, StatusAfter, Settled, Lobby, SquadTyped, SquadTypeOK
    <2> QED
      BY <1>13, <2>1 DEF Leave, SquadTyped, SquadTypeOK, UserKnown
  <1>14. ASSUME ToggleReady
         PROVE  SquadTyped'
    BY <1>14 DEF ToggleReady, Settled, Lobby, SquadTyped, SquadTypeOK, UserKnown
  <1>15. CASE UNCHANGED squadVars
    BY <1>15 DEF squadVars, SquadTyped, SquadTypeOK, UserKnown
  <1>16. ASSUME NEW u \in Combatants, Enter(u)
         PROVE  SquadTyped'
    BY <1>16 DEF Enter, Upset, Lobby, SquadTyped, SquadTypeOK, UserKnown
  <1>17. ASSUME StartAnyway \/ LateWrite
         PROVE  SquadTyped'
    <2>1. fizzled' \in BOOLEAN
      BY <1>17, Zenon DEF StartAnyway, LateWrite, SquadTyped, SquadTypeOK
    <2> QED
      BY <1>17, <2>1
      DEF StartAnyway, LateWrite, Upset, Settled, Lobby, SquadTyped, SquadTypeOK, UserKnown
  <1>18. ASSUME NEW c \in SquadCalls, CallFails(c)
         PROVE  SquadTyped'
    <2>1. squadCall' \in [SquadCalls -> SquadRequest] /\ UserKnown'
      BY <1>18, SquadDoneTyped DEF CallFails
    <2>2. fizzled' \in BOOLEAN
      BY <1>18, Zenon DEF CallFails
    <2> QED
      BY <1>18, <2>1, <2>2 DEF CallFails, Upset, SquadTyped, SquadTypeOK
  <1>19. ASSUME CountdownLost
         PROVE  SquadTyped'
    BY <1>19 DEF CountdownLost, Upset, SquadTyped, SquadTypeOK, UserKnown
  <1> QED
    BY <1>1, <1>2, <1>3, <1>4, <1>5, <1>6, <1>7, <1>8, <1>9, <1>10, <1>11, <1>12, <1>13,
       <1>14, <1>15, <1>16, <1>17, <1>18, <1>19 DEF SquadNext

-----------------------------------------------------------------------------
(* Approvals                                                               *)

\* An approval, and a vote about to be written, know the members of the roster whose
\* version they carry.
Knows(v, us) == v <= version /\ (v = version => Rostered \subseteq us)

VotesKnow ==
    /\ \A s \in Sides : Knows(approval[s], seen[s])
    /\ \A c \in SquadCalls : CallAt(c, "stamp") => Knows(squadCall[c].version, squadCall[c].members)

ApprovalInv == SquadTyped /\ VotesKnow

LEMMA ApprovalInit ==
    ASSUME SquadAssumption, SquadInit
    PROVE  ApprovalInv
  <1>1. VotesKnow
    BY SquadIdleTyped DEF SquadInit, VotesKnow, Knows
  <1> QED
    BY <1>1, SquadInitTyped DEF ApprovalInv

(* Calls that begin, end or go on without a vote to write.                 *)
LEMMA CallsKnow ==
    ASSUME ApprovalInv, version' = version, Rostered' \subseteq Rostered,
           NEW c \in SquadCalls, NEW r, r.pc # "stamp",
           squadCall' = [squadCall EXCEPT ![c] = r] \/ squadCall' = squadCall
    PROVE  \A x \in SquadCalls : CallAt(x, "stamp")' => Knows(squadCall[x].version, squadCall[x].members)'
  BY DEF ApprovalInv, VotesKnow, Knows, SquadTyped, SquadTypeOK

LEMMA ApprovalsKnow ==
    ASSUME ApprovalInv, UNCHANGED <<version, votes>>, Rostered' \subseteq Rostered
    PROVE  \A s \in Sides : Knows(approval[s], seen[s])'
  BY DEF ApprovalInv, VotesKnow, Knows

(* A revision upsets no approval, and makes every vote in flight outdated. *)
LEMMA RevisionKnows ==
    ASSUME ApprovalInv, ReviseRoster, NEW c \in SquadCalls, CallEnds(c)
    PROVE  VotesKnow'
  <1>1. /\ version' = version + 1 /\ version \in Nat
        /\ \A s \in Sides : approval'[s] = 0
    BY DEF ReviseRoster, Revised, ApprovalInv, SquadTyped, SquadTypeOK
  <1>2. \A s \in Sides : Knows(approval[s], seen[s])'
    BY <1>1 DEF Knows
  <1>3. \A x \in SquadCalls : squadCall[x] \in SquadRequest
    BY DEF ApprovalInv, SquadTyped, SquadTypeOK
  <1>4. \A x \in SquadCalls : CallAt(x, "stamp")' => squadCall'[x] = squadCall[x] /\ CallAt(x, "stamp")
    BY SquadIdleTyped DEF ApprovalInv, SquadTyped, SquadTypeOK
  <1>5. \A x \in SquadCalls : CallAt(x, "stamp")' => Knows(squadCall[x].version, squadCall[x].members)'
    BY <1>1, <1>3, <1>4 DEF ApprovalInv, VotesKnow, Knows, SquadRequest
  <1> QED
    BY <1>2, <1>5 DEF VotesKnow

LEMMA ApprovalStep ==
    ASSUME SquadAssumption, ApprovalInv, [SquadNext]_squadVars
    PROVE  ApprovalInv'
  <1>1. SquadTyped'
    BY SquadStepTyped DEF ApprovalInv
  <1> SUFFICES VotesKnow'
    BY <1>1 DEF ApprovalInv
  <1>2. ASSUME NEW c \in SquadCalls, NEW r, r.pc # "stamp",
               squadCall' = [squadCall EXCEPT ![c] = r] \/ squadCall' = squadCall,
               UNCHANGED <<version, votes>>, Rostered' \subseteq Rostered
        PROVE  VotesKnow'
    BY <1>2, CallsKnow, ApprovalsKnow DEF VotesKnow
  <1>3. ASSUME NEW c \in SquadCalls, NEW s \in Sides, NEW u \in Combatants, Join(c, u, s)
        PROVE  VotesKnow'
    <2> DEFINE r == [NoCall EXCEPT
                        !.pc = IF s = "BETA" /\ Members(s) = {} THEN "captain" ELSE "insert",
                        !.user = u, !.side = s]
    <2>1. squadCall' = [squadCall EXCEPT ![c] = r] /\ UNCHANGED <<roster, votes>>
      BY <1>3 DEF Join
    <2>2. r.pc # "stamp"
      BY DEF NoCall
    <2> HIDE DEF r
    <2> QED
      BY <2>1, <2>2, <1>2 DEF Rostered
  <1>4. ASSUME NEW c \in SquadCalls, NEW s \in Sides, NEW u \in Combatants, Kick(c, s, u)
        PROVE  VotesKnow'
    <2> DEFINE r == [NoCall EXCEPT !.pc = "unseat", !.user = u, !.side = s]
    <2>1. squadCall' = [squadCall EXCEPT ![c] = r] /\ UNCHANGED <<roster, votes>>
      BY <1>4 DEF Kick
    <2>2. r.pc # "stamp"
      BY DEF NoCall
    <2> HIDE DEF r
    <2> QED
      BY <2>1, <2>2, <1>2 DEF Rostered
  <1>5. ASSUME NEW c \in SquadCalls, NEW s \in Sides, NEW yes \in BOOLEAN,
               NEW live \in BOOLEAN, Vote(c, s, yes, live)
        PROVE  VotesKnow'
    <2>1. \A t \in Sides : Knows(approval[t], seen[t])'
      BY <1>5, ApprovalsKnow DEF Vote, Rostered
    <2>2. /\ squadCall'[c].version = version' /\ squadCall'[c].members = Rostered'
          /\ \A x \in SquadCalls \ {c} : squadCall'[x] = squadCall[x]
      BY <1>5 DEF Vote, NoCall, Rostered, ApprovalInv, SquadTyped, SquadTypeOK
    <2>3. version' = version /\ version \in Nat /\ Rostered' = Rostered
      BY <1>5 DEF Vote, Rostered, ApprovalInv, SquadTyped, SquadTypeOK
    <2>4. \A x \in SquadCalls : CallAt(x, "stamp")' => Knows(squadCall[x].version, squadCall[x].members)'
      BY <2>2, <2>3 DEF Knows, ApprovalInv, VotesKnow
    <2> QED
      BY <2>1, <2>4 DEF VotesKnow
  <1>6. ASSUME NEW c \in SquadCalls, NameCaptain(c)
        PROVE  VotesKnow'
    <2>1. \A s \in Sides : Knows(approval[s], seen[s])'
      BY <1>6
        DEF NameCaptain, Withdraw, Rostered, Knows, ApprovalInv, VotesKnow, SquadTyped, SquadTypeOK
    <2>2. [squadCall[c] EXCEPT !.pc = "insert"].pc # "stamp"
      BY DEF ApprovalInv, SquadTyped, SquadTypeOK, SquadRequest
    <2>3. \A x \in SquadCalls : CallAt(x, "stamp")' => Knows(squadCall[x].version, squadCall[x].members)'
      BY <1>6, <2>2, CallsKnow DEF NameCaptain, Rostered
    <2> QED
      BY <2>1, <2>3 DEF VotesKnow
  <1>7. ASSUME NEW c \in SquadCalls, Insert(c) \/ Unseat(c)
        PROVE  VotesKnow'
    BY <1>7, RevisionKnows DEF Insert, Unseat
  <1>8. ASSUME NEW c \in SquadCalls,
               \/ InsertConflict(c) \/ UnseatMissing(c) \/ CountVotes(c)
               \/ RefuseStart(c) \/ StartBattle(c) \/ CallFails(c)
        PROVE  VotesKnow'
    <2>1. CallEnds(c) /\ UNCHANGED <<roster, votes>>
      BY <1>8 DEF InsertConflict, UnseatMissing, CountVotes, RefuseStart, StartBattle, CallFails
    <2> QED
      BY <2>1, <1>2, SquadIdleTyped DEF Rostered
  <1>9. ASSUME NEW c \in SquadCalls, Stamp(c)
        PROVE  VotesKnow'
    <2> DEFINE r == IF squadCall[c].live
                    THEN [squadCall[c] EXCEPT !.pc = "count", !.yes = FALSE, !.members = {}]
                    ELSE NoCall
    <2>1. squadCall[c] \in SquadRequest
      BY DEF ApprovalInv, SquadTyped, SquadTypeOK
    <2>2. squadCall' = [squadCall EXCEPT ![c] = r]
      BY <1>9, <2>1 DEF Stamp, CallEnds, SquadRequest, ApprovalInv, SquadTyped, SquadTypeOK
    <2>3. r.pc # "stamp"
      BY <2>1, SquadIdleTyped DEF SquadRequest
    <2> HIDE DEF r
    <2>4. squadCall' = [squadCall EXCEPT ![c] = r] /\ r.pc # "stamp"
      BY <2>2, <2>3
    <2>5. version' = version /\ Rostered' = Rostered /\ version \in Nat /\ version # 0
      BY <1>9 DEF Stamp, Rostered, ApprovalInv, SquadTyped, SquadTypeOK
    <2>6. \A x \in SquadCalls : CallAt(x, "stamp")' => Knows(squadCall[x].version, squadCall[x].members)'
      BY <2>4, <2>5, CallsKnow
    <2>7. Knows(squadCall[c].version, squadCall[c].members)
      BY <1>9 DEF Stamp, ApprovalInv, VotesKnow
    <2>8. squadCall[c].version \in Nat /\ squadCall[c].side \in Sides
      BY <2>1 DEF SquadRequest
    <2>9. \A s \in Sides : Knows(approval[s], seen[s])'
      <3> SUFFICES ASSUME NEW s \in Sides PROVE Knows(approval[s], seen[s])'
        OBVIOUS
      <3>1. CASE s = squadCall[c].side /\ squadCall[c].yes
        <4>1. approval'[s] = squadCall[c].version /\ seen'[s] = squadCall[c].members
          BY <1>9, <3>1 DEF Stamp, ApprovalInv, SquadTyped, SquadTypeOK
        <4> QED
          BY <4>1, <2>5, <2>7 DEF Knows
      <3>2. CASE s = squadCall[c].side /\ ~squadCall[c].yes
        <4>1. approval'[s] = 0
          BY <1>9, <3>2 DEF Stamp, ApprovalInv, SquadTyped, SquadTypeOK
        <4> QED
          BY <4>1, <2>5 DEF Knows
      <3>3. CASE s # squadCall[c].side
        <4>1. approval'[s] = approval[s] /\ seen'[s] = seen[s]
          BY <1>9, <3>3 DEF Stamp, ApprovalInv, SquadTyped, SquadTypeOK
        <4> QED
          BY <4>1, <2>5 DEF Knows, ApprovalInv, VotesKnow
      <3> QED
        BY <3>1, <3>2, <3>3
    <2> QED
      BY <2>6, <2>9 DEF VotesKnow
  <1>10. ASSUME NEW c \in SquadCalls, Elapse(c)
         PROVE  VotesKnow'
    <2> DEFINE r == [NoCall EXCEPT !.pc = "validate", !.members = Seated]
    <2>1. r.pc # "stamp"
      BY DEF NoCall
    <2>2. (squadCall' = [squadCall EXCEPT ![c] = r] \/ squadCall' = squadCall) /\ UNCHANGED <<roster, votes>>
      BY <1>10 DEF Elapse
    <2> HIDE DEF r
    <2> QED
      BY <2>1, <2>2, <1>2 DEF Rostered
  <1>11. ASSUME NEW c \in SquadCalls, Validate(c)
         PROVE  VotesKnow'
    <2> DEFINE r == [squadCall[c] EXCEPT !.pc = "start", !.members = {}]
    <2>1. squadCall[c] \in SquadRequest
      BY DEF ApprovalInv, SquadTyped, SquadTypeOK
    <2>2. squadCall' = [squadCall EXCEPT ![c] = r] /\ r.pc # "stamp"
      BY <1>11, <2>1 DEF Validate, SquadRequest, ApprovalInv, SquadTyped, SquadTypeOK
    <2> HIDE DEF r
    <2> QED
      BY <1>11, <2>2, <1>2 DEF Validate, Rostered
  <1>12. ASSUME \/ \E u \in Combatants : Enter(u) \/ Leave(u)
                \/ ToggleReady \/ StartAnyway \/ LateWrite \/ CountdownLost
                \/ UNCHANGED squadVars
         PROVE  VotesKnow'
    <2>1. UNCHANGED <<version, votes, squadCall>>
      BY <1>12
      DEF Enter, Leave, ToggleReady, StartAnyway, LateWrite, CountdownLost, squadVars
    <2>2. team' = team \/ \E u \in Combatants, t \in {"NONE", "OUT"} : team' = [team EXCEPT ![u] = t]
      BY <1>12
      DEF Enter, Leave, ToggleReady, StartAnyway, LateWrite, CountdownLost, squadVars
    <2>3. Rostered' \subseteq Rostered
      BY <2>2 DEF Rostered, Sides, ApprovalInv, SquadTyped, SquadTypeOK
    <2> QED
      BY <2>1, <2>3 DEF ApprovalInv, VotesKnow, Knows
  <1> QED
    BY <1>3, <1>4, <1>5, <1>6, <1>7, <1>8, <1>9, <1>10, <1>11, <1>12 DEF SquadNext

\* For any users, sessions and team size: each variable keeps its type, whatever the
\* calls of the lobby and the countdowns do (TypeOK of Squad).
THEOREM SquadTypes ==
    ASSUME SquadAssumption
    PROVE  SquadSpec => []SquadTypeOK
  <1>1. SquadInit => SquadTyped
    BY SquadInitTyped
  <1>2. SquadTyped /\ [SquadNext]_squadVars => SquadTyped'
    BY SquadStepTyped
  <1>3. SquadTyped => SquadTypeOK
    BY DEF SquadTyped
  <1> QED
    BY <1>1, <1>2, <1>3, PTL DEF SquadSpec

\* An approval that counts covers everybody who is on a team: rosterVersion is enough for
\* a captain's call to be interleaved with joins and kicks of the squad service, and with
\* whatever goes through the routes of any room (setSquadCaptainApproval).
THEOREM ApprovalsCoverRoster ==
    ASSUME SquadAssumption
    PROVE  SquadSpec => []ApprovalCoversRoster
  <1>1. SquadInit => ApprovalInv
    BY ApprovalInit
  <1>2. ApprovalInv /\ [SquadNext]_squadVars => ApprovalInv'
    BY ApprovalStep
  <1>3. ApprovalInv => ApprovalCoversRoster
    BY DEF ApprovalInv, VotesKnow, Knows, ApprovalCoversRoster, Counts
  <1> QED
    BY <1>1, <1>2, <1>3, PTL DEF SquadSpec

-----------------------------------------------------------------------------
(* The agreement of the captains                                           *)

AgreementInv == SquadTyped /\ AgreementStartsCountdown

(* While the approvals and the countdowns stay, a call that is no watcher  *)
(* may begin, end or go on.                                                *)
LEMMA AgreementStays ==
    ASSUME AgreementInv, NEW c \in SquadCalls, ~Watches(c) \/ squadCall' = squadCall,
           \A x \in SquadCalls \ {c} : squadCall'[x] = squadCall[x],
           UNCHANGED <<version, votes, countdowns, fizzled>>,
           roomStatus' \in Lobby => roomStatus \in Lobby
    PROVE  AgreementStartsCountdown'
  BY DEF AgreementInv, AgreementStartsCountdown, Watches, Counts

LEMMA AgreementStep ==
    ASSUME SquadAssumption, AgreementInv, [SquadNext]_squadVars
    PROVE  AgreementStartsCountdown'
  <1>1. ASSUME NEW c \in SquadCalls, NEW s \in Sides, NEW u \in Combatants,
               Join(c, u, s) \/ Kick(c, s, u)
        PROVE  AgreementStartsCountdown'
    BY <1>1, AgreementStays DEF Join, Kick, Watches, AgreementInv, SquadTyped, SquadTypeOK
  <1>2. ASSUME NEW c \in SquadCalls, NEW s \in Sides, NEW yes \in BOOLEAN,
               NEW live \in BOOLEAN, Vote(c, s, yes, live)
        PROVE  AgreementStartsCountdown'
    BY <1>2, AgreementStays DEF Vote, Watches, AgreementInv, SquadTyped, SquadTypeOK
  <1>3. ASSUME NEW c \in SquadCalls, NameCaptain(c)
        PROVE  AgreementStartsCountdown'
    <2>1. approval'["BETA"] = 0 /\ version' # 0 /\ "BETA" \in Sides
      BY <1>3 DEF NameCaptain, Withdraw, AgreementInv, SquadTyped, SquadTypeOK, Sides
    <2> QED
      BY <2>1 DEF AgreementStartsCountdown, Counts
  <1>4. ASSUME NEW c \in SquadCalls, Insert(c) \/ Unseat(c)
        PROVE  AgreementStartsCountdown'
    <2>1. version' # 0 /\ approval'["BETA"] = 0 /\ "BETA" \in Sides
      BY <1>4, RevisionTyped DEF Insert, Unseat, AgreementInv, Sides
    <2> QED
      BY <2>1 DEF AgreementStartsCountdown, Counts
  <1>5. ASSUME NEW c \in SquadCalls, InsertConflict(c) \/ UnseatMissing(c)
        PROVE  AgreementStartsCountdown'
    BY <1>5, AgreementStays
    DEF InsertConflict, UnseatMissing, Watches, AgreementInv, SquadTyped, SquadTypeOK
  (* Either both approvals were standing before, or this one completes     *)
  (* them, and then the call itself is a watcher.                          *)
  <1>6. ASSUME NEW c \in SquadCalls, Stamp(c)
        PROVE  AgreementStartsCountdown'
    <2> SUFFICES ASSUME roomStatus' \in Lobby, \A s \in Sides : Counts(s)' /\ binding'[s]
                 PROVE  \E x \in SquadCalls : Watches(x)'
      BY DEF AgreementStartsCountdown
    <2>1. squadCall[c] \in SquadRequest /\ squadCall[c].side \in Sides
      BY DEF AgreementInv, SquadTyped, SquadTypeOK, SquadRequest
    <2>2. approval'[squadCall[c].side] = version' /\ binding'[squadCall[c].side] /\ version' # 0
      BY <1>6, <2>1 DEF Stamp, Counts, AgreementInv, SquadTyped, SquadTypeOK
    <2>3. squadCall[c].yes /\ squadCall[c].version = version' /\ squadCall[c].full
          /\ squadCall[c].live
      BY <1>6, <2>1, <2>2 DEF Stamp, AgreementInv, SquadTyped, SquadTypeOK
    <2>4. squadCall'[c].pc = "count" /\ squadCall'[c].version = squadCall[c].version
          /\ squadCall'[c].full = squadCall[c].full /\ squadCall'[c].live = squadCall[c].live
      BY <1>6, <2>1 DEF Stamp, SquadRequest, AgreementInv, SquadTyped, SquadTypeOK
    <2> QED
      BY <2>3, <2>4 DEF Watches
  (* A watcher that counts two valid approvals sets off a countdown.       *)
  <1>7. ASSUME NEW c \in SquadCalls, CountVotes(c)
        PROVE  AgreementStartsCountdown'
    <2> SUFFICES ASSUME roomStatus' \in Lobby, \A s \in Sides : Counts(s)' /\ binding'[s]
                 PROVE  countdowns' > 0 \/ fizzled' \/ \E x \in SquadCalls : Watches(x)'
      BY DEF AgreementStartsCountdown
    <2>1. \A s \in Sides : Counts(s) /\ binding[s] /\ approval[s] = version
      BY <1>7 DEF CountVotes, Counts
    <2>2. countdowns \in Nat /\ countdowns' \in Nat /\ countdowns' >= countdowns
      BY <1>7 DEF CountVotes, AgreementInv, SquadTyped, SquadTypeOK
    <2>3. CASE countdowns > 0 \/ fizzled
      BY <1>7, <2>2, <2>3 DEF CountVotes
    <2>4. CASE Watches(c)
      <3>1. CanStart(c)
        BY <1>7, <2>1, <2>4 DEF CountVotes, Watches, CanStart
      <3> QED
        BY <1>7, <2>2, <3>1 DEF CountVotes, AgreementInv, SquadTyped, SquadTypeOK
    <2>5. CASE \E x \in SquadCalls \ {c} : Watches(x)
      <3>1. PICK x \in SquadCalls \ {c} : Watches(x)
        BY <2>5
      <3>2. squadCall'[x] = squadCall[x] /\ version' = version
        BY <1>7 DEF CountVotes, AgreementInv, SquadTyped, SquadTypeOK
      <3> QED
        BY <3>1, <3>2 DEF Watches
    <2> QED
      BY <1>7, <2>1, <2>3, <2>4, <2>5 DEF CountVotes, AgreementInv, AgreementStartsCountdown
  <1>8. ASSUME NEW c \in SquadCalls, Elapse(c)
        PROVE  AgreementStartsCountdown'
    <2>1. CASE roomStatus = "WAITING"
      <3>1. squadCall'[c].pc = "validate"
        BY <1>8, <2>1 DEF Elapse, AgreementInv, SquadTyped, SquadTypeOK, NoCall
      <3> QED
        BY <3>1 DEF AgreementStartsCountdown, Watches
    <2>2. CASE roomStatus # "WAITING"
      BY <1>8, <2>2 DEF Elapse, AgreementStartsCountdown
    <2> QED
      BY <2>1, <2>2
  <1>9. ASSUME NEW c \in SquadCalls, Validate(c)
        PROVE  AgreementStartsCountdown'
    <2>1. squadCall'[c].pc = "start"
      BY <1>9 DEF Validate, AgreementInv, SquadTyped, SquadTypeOK, SquadRequest
    <2> QED
      BY <2>1 DEF AgreementStartsCountdown, Watches
  <1>10. ASSUME NEW c \in SquadCalls, RefuseStart(c) \/ StartBattle(c)
         PROVE  AgreementStartsCountdown'
    BY <1>10 DEF RefuseStart, StartBattle, AgreementStartsCountdown, Lobby
  <1>11. ASSUME \/ \E u \in Combatants : Enter(u) \/ Leave(u)
                \/ ToggleReady \/ StartAnyway \/ UNCHANGED squadVars
         PROVE  AgreementStartsCountdown'
    <2>1. UNCHANGED <<version, votes, squadCall, countdowns, fizzled>>
      BY <1>11 DEF Enter, Leave, ToggleReady, StartAnyway, squadVars
    <2>2. roomStatus' \in Lobby => roomStatus \in Lobby
      BY <1>11
      DEF Enter, Leave, StatusAfter, ToggleReady, StartAnyway, squadVars, Lobby
    <2> QED
      BY <2>1, <2>2 DEF AgreementInv, AgreementStartsCountdown, Watches, Counts
  <1>12. ASSUME LateWrite \/ CountdownLost
         PROVE  AgreementStartsCountdown'
    BY <1>12, Zenon DEF LateWrite, CountdownLost, AgreementStartsCountdown
  (* A watcher that fails is the error of the exception.                   *)
  <1>13. ASSUME NEW c \in SquadCalls, CallFails(c)
         PROVE  AgreementStartsCountdown'
    <2>1. \A x \in SquadCalls \ {c} : squadCall'[x] = squadCall[x]
      BY <1>13 DEF CallFails, AgreementInv, SquadTyped, SquadTypeOK
    <2>2. UNCHANGED <<roomStatus, version, votes, countdowns>> /\ (fizzled => fizzled')
      BY <1>13, Zenon DEF CallFails
    <2>3. CASE ~Watches(c)
      BY <2>1, <2>2, <2>3 DEF AgreementInv, AgreementStartsCountdown, Watches, Counts
    <2>4. CASE CallAt(c, "count") /\ Watches(c)
      <3> SUFFICES ASSUME \A s \in Sides : Counts(s)'
                   PROVE  fizzled'
        BY DEF AgreementStartsCountdown
      <3>1. CanStart(c)
        BY <2>2, <2>4 DEF Watches, CanStart, Counts
      <3> QED
        BY <1>13, <2>4, <3>1, Zenon DEF CallFails
    <2>5. CASE CallAt(c, "validate") \/ CallAt(c, "start")
      <3>1. fizzled'
        BY <1>13, <2>5, Zenon DEF CallFails
      <3> QED
        BY <3>1 DEF AgreementStartsCountdown
    <2> QED
      BY <2>3, <2>4, <2>5 DEF Watches
  <1> QED
    BY <1>1, <1>2, <1>3, <1>4, <1>5, <1>6, <1>7, <1>8, <1>9, <1>10, <1>11, <1>12, <1>13
    DEF SquadNext

\* Whenever both approvals count and were given over the websocket for full teams, a
\* countdown for this very roster has been set off or will be by a call in flight, unless
\* an error has cost one: captains who approve at the same time do not miss each other
\* (setSquadCaptainApproval, squad_approval_toggle).
THEOREM AgreementsStartCountdowns ==
    ASSUME SquadAssumption
    PROVE  SquadSpec => []AgreementStartsCountdown
  <1>1. SquadInit => AgreementInv
    <2> SUFFICES ASSUME SquadInit PROVE AgreementInv
      OBVIOUS
    <2>1. ~Counts("BETA") /\ "BETA" \in Sides
      BY DEF SquadInit, Counts, Sides
    <2> QED
      BY <2>1, SquadInitTyped DEF AgreementInv, AgreementStartsCountdown
  <1>2. AgreementInv /\ [SquadNext]_squadVars => AgreementInv'
    BY AgreementStep, SquadStepTyped DEF AgreementInv
  <1>3. AgreementInv => AgreementStartsCountdown
    BY DEF AgreementInv
  <1> QED
    BY <1>1, <1>2, <1>3, PTL DEF SquadSpec

-----------------------------------------------------------------------------
(* The size of the teams                                                   *)

Promised(s) == Cardinality(Members(s)) + Cardinality(Admitted(s))
                   <= SquadSize + Cardinality(SquadCalls) - 1

LEMMA SquadCounted ==
    ASSUME SquadAssumption
    PROVE  /\ \A U \in SUBSET Combatants : IsFiniteSet(U) /\ Cardinality(U) \in Nat
           /\ \A C \in SUBSET SquadCalls :
                 /\ IsFiniteSet(C) /\ Cardinality(C) \in Nat
                 /\ Cardinality(C) <= Cardinality(SquadCalls)
           /\ Cardinality(SquadCalls) \in Nat
  BY FS_Subset, FS_CardinalityType DEF SquadAssumption

(* Steps that add nobody to a team and admit nobody to it.                 *)
LEMMA QuietTeam ==
    ASSUME SquadAssumption, NEW s \in Sides, Promised(s),
           Members(s)' \subseteq Members(s), Admitted(s)' \subseteq Admitted(s)
    PROVE  Promised(s)'
  <1>1. IsFiniteSet(Members(s)) /\ IsFiniteSet(Admitted(s))
    BY SquadCounted DEF Members, Admitted
  <1>2. /\ Cardinality(Members(s)') <= Cardinality(Members(s))
        /\ Cardinality(Admitted(s)') <= Cardinality(Admitted(s))
        /\ Cardinality(Members(s)') \in Nat /\ Cardinality(Members(s)) \in Nat
        /\ Cardinality(Admitted(s)') \in Nat /\ Cardinality(Admitted(s)) \in Nat
    BY <1>1, FS_Subset, FS_CardinalityType
  <1> QED
    BY <1>2, SquadCounted DEF Promised, SquadAssumption

(* A call that admits nobody, while the others stay as they are.           *)
LEMMA AdmittedShrinks ==
    ASSUME NEW s \in Sides, NEW c \in SquadCalls,
           \A x \in SquadCalls \ {c} : squadCall'[x] = squadCall[x],
           \/ squadCall'[c].pc \notin {"captain", "insert"}
           \/ squadCall'[c].side # s
           \/ c \in Admitted(s)
    PROVE  Admitted(s)' \subseteq Admitted(s)
  BY DEF Admitted

LEMMA JoinPromised ==
    ASSUME SquadAssumption, SquadTyped, NEW s \in Sides, Promised(s),
           NEW c \in SquadCalls, NEW t \in Sides, NEW u \in Combatants, Join(c, u, t)
    PROVE  Promised(s)'
  <1> DEFINE step == IF t = "BETA" /\ Members(t) = {} THEN "captain" ELSE "insert"
             r == [NoCall EXCEPT !.pc = step, !.user = u, !.side = t]
  <1>1. squadCall' = [squadCall EXCEPT ![c] = r] /\ team' = team
    BY DEF Join
  <1>2. r.side = t
    BY DEF NoCall
  <1> HIDE DEF r
  <1>3. squadCall'[c].side = t /\ \A x \in SquadCalls \ {c} : squadCall'[x] = squadCall[x]
    BY <1>1, <1>2 DEF SquadTyped, SquadTypeOK
  <1>4. Members(s)' = Members(s)
    BY <1>1 DEF Members
  <1>5. CASE s # t
    BY <1>3, <1>4, <1>5, AdmittedShrinks, QuietTeam
  <1>6. CASE s = t
    <2>1. Cardinality(Members(s)) < SquadSize /\ Cardinality(Members(s)) \in Nat
      BY <1>6, SquadCounted DEF Join, HasRoom, Members
    <2>2. Admitted(s)' \subseteq SquadCalls
      BY DEF Admitted
    <2>3. Cardinality(Admitted(s)') <= Cardinality(SquadCalls)
          /\ Cardinality(Admitted(s)') \in Nat /\ Cardinality(SquadCalls) \in Nat
      BY <2>2, SquadCounted
    <2> QED
      BY <2>1, <2>3, <1>4 DEF Promised, SquadAssumption
  <1> QED
    BY <1>5, <1>6

LEMMA InsertPromised ==
    ASSUME SquadAssumption, SquadTyped, NEW s \in Sides, Promised(s),
           NEW c \in SquadCalls, Insert(c)
    PROVE  Promised(s)'
  <1> DEFINE u == squadCall[c].user
  <1>1. u \in Combatants /\ team[u] = "OUT" /\ squadCall[c].side \in Sides
    BY DEF Insert, SquadTyped, UserKnown, Naming, SquadTypeOK, SquadRequest
  <1>2. team' = [team EXCEPT ![u] = squadCall[c].side]
    BY DEF Insert
  <1> HIDE DEF u
  <1>3. squadCall'[c].pc = "idle" /\ \A x \in SquadCalls \ {c} : squadCall'[x] = squadCall[x]
    BY SquadIdleTyped DEF Insert, SquadTyped, SquadTypeOK
  <1>4. CASE s # squadCall[c].side
    <2>1. Members(s)' \subseteq Members(s)
      BY <1>1, <1>2, <1>4 DEF Members, SquadTyped, SquadTypeOK
    <2> QED
      BY <1>3, <2>1, AdmittedShrinks, QuietTeam
  <1>5. CASE s = squadCall[c].side
    <2>1. u \notin Members(s) /\ Members(s)' = Members(s) \cup {u}
      BY <1>1, <1>2, <1>5 DEF Members, SquadTyped, SquadTypeOK, Sides
    <2>2. c \in Admitted(s) /\ Admitted(s)' = Admitted(s) \ {c}
      BY <1>3, <1>5 DEF Admitted, Insert
    <2>3. IsFiniteSet(Members(s)) /\ IsFiniteSet(Admitted(s))
      BY SquadCounted DEF Members, Admitted
    <2>4. /\ Cardinality(Members(s)') = Cardinality(Members(s)) + 1
          /\ Cardinality(Admitted(s)') = Cardinality(Admitted(s)) - 1
      <3>1. Cardinality(Members(s) \cup {u}) = Cardinality(Members(s)) + 1
        BY <2>1, <2>3, FS_AddElement
      <3>2. Cardinality(Admitted(s) \ {c}) = Cardinality(Admitted(s)) - 1
        BY <2>2, <2>3, FS_RemoveElement
      <3> QED
        BY <2>1, <2>2, <3>1, <3>2
    <2>5. Cardinality(Members(s)) \in Nat /\ Cardinality(Admitted(s)) \in Nat
      BY <2>3, FS_CardinalityType
    <2> QED
      BY <2>4, <2>5, SquadCounted DEF Promised, SquadAssumption
  <1> QED
    BY <1>4, <1>5

LEMMA PromisedStep ==
    ASSUME SquadAssumption, SquadTyped, TeamsPromised, [SquadNext]_squadVars
    PROVE  TeamsPromised'
  <1> SUFFICES ASSUME NEW s \in Sides PROVE Promised(s)'
    BY DEF TeamsPromised, Promised
  <1> USE DEF SquadTyped, SquadTypeOK
  <1>1. Promised(s)
    BY DEF TeamsPromised, Promised
  <1>2. ASSUME NEW c \in SquadCalls, Members(s)' \subseteq Members(s),
               \A x \in SquadCalls \ {c} : squadCall'[x] = squadCall[x],
               squadCall'[c].pc \notin {"captain", "insert"}
        PROVE  Promised(s)'
    BY <1>1, <1>2, AdmittedShrinks, QuietTeam
  <1>3. ASSUME NEW c \in SquadCalls, NEW t \in Sides, NEW u \in Combatants, Join(c, u, t)
        PROVE  Promised(s)'
    BY <1>1, <1>3, JoinPromised
  <1>4. ASSUME NEW c \in SquadCalls, NEW t \in Sides, NEW u \in Combatants,
               Kick(c, t, u) \/ \E yes, live \in BOOLEAN : Vote(c, t, yes, live)
        PROVE  Promised(s)'
    <2>1. CASE Kick(c, t, u)
      <3>1. Members(s)' \subseteq Members(s)
        BY <2>1 DEF Kick, Members
      <3>2. \A x \in SquadCalls \ {c} : squadCall'[x] = squadCall[x]
        BY <2>1 DEF Kick
      <3>3. squadCall'[c].pc = "unseat"
        BY <2>1 DEF Kick, NoCall
      <3> QED
        BY <3>1, <3>2, <3>3, <1>2
    <2>2. CASE \E yes, live \in BOOLEAN : Vote(c, t, yes, live)
      <3>1. PICK yes \in BOOLEAN, live \in BOOLEAN : Vote(c, t, yes, live)
        BY <2>2
      <3>2. Members(s)' \subseteq Members(s)
        BY <3>1 DEF Vote, Members
      <3>3. \A x \in SquadCalls \ {c} : squadCall'[x] = squadCall[x]
        BY <3>1 DEF Vote
      <3>4. squadCall'[c].pc = "stamp"
        BY <3>1 DEF Vote, NoCall
      <3> QED
        BY <3>2, <3>3, <3>4, <1>2
    <2> QED
      BY <1>4, <2>1, <2>2
  <1>5. ASSUME NEW c \in SquadCalls, NameCaptain(c)
        PROVE  Promised(s)'
    <2>1. Members(s)' \subseteq Members(s)
      BY <1>5 DEF NameCaptain, Members
    <2>2. Admitted(s)' \subseteq Admitted(s)
      BY <1>5 DEF NameCaptain, Admitted, SquadRequest
    <2> QED
      BY <1>1, <2>1, <2>2, QuietTeam
  <1>6. ASSUME NEW c \in SquadCalls, Insert(c)
        PROVE  Promised(s)'
    BY <1>1, <1>6, InsertPromised
  <1>7. ASSUME NEW c \in SquadCalls,
               \/ Unseat(c) \/ InsertConflict(c) \/ UnseatMissing(c) \/ CountVotes(c)
               \/ RefuseStart(c) \/ StartBattle(c) \/ CallFails(c)
        PROVE  Promised(s)'
    <2>1. CallEnds(c)
      BY <1>7
      DEF Unseat, InsertConflict, UnseatMissing, CountVotes, RefuseStart, StartBattle, CallFails
    <2>2. squadCall'[c].pc = "idle" /\ \A x \in SquadCalls \ {c} : squadCall'[x] = squadCall[x]
      BY <2>1, SquadIdleTyped
    <2>3. \A u \in Combatants : team'[u] = team[u] \/ team'[u] = "OUT"
      BY <1>7
      DEF Unseat, InsertConflict, UnseatMissing, CountVotes, RefuseStart, StartBattle, CallFails
    <2>4. Members(s)' \subseteq Members(s)
      BY <2>3 DEF Members, Sides
    <2> QED
      BY <2>2, <2>4, <1>2
  <1>8. ASSUME NEW c \in SquadCalls, Stamp(c) \/ Validate(c)
        PROVE  Promised(s)'
    <2>1. Members(s)' \subseteq Members(s)
      BY <1>8 DEF Stamp, Validate, Members
    <2>2. \A x \in SquadCalls \ {c} : squadCall'[x] = squadCall[x]
      BY <1>8 DEF Stamp, Validate, CallEnds
    <2>3. squadCall'[c].pc \in {"idle", "count", "start"}
      <3>1. CASE Stamp(c) /\ ~squadCall[c].live
        BY <3>1, SquadIdleTyped DEF Stamp
      <3>2. CASE Stamp(c) /\ squadCall[c].live
        BY <3>2 DEF Stamp, SquadRequest
      <3>3. CASE Validate(c)
        BY <3>3 DEF Validate, SquadRequest
      <3> QED
        BY <1>8, <3>1, <3>2, <3>3
    <2> QED
      BY <2>1, <2>2, <2>3, <1>2
  <1>9. ASSUME NEW c \in SquadCalls, Elapse(c)
        PROVE  Promised(s)'
    <2>1. Members(s)' \subseteq Members(s)
      BY <1>9 DEF Elapse, Members
    <2>2. \A x \in SquadCalls \ {c} : squadCall'[x] = squadCall[x]
      BY <1>9 DEF Elapse
    <2>3. squadCall'[c].pc \in {"idle", "validate"}
      BY <1>9 DEF Elapse, NoCall
    <2> QED
      BY <2>1, <2>2, <2>3, <1>2
  <1>10. ASSUME \/ \E u \in Combatants : Enter(u) \/ Leave(u)
                \/ ToggleReady \/ StartAnyway \/ LateWrite \/ CountdownLost
                \/ UNCHANGED squadVars
         PROVE  Promised(s)'
    <2>1. \A u \in Combatants : team'[u] = team[u] \/ team'[u] \notin Sides
      BY <1>10
      DEF Enter, Leave, ToggleReady, StartAnyway, LateWrite, CountdownLost, squadVars, Sides
    <2>2. Members(s)' \subseteq Members(s)
      BY <2>1 DEF Members
    <2>3. Admitted(s)' \subseteq Admitted(s)
      BY <1>10
      DEF Enter, Leave, ToggleReady, StartAnyway, LateWrite, CountdownLost, squadVars, Admitted
    <2> QED
      BY <1>1, <2>2, <2>3, QuietTeam
  <1> QED
    BY <1>3, <1>4, <1>5, <1>6, <1>7, <1>8, <1>9, <1>10 DEF SquadNext

LEMMA PromisedInit ==
    ASSUME SquadAssumption, SquadInit
    PROVE  TeamsPromised
  <1> SUFFICES ASSUME NEW s \in Sides PROVE Promised(s)
    BY DEF TeamsPromised, Promised
  <1>1. Admitted(s) = {}
    BY SquadIdleTyped DEF SquadInit, Admitted
  <1>2. Members(s) \subseteq {Creator}
    BY DEF SquadInit, Members, Sides
  <1>3. /\ Cardinality({}) = 0
        /\ Cardinality({Creator}) = 1 /\ IsFiniteSet({Creator})
    BY FS_EmptySet, FS_Singleton
  <1>4. Cardinality(Members(s)) <= 1 /\ Cardinality(Members(s)) \in Nat
    BY <1>2, <1>3, FS_Subset, FS_CardinalityType
  <1>5. Cardinality(SquadCalls) # 0 /\ Cardinality(SquadCalls) \in Nat
    BY FS_EmptySet, FS_CardinalityType DEF SquadAssumption
  <1> QED
    BY <1>1, <1>3, <1>4, <1>5 DEF Promised, SquadAssumption

\* A team, with the joins already admitted to it, is overfilled by at most one member for
\* each other call that can be in flight (joinSquadTeam's count outside the transaction).
THEOREM SquadTeamsPromised ==
    ASSUME SquadAssumption
    PROVE  SquadSpec => []TeamsPromised
  <1>1. SquadInit => SquadTyped /\ TeamsPromised
    BY SquadInitTyped, PromisedInit
  <1>2. SquadTyped /\ TeamsPromised /\ [SquadNext]_squadVars => (SquadTyped /\ TeamsPromised)'
    BY SquadStepTyped, PromisedStep
  <1> QED
    BY <1>1, <1>2, PTL DEF SquadSpec

-----------------------------------------------------------------------------
(* The score of a team                                                     *)

\* A list of solved problems without repetition, of problems the team has claimed.
Honest(ids, claims) == Once(ids) /\ \A i \in DOMAIN ids : ids[i] \in claims

InList(p, ids) == \E i \in DOMAIN ids : ids[i] = p

\* Documents, as stored and as copied, are honest; the lock only grows, so they stay so.
Copied == \A c \in ScoreCalls :
    ~ScoreAt(c, "idle") => \A s \in Teams : Honest(scoreCall[c].copy.ids[s], lock[s])
ScoreInv ==
    /\ ScoreTypeOK
    /\ \A s \in Teams : Honest(doc.ids[s], lock[s])
    /\ Copied
    /\ FinishEarned

\* A call past its claim has found or set the lock.
PastClaim == \A c \in ScoreCalls :
    /\ scoreCall[c].pc = "record" => Team(c) \in Teams
    /\ scoreCall[c].pc \in {"record", "write"} /\ Team(c) \in Teams
        => scoreCall[c].of \in lock[Team(c)]

\* While nothing is disturbed, a copy has all that the document has, and a claim that is
\* not in the document is in the copy of a call that is about to write it.
UpToDate == \A c \in ScoreCalls : ~ScoreAt(c, "idle") =>
    \A s \in Teams : \A i \in DOMAIN doc.ids[s] : InList(doc.ids[s][i], scoreCall[c].copy.ids[s])
Carried(s, p) == \E c \in ScoreCalls :
    /\ scoreCall[c].pc \in {"record", "write"} /\ Team(c) = s /\ scoreCall[c].of = p
    /\ InList(p, scoreCall[c].copy.ids[s])
Accounted == \A s \in Teams : \A p \in lock[s] : InList(p, doc.ids[s]) \/ Carried(s, p)
CreditInv ==
    /\ ScoreTypeOK
    /\ PastClaim
    /\ \A s \in Teams : rows[s] \subseteq lock[s]
    /\ disturbed \/ (UpToDate /\ Accounted)

USE DEF ScoreAt, Team

-----------------------------------------------------------------------------
(* Types                                                                   *)

LEMMA ScoreInitTyped ==
    ASSUME ScoreAssumption, ScoreInit
    PROVE  ScoreTypeOK
  <1>1. finished \in BOOLEAN /\ disturbed \in BOOLEAN
    BY Zenon DEF ScoreInit
  <1>2. doc \in Document
    BY DEF ScoreInit, Fresh, Document
  <1> QED
    BY <1>1, <1>2 DEF ScoreAssumption, ScoreInit, ScoreTypeOK, ScoreRequest

(* A call in flight is a record of calls.                                  *)
LEMMA InFlight ==
    ASSUME ScoreTypeOK, NEW c \in ScoreCalls, ~ScoreAt(c, "idle")
    PROVE  scoreCall[c] \in ScoreRequest /\ Team(c) \in Teams \cup {"NONE"}
  BY DEF ScoreTypeOK, ScoreRequest, ScoreIdle

LEMMA SolvedTyped ==
    ASSUME ScoreTypeOK, NEW c \in ScoreCalls, ~ScoreAt(c, "idle")
    PROVE  Solved(c) \in Document /\ Solved(c).ids = scoreCall[c].copy.ids
  <1>1. /\ scoreCall[c].copy \in Document
        /\ scoreCall[c].by \in Players /\ scoreCall[c].of \in Problems
    BY InFlight DEF ScoreRequest
  <1>2. PICK d \in Document, u \in Players, p \in Problems :
            d = scoreCall[c].copy /\ u = scoreCall[c].by /\ p = scoreCall[c].of
    BY <1>1
  <1>3. Solved(c) = [d EXCEPT !.solved[u] = d.solved[u] \cup {p}]
    BY <1>2 DEF Solved
  <1>4. /\ [d EXCEPT !.solved[u] = d.solved[u] \cup {p}] \in Document
        /\ [d EXCEPT !.solved[u] = d.solved[u] \cup {p}].ids = d.ids
    BY DEF Document
  <1> QED
    BY <1>2, <1>3, <1>4

LEMMA CreditedTyped ==
    ASSUME ScoreTypeOK, NEW c \in ScoreCalls, ~ScoreAt(c, "idle"), Team(c) \in Teams
    PROVE  /\ Credited(c) \in Document
           /\ Credited(c).ids[Team(c)] = Append(scoreCall[c].copy.ids[Team(c)], scoreCall[c].of)
           /\ \A s \in Teams \ {Team(c)} : Credited(c).ids[s] = scoreCall[c].copy.ids[s]
  <1>1. scoreCall[c].of \in Problems /\ Team(c) \in Teams
    BY InFlight DEF ScoreRequest
  <1>2. PICK t \in Teams : t = Team(c)
    BY <1>1
  <1>3. PICK d \in Document : d = Solved(c) /\ d.ids = scoreCall[c].copy.ids
    BY SolvedTyped
  <1>4. PICK more \in Seq(Problems) : more = Append(d.ids[t], scoreCall[c].of)
    <2>1. Append(d.ids[t], scoreCall[c].of) \in Seq(Problems)
      BY <1>1 DEF Document
    <2> QED
      BY <2>1, Zenon
  <1>5. Credited(c) = [d EXCEPT !.ids[t] = more]
    BY <1>2, <1>3, <1>4, Zenon DEF Credited
  <1>6. /\ [d EXCEPT !.ids[t] = more] \in Document
        /\ [d EXCEPT !.ids[t] = more].ids[t] = more
        /\ \A s \in Teams \ {t} : [d EXCEPT !.ids[t] = more].ids[s] = d.ids[s]
    <2> DEFINE e == [d EXCEPT !.ids[t] = more]
    <2>1. d.ids \in [Teams -> Seq(Problems)] /\ d.solved \in [Players -> SUBSET Problems]
      BY DEF Document
    <2>2. e = [ids |-> [d.ids EXCEPT ![t] = more], solved |-> d.solved]
      <3>1. PICK b \in [Players -> SUBSET Problems], a \in [Teams -> Seq(Problems)] :
              d = [ids |-> a, solved |-> b]
        BY <2>1 DEF Document
      <3>2. PICK f : f = [d.ids EXCEPT ![t] = more]
        OBVIOUS
      <3>3. [[ids |-> a, solved |-> b] EXCEPT !.ids = f] = [ids |-> f, solved |-> b]
        OBVIOUS
      <3>4. e = [d EXCEPT !.ids = f]
        BY <3>2, Zenon
      <3>5. d.solved = b
        BY <3>1
      <3> QED
        BY <3>1, <3>2, <3>3, <3>4, <3>5, Zenon
    <2>3. e.ids = [d.ids EXCEPT ![t] = more] /\ e.solved = d.solved
      BY <2>2, Zenon
    <2> HIDE DEF e
    <2>4. e.ids \in [Teams -> Seq(Problems)] /\ e.ids[t] = more
          /\ (\A s \in Teams \ {t} : e.ids[s] = d.ids[s])
      BY <2>1, <2>3
    <2>5. e \in Document
      <3>1. e = [ids |-> e.ids, solved |-> e.solved]
        BY <2>2, <2>3, Zenon
      <3>2. e.solved \in [Players -> SUBSET Problems]
        BY <2>1, <2>3, Zenon
      <3> QED
        BY <2>4, <3>1, <3>2, Zenon DEF Document
    <2> QED
      BY <2>4, <2>5, Zenon DEF e
  <1>7. /\ Credited(c) \in Document
        /\ Credited(c).ids[t] = more
        /\ \A s \in Teams \ {t} : Credited(c).ids[s] = d.ids[s]
    BY <1>5, <1>6, Zenon
  <1> QED
    BY <1>2, <1>3, <1>4, <1>7, Zenon

LEMMA ScoreStepTyped ==
    ASSUME ScoreAssumption, ScoreTypeOK, [ScoreNext]_scoreVars
    PROVE  ScoreTypeOK'
  <1> USE DEF ScoreAssumption
  <1>1. CASE UNCHANGED scoreVars
    BY <1>1 DEF scoreVars, ScoreTypeOK
  <1>2. ASSUME NEW c \in ScoreCalls, NEW u \in Players, NEW p \in Problems, Accept(c, u, p)
        PROVE  ScoreTypeOK'
    <2>1. scoreCall' \in [ScoreCalls -> ScoreRequest \cup {ScoreIdle}]
      BY <1>2 DEF Accept, ScoreTypeOK, ScoreRequest
    <2> QED
      BY <1>2, <2>1 DEF Accept, ScoreTypeOK
  <1>3. ASSUME NEW c \in ScoreCalls, ClaimScore(c) \/ PlayerScores(c)
        PROVE  ScoreTypeOK'
    <2>1. ~ScoreAt(c, "idle")
      BY <1>3 DEF ClaimScore, PlayerScores
    <2>2. scoreCall' \in [ScoreCalls -> ScoreRequest \cup {ScoreIdle}]
      <3>1. PICK d \in Document, step \in {"record", "write"} :
              scoreCall' = [scoreCall EXCEPT ![c].pc = step, ![c].copy = d]
        BY <1>3, <2>1, SolvedTyped, CreditedTyped, Zenon DEF ClaimScore, PlayerScores
      <3> QED
        BY <2>1, <3>1, InFlight DEF ScoreTypeOK, ScoreRequest
    <2>3. lock' \in [Teams -> SUBSET Problems]
      BY <1>3, <2>1, InFlight DEF ClaimScore, PlayerScores, ScoreTypeOK, ScoreRequest
    <2> QED
      BY <1>3, <2>2, <2>3 DEF ClaimScore, PlayerScores, ScoreTypeOK
  <1>4. ASSUME NEW c \in ScoreCalls, RecordScore(c) \/ RecordFails(c)
        PROVE  ScoreTypeOK'
    <2>1. ~ScoreAt(c, "idle")
      BY <1>4 DEF RecordScore, RecordFails
    <2>2. scoreCall' \in [ScoreCalls -> ScoreRequest \cup {ScoreIdle}]
      BY <1>4, <2>1, InFlight DEF RecordScore, RecordFails, ScoreTypeOK, ScoreRequest
    <2>3. rows' \in [Teams -> SUBSET Problems]
      BY <1>4, <2>1, InFlight DEF RecordScore, RecordFails, ScoreTypeOK, ScoreRequest
    <2> QED
      BY <1>4, <2>2, <2>3 DEF RecordScore, RecordFails, ScoreMisfortune, ScoreTypeOK
  <1>5. ASSUME NEW c \in ScoreCalls, WriteBack(c)
        PROVE  ScoreTypeOK'
    <2>1. doc' \in Document
      BY <1>5, InFlight DEF WriteBack, ScoreRequest
    <2>2. finished' \in BOOLEAN /\ disturbed' \in BOOLEAN
      BY <1>5, Zenon DEF WriteBack
    <2> QED
      BY <1>5, <2>1, <2>2 DEF WriteBack, ScoreTypeOK
  <1>6. ASSUME NEW c \in ScoreCalls, Die(c)
        PROVE  ScoreTypeOK'
    BY <1>6 DEF Die, ScoreMisfortune, ScoreTypeOK
  <1> QED
    BY <1>1, <1>2, <1>3, <1>4, <1>5, <1>6, Zenon DEF ScoreNext

\* Types of the scoring model (processEvaluationResult and the documents it copies).
THEOREM ScoreTypes ==
    ASSUME ScoreAssumption
    PROVE  ScoreSpec => []ScoreTypeOK
  <1>1. ScoreInit => ScoreTypeOK
    BY ScoreInitTyped
  <1>2. ScoreTypeOK /\ [ScoreNext]_scoreVars => ScoreTypeOK'
    BY ScoreStepTyped
  <1> QED
    BY <1>1, <1>2, PTL DEF ScoreSpec

-----------------------------------------------------------------------------
(* Lists                                                                   *)

(* A problem nobody has claimed can be appended once it is claimed.        *)
LEMMA AppendHonest ==
    ASSUME NEW claims, NEW ids \in Seq(Problems), NEW p \in Problems,
           Honest(ids, claims), p \notin claims
    PROVE  Honest(Append(ids, p), claims \cup {p})
  BY DEF Honest, Once

LEMMA HonestGrows ==
    ASSUME NEW claims, NEW more, NEW ids, Honest(ids, claims), claims \subseteq more
    PROVE  Honest(ids, more)
  BY DEF Honest

(* Pigeonholes: an honest list is no longer than what has been claimed.    *)
LEMMA ClaimsCounted ==
    ASSUME ScoreAssumption, NEW claims \in SUBSET Problems, NEW ids \in Seq(Problems),
           Honest(ids, claims), Len(ids) >= SquadQuestions
    PROVE  Cardinality(claims) >= SquadQuestions
  <1>1. IsFiniteSet(claims) /\ Cardinality(claims) \in Nat
    BY FS_Subset, FS_CardinalityType DEF ScoreAssumption
  <1>2. IsFiniteSet(1..Len(ids)) /\ Cardinality(1..Len(ids)) = Len(ids)
    <2>1. Len(ids) \in Nat
      OBVIOUS
    <2> QED
      BY <2>1, FS_Interval
  <1>3. ids \in Injection(1..Len(ids), claims)
    BY DEF Honest, Once, Injection, IsInjective
  <1>4. Cardinality(1..Len(ids)) <= Cardinality(claims)
    BY <1>1, <1>2, <1>3, FS_Injection
  <1> QED
    BY <1>1, <1>2, <1>4 DEF ScoreAssumption

(* What a team has claimed stays claimed.                                  *)
LEMMA ClaimsGrow ==
    ASSUME ScoreAssumption, NEW less \in SUBSET Problems, NEW more \in SUBSET Problems,
           less \subseteq more, Cardinality(less) >= SquadQuestions
    PROVE  Cardinality(more) >= SquadQuestions
  <1>1. /\ IsFiniteSet(more) /\ Cardinality(less) <= Cardinality(more)
        /\ Cardinality(less) \in Nat /\ Cardinality(more) \in Nat
    BY FS_Subset, FS_CardinalityType DEF ScoreAssumption
  <1> QED
    BY <1>1 DEF ScoreAssumption

-----------------------------------------------------------------------------
(* The score is honest                                                     *)

LEMMA InitScored ==
    ASSUME ScoreAssumption, ScoreInit
    PROVE  ScoreInv
  <1>1. finished = FALSE
    BY DEF ScoreInit
  <1>2. \A c \in ScoreCalls : ScoreAt(c, "idle")
    BY DEF ScoreInit, ScoreIdle
  <1>3. \A s \in Teams : Honest(doc.ids[s], lock[s])
    BY DEF ScoreInit, Fresh, Honest, Once
  <1> QED
    BY <1>1, <1>2, <1>3, ScoreInitTyped, Zenon DEF ScoreInv, Copied, FinishEarned

(* A step of a call that upsets the lock and the stored document alone and  *)
(* makes no copy that is less honest.                                       *)
LEMMA StepScored ==
    ASSUME ScoreAssumption, ScoreInv, [ScoreNext]_scoreVars
    PROVE  ScoreInv'
  <1> USE DEF ScoreInv
  <1>t. ScoreTypeOK'
    BY ScoreStepTyped
  <1>1. CASE UNCHANGED scoreVars
    BY <1>t, <1>1 DEF scoreVars, Copied, FinishEarned, Honest
  <1>2. ASSUME NEW c \in ScoreCalls, NEW u \in Players, NEW p \in Problems, Accept(c, u, p)
        PROVE  ScoreInv'
    <2>1. scoreCall'[c].copy = doc /\ (\A x \in ScoreCalls \ {c} : scoreCall'[x] = scoreCall[x])
      BY <1>2 DEF Accept, ScoreTypeOK
    <2>2. lock' = lock /\ doc' = doc /\ finished' = finished
      BY <1>2 DEF Accept
    <2>3. Copied'
      BY <2>1, <2>2 DEF Copied
    <2> QED
      BY <1>t, <2>2, <2>3 DEF FinishEarned
  <1>3. ASSUME NEW c \in ScoreCalls, ClaimScore(c)
        PROVE  ScoreInv'
    <2> DEFINE t == Team(c)
               p == scoreCall[c].of
    <2>1. ~ScoreAt(c, "idle") /\ p \notin lock[t]
      BY <1>3 DEF ClaimScore, Claimed
    <2>2. p \in Problems /\ t \in Teams /\ scoreCall[c].copy \in Document
      BY <1>3, <2>1, InFlight DEF ClaimScore, ScoreRequest
    <2>3. lock'[t] = lock[t] \cup {p} /\ (\A s \in Teams \ {t} : lock'[s] = lock[s])
      BY <1>3, <2>2 DEF ClaimScore, ScoreTypeOK
    <2>4. \A s \in Teams : lock[s] \subseteq lock'[s]
      BY <2>3
    <2>5. scoreCall'[c].copy = Credited(c) /\ (\A x \in ScoreCalls \ {c} : scoreCall'[x] = scoreCall[x])
      BY <1>3, <2>1, InFlight DEF ClaimScore, ScoreTypeOK, ScoreRequest
    <2>6. Honest(scoreCall'[c].copy.ids[t], lock'[t])
      <3>1. Honest(scoreCall[c].copy.ids[t], lock[t])
        BY <2>1, <2>2 DEF Copied
      <3>2. scoreCall[c].copy.ids[t] \in Seq(Problems)
        BY <2>2 DEF Document
      <3>3. Honest(Append(scoreCall[c].copy.ids[t], p), lock[t] \cup {p})
        BY <2>1, <2>2, <3>1, <3>2, AppendHonest
      <3> QED
        BY <2>1, <2>2, <2>3, <2>5, <3>3, CreditedTyped
    <2>7. \A s \in Teams \ {t} : Honest(scoreCall'[c].copy.ids[s], lock'[s])
      <3> SUFFICES ASSUME NEW s \in Teams \ {t}
                   PROVE  Honest(scoreCall'[c].copy.ids[s], lock'[s])
        OBVIOUS
      <3>1. Honest(scoreCall[c].copy.ids[s], lock[s])
        BY <2>1 DEF Copied
      <3>2. Credited(c).ids[s] = scoreCall[c].copy.ids[s]
        BY <2>1, <2>2, CreditedTyped, Zenon
      <3>3. scoreCall'[c].copy.ids[s] = scoreCall[c].copy.ids[s] /\ lock'[s] = lock[s]
        BY <2>3, <2>5, <3>2
      <3> QED
        BY <3>1, <3>3
    <2>8. \A x \in ScoreCalls \ {c} : ~(ScoreAt(x, "idle")') =>
            \A s \in Teams : Honest(scoreCall'[x].copy.ids[s], lock'[s])
      BY <2>4, <2>5, HonestGrows DEF Copied
    <2>9. Copied'
      BY <2>6, <2>7, <2>8 DEF Copied
    <2>10. \A s \in Teams : Honest(doc.ids[s], lock'[s])
      BY <2>4, HonestGrows
    <2>11. FinishEarned'
      <3>1. finished' = finished
        BY <1>3, Zenon DEF ClaimScore
      <3>2. \A s \in Teams : lock[s] \in SUBSET Problems /\ lock'[s] \in SUBSET Problems
        BY <1>t DEF ScoreTypeOK
      <3> QED
        BY <2>4, <3>1, <3>2, ClaimsGrow DEF FinishEarned
    <2> QED
      BY <1>3, <1>t, <2>9, <2>10, <2>11 DEF ClaimScore
  <1>4. ASSUME NEW c \in ScoreCalls, PlayerScores(c) \/ RecordScore(c) \/ RecordFails(c)
        PROVE  ScoreInv'
    <2>1. ~ScoreAt(c, "idle")
      BY <1>4 DEF PlayerScores, RecordScore, RecordFails
    <2>2. scoreCall'[c].copy.ids = scoreCall[c].copy.ids /\ (\A x \in ScoreCalls \ {c} : scoreCall'[x] = scoreCall[x])
      BY <1>4, <2>1, InFlight, SolvedTyped
      DEF PlayerScores, RecordScore, RecordFails, ScoreTypeOK, ScoreRequest
    <2>3. lock' = lock /\ doc' = doc /\ finished' = finished
      BY <1>4 DEF PlayerScores, RecordScore, RecordFails
    <2>4. Copied'
      BY <2>1, <2>2, <2>3 DEF Copied
    <2> QED
      BY <1>t, <2>3, <2>4 DEF FinishEarned
  <1>5. ASSUME NEW c \in ScoreCalls, WriteBack(c)
        PROVE  ScoreInv'
    <2>1. ~ScoreAt(c, "idle") /\ scoreCall[c].copy \in Document
      BY <1>5, InFlight DEF WriteBack, ScoreRequest
    <2>2. \A s \in Teams : Honest(scoreCall[c].copy.ids[s], lock[s])
      BY <2>1 DEF Copied
    <2>3. lock' = lock /\ doc' = scoreCall[c].copy
      BY <1>5 DEF WriteBack
    <2>4. ScoreAt(c, "idle")' /\ (\A x \in ScoreCalls \ {c} : scoreCall'[x] = scoreCall[x])
      BY <1>5 DEF WriteBack, ScoreTypeOK, ScoreIdle
    <2>5. Copied'
      BY <2>3, <2>4 DEF Copied
    <2>6. ASSUME AllSolved(scoreCall[c].copy), NEW s \in Teams
          PROVE  Cardinality(lock[s]) >= SquadQuestions
      <3>1. scoreCall[c].copy.ids[s] \in Seq(Problems) /\ lock[s] \in SUBSET Problems
        BY <2>1 DEF Document, ScoreTypeOK
      <3> QED
        BY <2>2, <2>6, <3>1, ClaimsCounted DEF AllSolved
    <2>7. finished' => finished \/ AllSolved(scoreCall[c].copy)
      BY <1>5, Zenon DEF WriteBack
    <2>8. FinishEarned'
      BY <2>3, <2>6, <2>7, Zenon DEF FinishEarned
    <2> QED
      BY <1>t, <2>2, <2>3, <2>5, <2>8
  <1>6. ASSUME NEW c \in ScoreCalls, Die(c)
        PROVE  ScoreInv'
    <2>1. ScoreAt(c, "idle")' /\ (\A x \in ScoreCalls \ {c} : scoreCall'[x] = scoreCall[x])
      BY <1>6 DEF Die, ScoreTypeOK, ScoreIdle
    <2>2. lock' = lock /\ doc' = doc /\ finished' = finished
      BY <1>6 DEF Die
    <2>3. Copied'
      BY <2>1, <2>2 DEF Copied
    <2> QED
      BY <1>t, <2>2, <2>3 DEF FinishEarned
  <1> QED
    BY <1>1, <1>2, <1>3, <1>4, <1>5, <1>6, Zenon DEF ScoreNext

\* A team is credited with a problem at most once, whichever members solve it and however
\* their stale documents overwrite each other (the lock of processEvaluationResult).
THEOREM ScoreTeamCreditedOnce ==
    ASSUME ScoreAssumption
    PROVE  ScoreSpec => []TeamCreditedOnce
  <1>1. ScoreInit => ScoreInv
    BY InitScored
  <1>2. ScoreInv /\ [ScoreNext]_scoreVars => ScoreInv'
    BY StepScored
  <1>3. ScoreInv => TeamCreditedOnce
    BY DEF ScoreInv, Honest, TeamCreditedOnce
  <1> QED
    BY <1>1, <1>2, <1>3, PTL DEF ScoreSpec

\* The end of a squad battle is announced only when each team has claimed as many problems
\* as the battle has, though it is decided by counting the entries of a copy, and any
\* problem counts (battle.service.ts:296-301).
THEOREM ScoreFinishEarned ==
    ASSUME ScoreAssumption
    PROVE  ScoreSpec => []FinishEarned
  <1>1. ScoreInit => ScoreInv
    BY InitScored
  <1>2. ScoreInv /\ [ScoreNext]_scoreVars => ScoreInv'
    BY StepScored
  <1>3. ScoreInv => FinishEarned
    BY DEF ScoreInv
  <1> QED
    BY <1>1, <1>2, <1>3, PTL DEF ScoreSpec

-----------------------------------------------------------------------------
(* What is claimed is credited                                             *)

LEMMA InitCredited ==
    ASSUME ScoreAssumption, ScoreInit
    PROVE  CreditInv
  <1>1. \A c \in ScoreCalls : ScoreAt(c, "idle") /\ scoreCall[c].pc \notin {"record", "write"}
    BY DEF ScoreInit, ScoreIdle
  <1>2. UpToDate
    BY <1>1 DEF UpToDate
  <1>3. Accounted
    BY DEF ScoreInit, Accounted
  <1>4. \A s \in Teams : rows[s] \subseteq lock[s]
    BY DEF ScoreInit
  <1> QED
    BY <1>1, <1>2, <1>3, <1>4, ScoreInitTyped DEF CreditInv, PastClaim

(* A copy that had all of the document still has it when more is appended. *)
LEMMA AppendKeeps ==
    ASSUME NEW ids \in Seq(Problems), NEW p \in Problems, NEW q, InList(q, ids) \/ q = p
    PROVE  InList(q, Append(ids, p))
  <1>1. CASE InList(q, ids)
    <2>1. PICK i \in DOMAIN ids : ids[i] = q
      BY <1>1 DEF InList
    <2>2. i \in DOMAIN Append(ids, p) /\ Append(ids, p)[i] = q
      BY <2>1
    <2> QED
      BY <2>2, Zenon DEF InList
  <1>2. CASE q = p
    <2>1. Len(ids) + 1 \in DOMAIN Append(ids, p) /\ Append(ids, p)[Len(ids) + 1] = q
      BY <1>2
    <2> QED
      BY <2>1, Zenon DEF InList
  <1> QED
    BY <1>1, <1>2

(* Steps that leave what is counted in the copies and the lock as it is.   *)
LEMMA QuietStep ==
    ASSUME CreditInv, NEW c \in ScoreCalls, ~ScoreAt(c, "idle"), ~ScoreAt(c, "idle")',
           doc' = doc, lock' = lock, side' = side, disturbed' = disturbed,
           scoreCall'[c].copy.ids = scoreCall[c].copy.ids,
           scoreCall'[c].by = scoreCall[c].by, scoreCall'[c].of = scoreCall[c].of,
           scoreCall[c].pc \in {"record", "write"} => scoreCall'[c].pc \in {"record", "write"},
           \A x \in ScoreCalls \ {c} : scoreCall'[x] = scoreCall[x]
    PROVE  disturbed' \/ (UpToDate' /\ Accounted')
  <1> SUFFICES ASSUME ~disturbed
               PROVE  UpToDate' /\ Accounted'
    BY Zenon
  <1>1. UpToDate /\ Accounted
    BY Zenon DEF CreditInv
  <1>2. UpToDate'
    BY <1>1 DEF UpToDate
  <1>3. ASSUME NEW s \in Teams, NEW p \in lock[s]
        PROVE  InList(p, doc.ids[s]) \/ Carried(s, p)'
    BY <1>1 DEF Accounted, Carried
  <1> QED
    BY <1>2, <1>3 DEF Accounted

LEMMA StepCredited ==
    ASSUME ScoreAssumption, CreditInv, [ScoreNext]_scoreVars
    PROVE  CreditInv'
  <1> USE DEF CreditInv
  <1>t. ScoreTypeOK /\ ScoreTypeOK'
    BY ScoreStepTyped
  <1>1. CASE UNCHANGED scoreVars
    BY <1>t, <1>1 DEF scoreVars, PastClaim, UpToDate, Accounted, Carried
  <1>2. ASSUME NEW c \in ScoreCalls, NEW u \in Players, NEW p \in Problems, Accept(c, u, p)
        PROVE  CreditInv'
    <2>1. /\ scoreCall'[c].pc = "claim" /\ scoreCall'[c].copy = doc
          /\ \A x \in ScoreCalls \ {c} : scoreCall'[x] = scoreCall[x]
      BY <1>2, <1>t DEF Accept, ScoreTypeOK
    <2>2. lock' = lock /\ doc' = doc /\ rows' = rows /\ side' = side
      BY <1>2 DEF Accept
    <2>3. PastClaim'
      BY <2>1, <2>2 DEF PastClaim
    <2>4. ASSUME ~disturbed
          PROVE  UpToDate' /\ Accounted'
      <3>1. UpToDate /\ Accounted
        BY <2>4, Zenon
      <3>2. UpToDate'
        BY <2>1, <2>2, <3>1 DEF UpToDate, InList
      <3>3. ASSUME NEW s \in Teams, NEW q \in lock[s]
            PROVE  InList(q, doc.ids[s]) \/ Carried(s, q)'
        <4>1. CASE Carried(s, q)
          <5>1. PICK x \in ScoreCalls :
                  /\ scoreCall[x].pc \in {"record", "write"} /\ Team(x) = s /\ scoreCall[x].of = q
                  /\ InList(q, scoreCall[x].copy.ids[s])
            BY <4>1 DEF Carried
          <5>2. x # c
            BY <1>2, <5>1 DEF Accept
          <5> QED
            BY <2>1, <2>2, <5>1, <5>2 DEF Carried
        <4> QED
          BY <3>1, <4>1 DEF Accounted
      <3> QED
        BY <2>2, <3>2, <3>3 DEF Accounted
    <2>5. disturbed' <=> disturbed
      BY <1>2, Zenon DEF Accept
    <2>6. disturbed' \/ (UpToDate' /\ Accounted')
      BY <2>4, <2>5, Zenon
    <2> QED
      BY <1>t, <2>2, <2>3, <2>6
  <1>3. ASSUME NEW c \in ScoreCalls, ClaimScore(c)
        PROVE  CreditInv'
    <2> DEFINE t == Team(c)
               p == scoreCall[c].of
    <2>1. ~ScoreAt(c, "idle") /\ p \in Problems /\ t \in Teams /\ scoreCall[c].copy \in Document
      BY <1>3, <1>t, InFlight DEF ClaimScore, ScoreRequest
    <2>2. lock'[t] = lock[t] \cup {p} /\ (\A s \in Teams \ {t} : lock'[s] = lock[s])
      BY <1>3, <1>t, <2>1 DEF ClaimScore, ScoreTypeOK
    <2>3. \A s \in Teams : lock[s] \subseteq lock'[s]
      BY <2>2
    <2>4. /\ scoreCall'[c].copy = Credited(c) /\ scoreCall'[c].pc = "record"
          /\ scoreCall'[c].of = p /\ scoreCall'[c].by = scoreCall[c].by
          /\ \A x \in ScoreCalls \ {c} : scoreCall'[x] = scoreCall[x]
      BY <1>3, <1>t, <2>1, InFlight DEF ClaimScore, ScoreTypeOK, ScoreRequest
    <2>5. doc' = doc /\ side' = side /\ rows' = rows
      BY <1>3 DEF ClaimScore
    <2>7. PastClaim'
      <3>1. Team(c)' = t /\ p \in lock'[t]
        BY <2>2, <2>4, <2>5
      <3>2. ASSUME NEW x \in ScoreCalls \ {c}
            PROVE  /\ scoreCall'[x].pc = "record" => Team(x)' \in Teams
                   /\ scoreCall'[x].pc \in {"record", "write"} /\ Team(x)' \in Teams
                      => scoreCall'[x].of \in lock'[Team(x)']
        <4>1. scoreCall'[x] = scoreCall[x] /\ Team(x)' = Team(x)
          BY <2>4, <2>5
        <4> QED
          BY <2>3, <4>1 DEF PastClaim
      <3>3. Team(c)' \in Teams /\ scoreCall'[c].of \in lock'[Team(c)']
        BY <2>1, <2>4, <3>1
      <3> QED
        BY <3>2, <3>3, Zenon DEF PastClaim
    <2>8. \A s \in Teams : rows'[s] \subseteq lock'[s]
      BY <2>3, <2>5
    <2>9. ASSUME NEW s \in Teams, NEW q, InList(q, scoreCall[c].copy.ids[s]) \/ (s = t /\ q = p)
          PROVE  InList(q, scoreCall'[c].copy.ids[s])
      <3>1. CASE s = t
        <4>1. scoreCall'[c].copy.ids[s] = Append(scoreCall[c].copy.ids[t], p)
          BY <1>t, <2>1, <2>4, <3>1, CreditedTyped
        <4>2. scoreCall[c].copy.ids[t] \in Seq(Problems)
          BY <2>1 DEF Document
        <4> QED
          BY <2>1, <2>9, <3>1, <4>1, <4>2, AppendKeeps
      <3>2. CASE s # t
        <4>1. Credited(c).ids[s] = scoreCall[c].copy.ids[s]
          BY <1>t, <2>1, <3>2, CreditedTyped
        <4> QED
          BY <2>4, <2>9, <3>2, <4>1
      <3> QED
        BY <3>1, <3>2
    <2>10. ASSUME ~disturbed
           PROVE  UpToDate' /\ Accounted'
      <3>1. UpToDate /\ Accounted
        BY <2>10, Zenon
      <3>2. UpToDate'
        BY <2>1, <2>4, <2>5, <2>9, <3>1 DEF UpToDate
      <3>3. ASSUME NEW s \in Teams, NEW q \in lock'[s]
            PROVE  InList(q, doc.ids[s]) \/ Carried(s, q)'
        <4>1. CASE s = t /\ q = p
          <5>1. InList(q, scoreCall'[c].copy.ids[s])
            BY <2>9, <4>1
          <5> QED
            BY <2>4, <2>5, <4>1, <5>1 DEF Carried
        <4>2. CASE q \in lock[s]
          <5>1. CASE Carried(s, q)
            <6>1. PICK x \in ScoreCalls :
                    /\ scoreCall[x].pc \in {"record", "write"} /\ Team(x) = s /\ scoreCall[x].of = q
                    /\ InList(q, scoreCall[x].copy.ids[s])
              BY <5>1 DEF Carried
            <6>2. x # c
              BY <1>3, <6>1 DEF ClaimScore
            <6> QED
              BY <2>4, <2>5, <6>1, <6>2 DEF Carried
          <5> QED
            BY <3>1, <4>2, <5>1 DEF Accounted
        <4> QED
          BY <2>2, <4>1, <4>2
      <3> QED
        BY <2>5, <3>2, <3>3 DEF Accounted
    <2>11. disturbed' <=> disturbed
      BY <1>3, Zenon DEF ClaimScore
    <2>12. disturbed' \/ (UpToDate' /\ Accounted')
      BY <2>10, <2>11, Zenon
    <2> QED
      BY <1>t, <2>7, <2>8, <2>12
  <1>4. ASSUME NEW c \in ScoreCalls, PlayerScores(c) \/ RecordScore(c) \/ RecordFails(c)
        PROVE  CreditInv'
    <2>1. ~ScoreAt(c, "idle")
      BY <1>4 DEF PlayerScores, RecordScore, RecordFails
    <2>2. scoreCall[c] \in ScoreRequest
      BY <1>t, <2>1, InFlight
    <2>3. /\ scoreCall'[c].pc = "write" /\ scoreCall'[c].copy.ids = scoreCall[c].copy.ids
          /\ scoreCall'[c].by = scoreCall[c].by /\ scoreCall'[c].of = scoreCall[c].of
          /\ \A x \in ScoreCalls \ {c} : scoreCall'[x] = scoreCall[x]
      BY <1>4, <1>t, <2>1, <2>2, SolvedTyped
      DEF PlayerScores, RecordScore, RecordFails, ScoreTypeOK, ScoreRequest
    <2>4. lock' = lock /\ doc' = doc /\ side' = side
      BY <1>4 DEF PlayerScores, RecordScore, RecordFails
    <2>5. disturbed' = disturbed
      BY <1>4, Zenon DEF PlayerScores, RecordScore, RecordFails
    <2>6. Team(c) \in Teams => scoreCall[c].of \in lock[Team(c)]
      BY <1>4 DEF PlayerScores, Claimed, RecordScore, RecordFails, PastClaim
    <2>7. PastClaim'
      BY <2>3, <2>4, <2>6 DEF PastClaim
    <2>8. \A s \in Teams : rows'[s] \subseteq lock'[s]
      <3>1. CASE PlayerScores(c) \/ RecordFails(c)
        BY <2>4, <3>1 DEF PlayerScores, RecordFails
      <3>2. CASE RecordScore(c)
        <4>1. Team(c) \in Teams /\ scoreCall[c].of \in lock[Team(c)]
          BY <2>6, <3>2 DEF RecordScore, PastClaim
        <4> QED
          BY <1>t, <2>4, <3>2, <4>1 DEF RecordScore, ScoreTypeOK
      <3> QED
        BY <1>4, <3>1, <3>2
    <2>9. disturbed' \/ (UpToDate' /\ Accounted')
      BY <2>1, <2>3, <2>4, <2>5, QuietStep
    <2> QED
      BY <1>t, <2>7, <2>8, <2>9
  <1>5. ASSUME NEW c \in ScoreCalls, WriteBack(c)
        PROVE  CreditInv'
    <2>1. scoreCall'[c].pc = "idle" /\ (\A x \in ScoreCalls \ {c} : scoreCall'[x] = scoreCall[x])
      BY <1>5, <1>t DEF WriteBack, ScoreTypeOK, ScoreIdle
    <2>2. lock' = lock /\ rows' = rows /\ side' = side /\ doc' = scoreCall[c].copy
      BY <1>5 DEF WriteBack
    <2>3. PastClaim'
      BY <2>1, <2>2 DEF PastClaim
    <2>4. ASSUME ~disturbed, \A x \in ScoreCalls \ {c} : ScoreAt(x, "idle")
          PROVE  UpToDate' /\ Accounted'
      <3>1. UpToDate /\ Accounted
        BY <2>4, Zenon
      <3>2. \A x \in ScoreCalls : ScoreAt(x, "idle")'
        BY <2>1, <2>4
      <3>3. UpToDate'
        BY <3>2 DEF UpToDate
      <3>4. ASSUME NEW s \in Teams, NEW p \in lock[s]
            PROVE  InList(p, scoreCall[c].copy.ids[s])
        <4>1. CASE InList(p, doc.ids[s])
          BY <1>5, <3>1, <4>1 DEF UpToDate, InList, WriteBack
        <4>2. CASE Carried(s, p)
          BY <2>4, <4>2 DEF Carried
        <4> QED
          BY <3>1, <4>1, <4>2 DEF Accounted
      <3> QED
        BY <2>2, <3>3, <3>4 DEF Accounted
    <2>5. ~disturbed' => ~disturbed /\ (\A x \in ScoreCalls \ {c} : ScoreAt(x, "idle"))
      BY <1>5, Zenon DEF WriteBack
    <2>6. disturbed' \/ (UpToDate' /\ Accounted')
      BY <2>4, <2>5, Zenon
    <2> QED
      BY <1>t, <2>2, <2>3, <2>6
  <1>6. ASSUME NEW c \in ScoreCalls, Die(c)
        PROVE  CreditInv'
    <2>1. scoreCall'[c].pc = "idle" /\ (\A x \in ScoreCalls \ {c} : scoreCall'[x] = scoreCall[x])
      BY <1>6, <1>t DEF Die, ScoreTypeOK, ScoreIdle
    <2>2. lock' = lock /\ rows' = rows /\ side' = side
      BY <1>6 DEF Die
    <2>3. PastClaim'
      BY <2>1, <2>2 DEF PastClaim
    <2>4. disturbed'
      BY <1>6, Zenon DEF Die
    <2> QED
      BY <1>t, <2>2, <2>3, <2>4
  <1> QED
    BY <1>1, <1>2, <1>3, <1>4, <1>5, <1>6, Zenon DEF ScoreNext

\* As long as calls neither overlap a write nor die, what a team has claimed in Redis is in
\* its score or about to be, and the ledger rows say no more (battle.service.ts:233-274).
THEOREM ScoreClaimIsCredited ==
    ASSUME ScoreAssumption
    PROVE  ScoreSpec => []ClaimIsCredited
  <1>1. ScoreInit => CreditInv
    BY InitCredited
  <1>2. CreditInv /\ [ScoreNext]_scoreVars => CreditInv'
    BY StepCredited
  <1>3. ASSUME CreditInv
        PROVE  ClaimIsCredited
    <2>1. ASSUME ~disturbed, NEW s \in Teams, NEW p \in lock[s]
          PROVE  InList(p, doc.ids[s]) \/ Claimants(s, p) # {}
      <3>1. InList(p, doc.ids[s]) \/ Carried(s, p)
        BY <1>3, <2>1, Zenon DEF CreditInv, Accounted
      <3> QED
        BY <3>1 DEF Carried, Claimants
    <2>2. disturbed \/ (\A s \in Teams : \A p \in lock[s] :
            InList(p, doc.ids[s]) \/ Claimants(s, p) # {})
      BY <2>1, Zenon
    <2> QED
      BY <1>3, <2>2, Zenon DEF CreditInv, ClaimIsCredited, InList
  <1> QED
    BY <1>1, <1>2, <1>3, PTL DEF ScoreSpec
=============================================================================
