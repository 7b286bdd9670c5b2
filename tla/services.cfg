SPECIFICATION Spec
CONSTANTS
 Workers = {c1, c2}
 NoWorker = NoWorker
 Attempts = 3
 MaxFaults = 4
 Milestones = {p, q}
 Achievements = {win}
 Battles = {room}
 Items = {frame}
 MaxCost = 2
 Baselines = {1, 2}
 PointCalls = {c1, c2}
 NoSession = NoSession
 MaxPointFaults = 1
 Players = {u, v}
 Captain = u
 Problems = {p, q}
 SquadQuestions = 2
 ScoreCalls = {c1, c2}
 MaxScoreFaults = 1
 Sockets = {c1, c2, d}
 NoSocket = NoSocket
 Cases = 5
 Concurrency = 2
SYMMETRY Symmetric
INVARIANTS
 TypeOK
 AwardedOnce
 EndsFinalized
 WeeklyPaidOnce
 MarkedIsPaid
 AchievementPaidOnce
 AwardsBounded
 OverdraftBounded
 UnlockedIsPaid
 PaidIsKept
 TeamCreditedOnce
 FinishEarned
 ClaimIsCredited
 AbsentIsWatched
 PoolIsUsed
 VerdictIsDeterministic
CHECK_DEADLOCK FALSE
