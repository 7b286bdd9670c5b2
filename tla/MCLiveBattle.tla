---------------------------- MODULE MCLiveBattle ----------------------------
(* Instances of LiveBattle for TLC: which entry points each run exercises. *)
EXTENDS LiveBattle, TLC

\* Every path that may end a battle.
AnyPath == AllKinds

\* Only the paths that go through the idempotency guard.
GuardedPaths == {"submit", "worker", "leave", "timeout", "timer"}

\* Battles decided by queued submissions, which close no room, and the scheduler
\* behind them.
SweptPaths == {"worker", "sweep"}

\* Calls differ in what they do, not in who they are.
SameActors == Permutations(Actors)
=============================================================================
