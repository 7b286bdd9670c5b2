--------------------------- MODULE MCMatchmaking ---------------------------
(* Instances of Matchmaking for TLC.                                       *)
EXTENDS Matchmaking, TLC

\* Players and calls are only ever compared: permuting them is sound for safety.
Symmetric == Permutations(Users) \cup Permutations(Calls)
=============================================================================
