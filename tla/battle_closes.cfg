SPECIFICATION FairSpec
CONSTANTS
  N = 2
  Problems = {q1, q2}
  TotalQuestions = 2
  Actors = {a1, a2}
  Kinds <- SweptPaths
  Hosted = TRUE
  DbFails = FALSE
  MaxCalls = 3
  MaxAborts = 1
  Typists = {}
  MaxRevision = 1
INVARIANT
  WinnerEarnedIt
PROPERTY
  EveryBattleCloses
CHECK_DEADLOCK FALSE
