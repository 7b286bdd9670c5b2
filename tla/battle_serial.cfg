SPECIFICATION Spec
CONSTANTS
  N = 2
  Problems = {q1, q2, q3}
  TotalQuestions = 2
  Actors = {a1}
  Kinds <- GuardedPaths
  Hosted = TRUE
  DbFails = FALSE
  MaxCalls = 5
  MaxAborts = 0
  Typists = {}
  MaxRevision = 1
INVARIANT
  RatedOnce
PROPERTY
  SolversRankFirst
CHECK_DEADLOCK FALSE
