SPECIFICATION Spec
CONSTANTS
  N = 2
  Problems = {q1, q2}
  TotalQuestions = 2
  Actors = {a1, a2}
  Kinds <- GuardedPaths
  Hosted = FALSE
  DbFails = FALSE
  MaxCalls = 3
  MaxAborts = 0
  Typists = {}
  MaxRevision = 1
INVARIANT
  RatedOnce
CHECK_DEADLOCK FALSE
