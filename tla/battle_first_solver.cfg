SPECIFICATION Spec
CONSTANTS
  N = 2
  Problems = {q1, q2}
  TotalQuestions = 2
  Actors = {a1}
  Kinds <- GuardedPaths
  Hosted = FALSE
  DbFails = FALSE
  MaxCalls = 3
  MaxAborts = 0
  Typists = {}
  MaxRevision = 1
PROPERTY
  FirstSolverRanksFirst
CHECK_DEADLOCK FALSE
