SPECIFICATION Spec
CONSTANTS
  N = 2
  Problems = {q1}
  TotalQuestions = 1
  Actors = {a1, a2}
  Kinds <- AnyPath
  Hosted = FALSE
  DbFails = TRUE
  MaxCalls = 2
  MaxAborts = 1
  Typists = {2}
  MaxRevision = 1
INVARIANTS
  TypeOK
  RatedOnlyIfContested
  AckedWorkSurvives
SYMMETRY SameActors
CHECK_DEADLOCK FALSE
