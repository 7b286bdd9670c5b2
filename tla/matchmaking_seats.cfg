SPECIFICATION Spec
CONSTANTS
  Users = {u1, u2, u3}
  NoUser = NoUser
  Calls = {c1, c2}
  MaxAsks = 4
  MaxFaults = 0
INVARIANT
  SeatedOnce
CHECK_DEADLOCK FALSE
