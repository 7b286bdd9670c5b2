SPECIFICATION Spec
CONSTANTS
  Users = {u1, u2, u3}
  NoUser = NoUser
  Sessions = {s1, s2}
  MaxPlayers = 2
  MaxJoins = 3
INVARIANTS
  TypeOK
  SeatsPromised
SYMMETRY Symmetric
