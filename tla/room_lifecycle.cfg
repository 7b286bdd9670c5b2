SPECIFICATION Spec
CONSTANTS
  Users = {u1, u2}
  NoUser = NoUser
  Sessions = {s1}
  MaxPlayers = 2
  MaxJoins = 3
PROPERTY
  FinishedIsNotReopened
