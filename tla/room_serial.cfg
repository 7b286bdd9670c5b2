SPECIFICATION Spec
CONSTANTS
  Users = {u1, u2, u3, u4}
  NoUser = NoUser
  Sessions = {s1}
  MaxPlayers = 3
  MaxJoins = 6
INVARIANTS
  LobbyKept
  BannedStayOut
PROPERTY
  ImplementsLobby
