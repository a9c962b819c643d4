\* Two players and a spectator come and go; the server's scheduling is fair.
CONSTANTS
  a1 = a1  a2 = a2  a3 = a3  f1 = f1  f2 = f2  f3 = f3
  Addr = {a1, a2, a3}
  Name = {1, 2}
  Session = {1}
  NameOf <- WithSpectator
  MaxPlayers = 3
  Field = {f1, f2}
  Origin = f1
  Outside = outside
  MaxReps = 1
  MaxLog = 0
SPECIFICATION FairSpec
PROPERTIES SilentClientsLeave ReadyLobbyStarts
