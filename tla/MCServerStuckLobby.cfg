\* A player's new process takes another name; fair scheduling.
CONSTANTS
  a1 = a1  a2 = a2  a3 = a3  f1 = f1  f2 = f2  f3 = f3
  Addr = {a1, a2}
  Name = {1, 2, 3}
  Session = {1, 2}
  NameOf <- Renames
  MaxPlayers = 2
  Field = {f1, f2}
  Origin = f1
  Outside = outside
  MaxReps = 1
  MaxLog = 0
SPECIFICATION FairSpec
PROPERTY ReadyLobbyStarts
