\* Three addresses for two seats, two of them wanting the same name.
CONSTANTS
  a1 = a1  a2 = a2  a3 = a3  f1 = f1  f2 = f2  f3 = f3
  Addr = {a1, a2, a3}
  Name = {1, 2}
  Session = {1, 2}
  NameOf <- ContestedNames
  MaxPlayers = 2
  Field = {f1, f2, f3}
  Origin = f1
  Outside = outside
  MaxReps = 2
  MaxLog = 5
SPECIFICATION Spec
INVARIANTS TypeOK TimerPartition NamesInStep GameEndsOnce PixelsAreEaten
PROPERTIES OnlyIdleKicked WormsOutliveClients LogPromise
