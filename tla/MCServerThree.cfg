\* Three players with a seat each on a single field, so that every move is
\* fatal; the eliminated and a newcomer may join the running game.
CONSTANTS
  a1 = a1  a2 = a2  a3 = a3  f1 = f1  f2 = f2  f3 = f3
  Addr = {a1, a2, a3}
  Name = {1, 2, 3}
  Session = {1}
  NameOf <- OwnNamesOfThree
  MaxPlayers = 3
  Field = {f1}
  Origin = f1
  Outside = outside
  MaxReps = 1
  MaxLog = 5
SPECIFICATION Spec
INVARIANTS RosterIsEveryone NumbersInRoster GameEndsOnce
PROPERTY LogPromise
