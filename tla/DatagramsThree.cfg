\* Three worms: an elimination does not end the game.  The call returns.
CONSTANTS
  Worms = {3}
  NameBytes <- NamesOfLengths
  MaxAlive = 3
  MaxEvents = 60
SPECIFICATION Spec
INVARIANT NoOversize
CHECK_DEADLOCK FALSE
