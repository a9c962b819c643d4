\* The least and the greatest number of worms a game can start with; another may
\* join.  The call returns.
CONSTANTS
  Worms = {2, 25}
  NameBytes <- NamesOfLengths
  MaxAlive = 26
  MaxEvents = 44
SPECIFICATION Spec
INVARIANTS TypeOK EachEventOnce OversizeCases
CHECK_DEADLOCK FALSE
