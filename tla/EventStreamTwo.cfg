\* Two games; everything may be lost, repeated and reordered.  The client may
\* exit.
CONSTANTS
  Game = {1, 2}
  Log <- TwoLogs
  GameId <- Identifiers
  MaxEvents = 6
SPECIFICATION Spec
INVARIANTS TypeOK EventsCounted InOrder CompleteUnrepeated GuiInStep
INVARIANT RosterAccepts
CHECK_DEADLOCK FALSE
