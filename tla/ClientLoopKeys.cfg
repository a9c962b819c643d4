\* Two keys and pieces of two lines at a time.  The client may end.
CONSTANTS
  MaxInbox = 1
  MaxWire = 2
SPECIFICATION FairSpec
INVARIANTS TypeOK TurnIsHeld
PROPERTY ClosesWithGui
CHECK_DEADLOCK FALSE
