\* Two keys and pieces of two lines at a time.  The client may end.
CONSTANTS
  MaxInbox = 1
  MaxWire = 2
SPECIFICATION Spec
INVARIANT EndsForGuiOnly
CHECK_DEADLOCK FALSE
