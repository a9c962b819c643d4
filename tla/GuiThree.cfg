\* Two games, a table of two players, sockets of three lines.  Client and GUI
\* may both end.
CONSTANTS
  Script <- Scripts
  MaxPlayer = 2
  Capacity = 3
SPECIFICATION FairSpec
INVARIANTS TypeOK DisplaysGame DefinedWhileWhole EndsAtEnd
PROPERTY LinesAreRead
CHECK_DEADLOCK FALSE
