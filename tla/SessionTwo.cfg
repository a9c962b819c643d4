\* Two games; a datagram holds three events, the client's socket two datagrams.
CONSTANTS
  Games = 2
  Log <- TwoLogs
  GameId <- Identifiers
  MaxEvents = 5
  PerDatagram = 3
  Capacity = 2
SPECIFICATION FairSpec
INVARIANT TypeOK
PROPERTIES StreamPromise NeverBack FollowersFinish LastGameReaches
CHECK_DEADLOCK FALSE
