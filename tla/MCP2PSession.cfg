SPECIFICATION FairSpec
CONSTANTS
  MaxMiss = 4
  CipherBeats = 2
  OnlyLocal = FALSE
INVARIANTS
  SocketlessOnlyByEarlyEnd
PROPERTIES
  AliveStationKept
  DeadStationCounted
  ClosedRunsDown
  DeadStationNoticed
  ClosedBecomesQuiet
  ConnectReturns
  LifeSpec
