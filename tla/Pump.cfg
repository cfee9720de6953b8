SPECIFICATION FairSpec
CONSTANTS
  MaxBytes = 3
  BufferSize = 2
  SocketRoom = 1
  Window = 1
  Faults = TRUE
INVARIANTS NothingLost
PROPERTIES ImplementsRelay StopEnds BothEofEnds
