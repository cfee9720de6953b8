SPECIFICATION FairSpec
CONSTANTS
  MaxSize = 7
  Chunks = {0, 2}
  Default = 3
  Depth = 3
INVARIANT SuccessMeans
PROPERTIES ImplementsCopy TransferEnds
CHECK_DEADLOCK FALSE
