SPECIFICATION Spec
CONSTANTS
  StdinLen = 2
  Window = 2
  InWindow = 1
  Chunk = 2
  MaxOutput = 1
  MaxBytes = 2
  MaxShown = 1
  MaxKeys = 3
  Sizes <- MCSizes
INVARIANTS OutputExact KeysForwarded ResizePending
 
