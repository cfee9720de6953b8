SPECIFICATION SftpSpec
CONSTANTS
  Names = {n1, n2}
  Inodes = {i1}
  Handles = {h1, h2}
  Fds = {f1, f2, f3}
  Root = Root
  Escape = Escape
  Null = Null
  Wrap = 8
  Offsets <- MCOffsets
  Lens <- MCLens
  OpenFlags <- MCOpenFlags
  Batch = 1
  MaxSize = 1
  SizeBound = 2
SYMMETRY MCSymmetry
INVARIANTS HandlesExact ListingComplete
PROPERTIES ReadOnlyKept GrowthLimited
CHECK_DEADLOCK FALSE
