SPECIFICATION LifetimeSpec
CONSTANTS
  Objects = {o1, o2, o3}
  SessionCores = {c1, c2}
  CopiesMovedFrom = FALSE
  KeepsLibraryAlive = TRUE
  Slots = {s1, s2, s3}
  Cores = {c1, c2}
  Natives = {n1, n2}
  NoCore = NoCore
  NoNative = NoNative
  EndsDerivedFirst = TRUE
SYMMETRY Symmetry
INVARIANTS RefcountExact NoCallAfterFinalize HandlesAlive OneOwner
PROPERTY SessionFreedLast
