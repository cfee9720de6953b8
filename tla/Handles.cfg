SPECIFICATION HandlesSpec
CONSTANTS
  Slots = {s1, s2, s3}
  Cores = {c1}
  Natives = {n1, n2}
  NoCore = NoCore
  NoNative = NoNative
  EndsDerivedFirst = FALSE
SYMMETRY Symmetry
INVARIANT FilesKeepSftp
