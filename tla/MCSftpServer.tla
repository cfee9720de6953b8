---------------------------- MODULE MCSftpServer ----------------------------
(* SftpServer on a small instance.                                          *)
EXTENDS SftpServer, TLC

MCOffsets == {0, 7}
MCLens == {1, 2}
MCOpenFlags == {{"read"}, {"write"}, {"creat", "trunc"}, {"read", "write", "creat", "excl"},
                {"write", "append"}}

(* Names, files, slots and descriptors are interchangeable.                 *)
MCSymmetry == Permutations(Names) \cup Permutations(Inodes)
                \cup Permutations(Handles) \cup Permutations(Fds)
=============================================================================
