----------------------------- MODULE SftpServer -----------------------------
(***************************************************************************)
(* SftpSubsystemHandler::try_serve(): one SFTP server loop over one root   *)
(* directory, one action per request type.  The handle table is libssh's   *)
(* (sftp_handle_alloc, sftp_handle, sftp_handle_remove), the HandleEntry   *)
(* objects and the descriptors in them are the handler's.                  *)
(*                                                                         *)
(* The tree is flat: Names are the entries of the root, a name is a file   *)
(* (an inode), an empty directory or a symbolic link, whose target may be  *)
(* any path: a name, the root, or something that exists outside it.  The   *)
(* root itself is not writable through its parent, so that it is never     *)
(* removed or renamed.  A reply is kept as its class: an answer that carries what  *)
(* was asked for ("ok"), the end of a listing or a file ("eof"), or any    *)
(* other status ("error").                                                 *)
(***************************************************************************)
EXTENDS Naturals, FiniteSets

CONSTANTS
  Names,      \* the names a client uses
  Inodes,     \* files
  Handles,    \* the slots of libssh's handle table
  Fds,        \* descriptors of the process
  Root,       \* the path "/"
  Escape,     \* a path whose canonical form is not under the root
  Null,       \* nullptr, no entry
  Wrap,       \* 2^64, the modulus of msg->offset
  Offsets,    \* offsets a client sends
  Lens,       \* lengths a client sends
  OpenFlags,  \* combinations of flags a client opens with
  Batch,      \* the 64 names of one READDIR reply
  MaxSize,    \* the value of max_file_size when there is one
  SizeBound   \* the largest file the file system holds

(* SSH_FXF_READ, WRITE, CREAT, TRUNC, EXCL and APPEND.                      *)
Flags == {"read", "write", "creat", "trunc", "excl", "append"}

(* The paths of the tree, and one outside it.                               *)
Paths == Names \cup {Root, Escape}

(* HandleEntry with what the system keeps behind it.  For a directory:      *)
(* left, what readdir() has not returned yet, and, for the properties,      *)
(* owed, what has been in the directory ever since OPENDIR and was neither  *)
(* sent to the client nor passed over because lstat() failed.               *)
FileEntry == [dir : {FALSE}, ino : Inodes \cup {Null}, flags : SUBSET Flags]
DirEntry == [dir : {TRUE}, path : Names \cup {Root}, left : SUBSET Names, owed : SUBSET Names]

ASSUME SftpAssumption ==
  /\ Wrap \in Nat /\ MaxSize \in Nat \ {0} /\ SizeBound \in Nat /\ Batch \in Nat \ {0}
  /\ OpenFlags \subseteq SUBSET Flags
  /\ Offsets \subseteq 0 .. Wrap - 1 /\ Lens \subseteq Nat
  /\ MaxSize < Wrap \div 2 /\ \A l \in Lens : l < Wrap \div 2
  /\ Null \notin Fds \cup Inodes \cup Names /\ Root \notin Names \cup {Null}
  /\ Escape \notin Names \cup {Root, Null} /\ Null \notin FileEntry \cup DirEntry

VARIABLES
  pc,      \* "new", "serving", "ended"
  opt,     \* Options: read_only, max_file_size
  kind,    \* kind[n]: what the name stands for
  to,      \* to[n]: a file's inode, a link's target
  size,    \* size[i]: the file's length
  fds,     \* fds[f]: a description of the open descriptor or DIR, or Null
  table,   \* table[h]: the fd of the HandleEntry in the slot, or Null
  reply    \* the class of the last reply

sftpVars == <<pc, opt, kind, to, size, fds, table, reply>>
tree == <<kind, to, size>>

Kinds == {"none", "file", "dir", "link"}

SftpTypeOK ==
  /\ pc \in {"new", "serving", "ended"}
  /\ opt \in [readOnly : BOOLEAN, maxSize : {0, MaxSize}]
  /\ kind \in [Names -> Kinds]
  /\ to \in [Names -> Inodes \cup Paths \cup {Null}]
  /\ size \in [Inodes -> 0 .. SizeBound]
  /\ fds \in [Fds -> FileEntry \cup DirEntry \cup {Null}]
  /\ table \in [Handles -> Fds \cup {Null}]
  /\ reply \in {"ok", "eof", "error"}

(* Any tree of files, directories and links.                                *)
SftpInit ==
  /\ pc = "new"
  /\ opt \in [readOnly : BOOLEAN, maxSize : {0, MaxSize}]
  /\ kind \in [Names -> Kinds]
  /\ to \in [Names -> Inodes \cup Paths \cup {Null}]
  /\ \A n \in Names : /\ kind[n] = "file" <=> to[n] \in Inodes
                      /\ kind[n] = "link" <=> to[n] \in Paths
  /\ \A n, m \in Names : kind[n] = "file" /\ to[n] = to[m] => n = m
  /\ size = [i \in Inodes |-> 0]
  /\ fds = [f \in Fds |-> Null]
  /\ table = [h \in Handles |-> Null]
  /\ reply = "ok"

-----------------------------------------------------------------------------
(* ----- resolve_sftp_path, and what the file system answers (external) ---- *)

(* The paths on the way from n along links: the least set that has n and    *)
(* the target of every link in it.  The way ends at what is not a link, or  *)
(* nowhere in a loop.                                                       *)
IsLink(p) == p \in Names /\ kind[p] = "link"
Way(n) ==
  {m \in Paths : \A S \in SUBSET Paths :
                   n \in S /\ (\A x \in S : IsLink(x) => to[x] \in S) => m \in S}
Ends(n) == {m \in Way(n) : ~IsLink(m)}
Target(n) == CHOOSE m \in Ends(n) : TRUE

(* resolve_sftp_path: weakly_canonical() follows the links of a path that   *)
(* exists, keeps the name of one that does not (a dangling link too), and   *)
(* fails for a loop of links; a path outside the root is refused.           *)
Resolve(p) ==
  IF ~IsLink(p) THEN (IF p = Escape THEN Null ELSE p)
  ELSE LET ends == Ends(p) IN
       IF ends = {} THEN Null
       ELSE LET t == CHOOSE m \in ends : TRUE IN
            IF t = Escape THEN Null
            ELSE IF t \in Names /\ kind[t] = "none" THEN p ELSE t

Existing == {n \in Names : kind[n] # "none"}
Used == {to[n] : n \in {m \in Names : kind[m] = "file"}}
          \cup {fds[f].ino : f \in {g \in Fds : fds[g] # Null /\ ~fds[g].dir}}
FreeFds == {f \in Fds : fds[f] = Null}
FreeSlots == {h \in Handles : table[h] = Null}

(* The tree becomes (k, t); a name that is gone is no longer owed by any    *)
(* open listing.                                                            *)
SetTree(k, t) ==
  /\ kind' = k /\ to' = t
  /\ fds' = [f \in Fds |->
               IF fds[f] # Null /\ fds[f].dir
               THEN [fds[f] EXCEPT !.owed = {n \in @ : k[n] # "none"}] ELSE fds[f]]

Answer(r) == reply' = r /\ UNCHANGED <<pc, opt>>
Refuse == Answer("error") /\ UNCHANGED <<tree, fds, table>>
DeniedReadOnly == opt.readOnly /\ Refuse
InvalidHandle(h, dir) ==
  /\ IF table[h] = Null THEN TRUE ELSE fds[table[h]].dir # dir
  /\ Refuse

-----------------------------------------------------------------------------
(* sftp_server_new, sftp_server_init.                                       *)
Start ==
  /\ pc = "new"
  /\ pc' \in {"serving", "ended"}
  /\ UNCHANGED <<opt, tree, fds, table, reply>>

(* Fault: an entry libssh has no slot for is deleted but its descriptor is  *)
(* not closed.                                                              *)
GiveHandleLeaks(f, entry, others) ==
  IF FreeSlots = {}
  THEN /\ fds' = [others EXCEPT ![f] = entry]
       /\ Answer("error") /\ UNCHANGED table
  ELSE /\ fds' = [others EXCEPT ![f] = entry]
       /\ \E h \in FreeSlots : table' = [table EXCEPT ![h] = f]
       /\ Answer("ok")

(* new HandleEntry, sftp_handle_alloc, and the reply; close_handle() when   *)
(* the table is full.                                                       *)
GiveHandle(f, entry, others) ==
  IF FreeSlots = {}
  THEN /\ fds' = others
       /\ Answer("error") /\ UNCHANGED table
  ELSE /\ fds' = [others EXCEPT ![f] = entry]
       /\ \E h \in FreeSlots : table' = [table EXCEPT ![h] = f]
       /\ Answer("ok")

(* SSH_FXP_REALPATH.                                                        *)
RealPath(p) ==
  /\ Answer(IF Resolve(p) = Null THEN "error" ELSE "ok")
  /\ UNCHANGED <<tree, fds, table>>

(* SSH_FXP_STAT and LSTAT: lstat() of the resolved path, or stat() of it,   *)
(* which fails for a dangling link.                                         *)
Stat(p, follow) ==
  LET r == Resolve(p) IN
  /\ Answer(IF r = Root THEN "ok"
            ELSE IF r = Null THEN "error"
            ELSE IF kind[r] = "none" \/ (follow /\ kind[r] = "link") THEN "error" ELSE "ok")
  /\ UNCHANGED <<tree, fds, table>>

(* SSH_FXP_FSTAT: a directory is looked up again by its path.               *)
FStat(h) ==
  /\ LET f == table[h] IN
       Answer(IF f = Null THEN "error"
              ELSE IF fds[f].dir /\ fds[f].path # Root
                   THEN (IF kind[fds[f].path] = "none" THEN "error" ELSE "ok")
              ELSE "ok")
  /\ UNCHANGED <<tree, fds, table>>

(* SSH_FXP_OPENDIR.                                                         *)
OpenDir(p) ==
  LET r == Resolve(p)
      opens == r = Root \/ (r \in Names /\ kind[r] = "dir")
      now == IF r = Root THEN Existing ELSE {}
  IN  \/ /\ opens /\ FreeFds # {}
         /\ \E f \in FreeFds :
              GiveHandle(f, [dir |-> TRUE, path |-> r, left |-> now, owed |-> now], fds)
         /\ UNCHANGED tree
      \/ (~opens \/ FreeFds = {}) /\ Refuse

(* A reply with the names in sent, after readdir() has returned those in    *)
(* read; lstat() failed for those in failed although they are there.        *)
Sends(h, read, sent, failed) ==
  /\ Cardinality(sent) <= Batch
  /\ fds' = [fds EXCEPT ![table[h]].left = @ \ read, ![table[h]].owed = @ \ (sent \cup failed)]
  /\ Answer("ok")

(* Fault: the batch bound is tested before the entry just read is added.    *)
ReadDirDropsOne(h) ==
  \/ InvalidHandle(h, TRUE)
  \/ /\ table[h] # Null /\ fds[table[h]].dir
     /\ \/ Answer("eof") /\ UNCHANGED fds
        \/ \E read \in SUBSET fds[table[h]].left : \E last \in read :
             \E failed \in SUBSET ((read \ {last}) \cap Existing) :
               Sends(h, read, ((read \ {last}) \cap Existing) \ failed, failed)
     /\ UNCHANGED <<tree, table>>

(* SSH_FXP_READDIR: read entries until Batch of them are in the reply or    *)
(* readdir() returns no more, at the end of the directory or because it     *)
(* failed; an entry for which lstat() fails, because it is gone or for any  *)
(* other reason, is passed over.  A readdir() that returns nothing at first *)
(* is answered EOF, a failure like the end.                                 *)
ReadDir(h) ==
  \/ InvalidHandle(h, TRUE)
  \/ /\ table[h] # Null /\ fds[table[h]].dir
     /\ \/ Answer("eof") /\ UNCHANGED fds
        \/ \E read \in SUBSET fds[table[h]].left \ {{}} :
             \E failed \in SUBSET (read \cap Existing) :
               Sends(h, read, (read \cap Existing) \ failed, failed)
     /\ UNCHANGED <<tree, table>>

(* open(): through a dangling link it creates the link's target.            *)
Opened(r, flags) ==
  LET n == IF r # Root /\ kind[r] = "link" THEN Target(r) ELSE r
      create == "creat" \in flags
  IN  IF r = Root \/ kind[n] = "dir"
      THEN IF flags \cap {"write", "creat"} = {} THEN "dir" ELSE "fails"
      ELSE IF kind[n] = "file"
           THEN IF create /\ "excl" \in flags THEN "fails" ELSE "file"
      ELSE IF create /\ (n = r \/ "excl" \notin flags) THEN "new" ELSE "fails"

(* SSH_FXP_OPEN.                                                            *)
Open(p, flags) ==
  LET changes == flags \cap {"write", "creat", "trunc", "append"} # {}
      r == Resolve(p)
      n == IF r \in Names /\ kind[r] = "link" THEN Target(r) ELSE r
      opens == r # Null /\ FreeFds # {} /\ Opened(r, flags) # "fails"
      entry(i) == [dir |-> FALSE, ino |-> i, flags |-> flags]
  IN  \/ changes /\ DeniedReadOnly
      \/ ~(changes /\ opt.readOnly) /\ ~opens /\ Refuse
      \/ /\ ~(changes /\ opt.readOnly) /\ opens
         /\ \E f \in FreeFds :
              \/ /\ Opened(r, flags) = "dir"
                 /\ GiveHandle(f, entry(Null), fds) /\ UNCHANGED tree
              \/ /\ Opened(r, flags) = "file"
                 /\ GiveHandle(f, entry(to[n]), fds)
                 /\ size' = [size EXCEPT ![to[n]] = IF "trunc" \in flags THEN 0 ELSE @]
                 /\ UNCHANGED <<kind, to>>
              \/ /\ Opened(r, flags) = "new"
                 /\ \E i \in Inodes \ Used :
                      /\ GiveHandle(f, entry(i), fds)
                      /\ kind' = [kind EXCEPT ![n] = "file"]
                      /\ to' = [to EXCEPT ![n] = i]
                      /\ size' = [size EXCEPT ![i] = 0]

(* SSH_FXP_READ: an offset of 2^63 and more is a negative off_t.            *)
Read(h, offset, len) ==
  \/ InvalidHandle(h, FALSE)
  \/ /\ table[h] # Null /\ ~fds[table[h]].dir
     /\ LET e == fds[table[h]]
            readable == e.ino # Null /\ offset < Wrap \div 2
                        /\ ("read" \in e.flags \/ "write" \notin e.flags)
            n == IF offset >= size[e.ino] THEN 0
                 ELSE IF size[e.ino] - offset < len THEN size[e.ino] - offset ELSE len
        IN  Answer(IF ~readable THEN "error"
                   ELSE IF n = 0 THEN "eof" ELSE "ok")
     /\ UNCHANGED <<tree, fds, table>>

(* Fault: the limit is compared with the offset alone.                      *)
TooLargeForgetsLength(offset, len) ==
  opt.maxSize # 0 /\ offset > opt.maxSize

(* msg->offset + len > max_file_size, in 64 bits.                           *)
TooLarge(offset, len) ==
  opt.maxSize # 0 /\ (offset + len) % Wrap > opt.maxSize

(* SSH_FXP_WRITE.  pwrite() may write less than it was given, which is      *)
(* answered like a whole write; with O_APPEND it writes at the end.         *)
Write(h, offset, len) ==
  \/ DeniedReadOnly
  \/ ~opt.readOnly /\ InvalidHandle(h, FALSE)
  \/ /\ ~opt.readOnly /\ table[h] # Null /\ ~fds[table[h]].dir
     /\ TooLarge(offset, len) /\ Refuse
  \/ /\ ~opt.readOnly /\ table[h] # Null /\ ~fds[table[h]].dir
     /\ ~TooLarge(offset, len)
     /\ LET e == fds[table[h]]
            at == IF "append" \in e.flags THEN size[e.ino] ELSE offset
            writable == e.ino # Null /\ "write" \in e.flags /\ offset < Wrap \div 2
        IN  \/ Refuse
            \/ /\ writable
               /\ \E w \in (IF len = 0 THEN {0} ELSE 1 .. len) :
                    /\ at + w <= SizeBound
                    /\ size' = [size EXCEPT ![e.ino] =
                                  IF w > 0 /\ at + w > @ THEN at + w ELSE @]
               /\ Answer("ok") /\ UNCHANGED <<kind, to, fds, table>>

(* SSH_FXP_CLOSE: always answered OK.                                       *)
Close(h) ==
  /\ IF table[h] # Null
     THEN /\ table' = [table EXCEPT ![h] = Null]
          /\ fds' = [fds EXCEPT ![table[h]] = Null]
     ELSE UNCHANGED <<fds, table>>
  /\ Answer("ok") /\ UNCHANGED tree

(* SSH_FXP_REMOVE: unlink() of the resolved path.                           *)
Remove(p) ==
  LET r == Resolve(p)
      gone == r \in Names /\ kind[r] \in {"file", "link"}
  IN  \/ DeniedReadOnly
      \/ ~opt.readOnly /\ ~gone /\ Refuse
      \/ /\ ~opt.readOnly /\ gone
         /\ SetTree([kind EXCEPT ![r] = "none"], [to EXCEPT ![r] = Null])
         /\ Answer("ok") /\ UNCHANGED <<size, table>>

(* SSH_FXP_MKDIR.                                                           *)
MkDir(p) ==
  LET r == Resolve(p)
      made == r \in Names /\ kind[r] = "none"
  IN  \/ DeniedReadOnly
      \/ ~opt.readOnly /\ ~made /\ Refuse
      \/ /\ ~opt.readOnly /\ made
         /\ SetTree([kind EXCEPT ![r] = "dir"], to)
         /\ Answer("ok") /\ UNCHANGED <<size, table>>

(* SSH_FXP_RMDIR.                                                           *)
RmDir(p) ==
  LET r == Resolve(p)
      gone == r \in Names /\ kind[r] = "dir"
  IN  \/ DeniedReadOnly
      \/ ~opt.readOnly /\ ~gone /\ Refuse
      \/ /\ ~opt.readOnly /\ gone
         /\ SetTree([kind EXCEPT ![r] = "none"], to)
         /\ Answer("ok") /\ UNCHANGED <<size, table>>

(* Fault: rename() without the test of read_only.                           *)
RenameAlways(p, q) ==
  LET from == Resolve(p)
      onto == Resolve(q)
  IN  /\ {from, onto} \subseteq Names /\ kind[from] # "none"
      /\ from # onto
      /\ SetTree([kind EXCEPT ![onto] = kind[from], ![from] = "none"],
                 [to EXCEPT ![onto] = to[from], ![from] = Null])
      /\ Answer("ok") /\ UNCHANGED <<size, table>>

(* SSH_FXP_RENAME.                                                          *)
Rename(p, q) ==
  LET from == Resolve(p)
      onto == Resolve(q)
      moves == /\ {from, onto} \subseteq Names /\ kind[from] # "none"
               /\ kind[onto] = "none" \/ (kind[from] = "dir" <=> kind[onto] = "dir")
  IN  \/ DeniedReadOnly
      \/ ~opt.readOnly /\ ~moves /\ Refuse
      \/ /\ ~opt.readOnly /\ moves
         /\ IF from = onto THEN UNCHANGED <<kind, to, fds>>
            ELSE SetTree([kind EXCEPT ![onto] = kind[from], ![from] = "none"],
                         [to EXCEPT ![onto] = to[from], ![from] = Null])
         /\ Answer("ok") /\ UNCHANGED <<size, table>>

(* SSH_FXP_READLINK: only a dangling link still resolves to a link.         *)
ReadLink(p) ==
  /\ Answer(IF Resolve(p) \in Names /\ kind[Resolve(p)] = "link" THEN "ok" ELSE "error")
  /\ UNCHANGED <<tree, fds, table>>

(* SSH_FXP_SYMLINK: the target is stored as it was sent.                    *)
SymLink(target, p) ==
  LET r == Resolve(p)
      made == r \in Names /\ kind[r] = "none"
  IN  \/ DeniedReadOnly
      \/ ~opt.readOnly /\ ~made /\ Refuse
      \/ /\ ~opt.readOnly /\ made
         /\ SetTree([kind EXCEPT ![r] = "link"], [to EXCEPT ![r] = target])
         /\ Answer("ok") /\ UNCHANGED <<size, table>>

(* Any other request type.                                                  *)
Unsupported == Refuse

(* sftp_get_client_message() returns nullptr: sftp_server_free() drops the  *)
(* table, and no one closes the entries that were in it.                    *)
End ==
  /\ pc' = "ended"
  /\ table' = [h \in Handles |-> Null]
  /\ UNCHANGED <<opt, tree, fds, reply>>

Request ==
  \/ \E p \in Paths :
       \/ RealPath(p) \/ OpenDir(p) \/ Remove(p) \/ MkDir(p) \/ RmDir(p) \/ ReadLink(p)
       \/ \E follow \in BOOLEAN : Stat(p, follow)
       \/ \E flags \in OpenFlags : Open(p, flags)
       \/ \E q \in Paths : Rename(p, q)
       \/ \E t \in Paths : SymLink(t, p)
  \/ \E h \in Handles :
       \/ FStat(h) \/ ReadDir(h) \/ Close(h)
       \/ \E offset \in Offsets, len \in Lens : Read(h, offset, len) \/ Write(h, offset, len)
  \/ Unsupported

SftpNext ==
  \/ Start
  \/ pc = "serving" /\ Request
  \/ pc = "serving" /\ End

SftpSpec == SftpInit /\ [][SftpNext]_sftpVars

-----------------------------------------------------------------------------
(* Every open descriptor and DIR of the loop is in exactly one slot of the  *)
(* handle table, and every slot's entry is open: whatever requests fail and *)
(* wherever the table is full, nothing is leaked, closed twice or used      *)
(* after close_handle().                                                    *)
HandlesExact ==
  pc = "serving" =>
    /\ \A h \in Handles : table[h] # Null => fds[table[h]] # Null
    /\ \A f \in Fds : fds[f] # Null => \E h \in Handles : table[h] = f
    /\ \A h, k \in Handles : table[h] # Null /\ table[h] = table[k] => h = k

(* deny_if_read_only(): whatever the requests and their order, with         *)
(* read_only neither a name nor a file's length ever changes, and no        *)
(* descriptor is open for writing.                                          *)
ReadOnlyKept ==
  [][opt.readOnly => /\ UNCHANGED tree
                     /\ \A f \in Fds : fds'[f] # Null /\ ~fds'[f].dir =>
                                         "write" \notin fds'[f].flags]_sftpVars

(* max_file_size: the sum that is compared wraps at 2^64, yet no WRITE      *)
(* through a handle that was not opened for appending makes a file longer   *)
(* than the limit, because the offsets that wrap are negative for pwrite(). *)
GrowthLimited ==
  [][\A i \in Inodes :
       opt.maxSize # 0 /\ size'[i] > size[i] =>
         \/ size'[i] <= opt.maxSize
         \/ \E f \in Fds : fds[f] # Null /\ ~fds[f].dir /\ fds[f].ino = i
                             /\ "append" \in fds[f].flags]_sftpVars

(* SSH_FXP_READDIR in batches: a name that has been in the directory since  *)
(* OPENDIR was sent, was passed over because lstat() failed for it, or will *)
(* still be read, however many names were removed or renamed between two    *)
(* batches; so no name is missing at the end of the directory for any other *)
(* reason (server_sftp_subsystem.ipp:274-294).  What readdir() did not      *)
(* return before it failed is missing behind the same EOF (275-279).        *)
ListingComplete == \A f \in Fds : fds[f] # Null /\ fds[f].dir => fds[f].owed \subseteq fds[f].left
=============================================================================
