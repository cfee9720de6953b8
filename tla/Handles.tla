------------------------------- MODULE Handles -------------------------------
(***************************************************************************)
(* Ownership of libssh handles on the client side: Session, the shared     *)
(* detail::SessionCore, and the wrappers derived from a Session (Channel,  *)
(* sftp::Sftp, scp::Reader and Writer, RemoteForwardListener) or from an   *)
(* Sftp (sftp::File, sftp::Directory).                                     *)
(*                                                                         *)
(* Slots are the places where a wrapper can be constructed.  A wrapper is  *)
(* its kind, its native_ pointer and its core_ reference; a listener's     *)
(* "native" is its forwarding request, gone once cancelled_ is set.  A     *)
(* destructor or a move assignment frees the old native handle first and   *)
(* drops the old core_ reference afterwards, in two steps: wrappers of one *)
(* session may be destroyed by different threads.  A File or a Directory   *)
(* also keeps the bare sftp_ pointer of the Sftp it came from, which keeps *)
(* nothing alive.                                                          *)
(***************************************************************************)
EXTENDS Naturals

CONSTANTS
  Slots,             \* storage in which a wrapper may live
  Cores,             \* SessionCores, each owning one ssh_session
  Natives,           \* ssh_channel, sftp_session, sftp_file, ssh_scp, forwards
  NoCore, NoNative,  \* null references
  EndsDerivedFirst   \* BOOLEAN: the program ends what it derived from an Sftp before
                     \* the Sftp, and what it derived from a Session before disconnect()

ASSUME HandlesAssumption ==
  /\ EndsDerivedFirst \in BOOLEAN
  /\ NoCore \notin Cores
  /\ NoNative \notin Natives

VARIABLES
  kind,      \* kind[s]: what is constructed in s, "none" when nothing is
  native,    \* native[s]: native_
  ref,       \* ref[s]: core_
  via,       \* via[s]: sftp_, the sftp_session a File or Directory was opened on
  phase,     \* phase[s]: the two-step operation running on s
  rhs,       \* rhs[s]: the right-hand side of a move assignment; s otherwise
  coreMem,   \* coreMem[c]: the ssh_session of c
  mem,       \* mem[n]: the native handle n
  under      \* under[n]: the core whose session n was created on

handlesVars == <<kind, native, ref, via, phase, rhs, coreMem, mem, under>>

FromSession == {"Channel", "Sftp", "Scp", "Listener"}   \* made from a Session
Kinds == {"Session", "File"} \cup FromSession

(* A handle is "stale" once ssh_disconnect() has freed the channel in it:   *)
(* its owner still holds the pointer.                                       *)
OnChannel == {"Channel", "Sftp", "Scp"}
Memory == {"unused", "live", "stale", "freed"}

HandlesTypes ==
  /\ kind \in [Slots -> Kinds \cup {"none"}]
  /\ native \in [Slots -> Natives \cup {NoNative}]
  /\ ref \in [Slots -> Cores \cup {NoCore}]
  /\ via \in [Slots -> Natives \cup {NoNative}]
  /\ phase \in [Slots -> {"idle", "destroying", "assigning"}]
  /\ rhs \in [Slots -> Slots]
  /\ coreMem \in [Cores -> Memory \ {"stale"}]
  /\ mem \in [Natives -> Memory]
  /\ under \in [Natives -> Cores \cup {NoCore}]

(* The values of the variables; storage in which nothing is constructed     *)
(* holds no handle and no reference.                                        *)
HandlesTypeOK ==
  /\ HandlesTypes
  /\ \A s \in Slots : kind[s] = "none" => native[s] = NoNative /\ ref[s] = NoCore /\ via[s] = NoNative

-----------------------------------------------------------------------------
(* No operation is running on s: an object is used by one thread at a time. *)
AtRest(s) ==
  /\ phase[s] = "idle"
  /\ \A t \in Slots : phase[t] = "assigning" => rhs[t] # s

(* What the program sees to, if it keeps the discipline, before it frees    *)
(* the sftp_session of s: no File or Directory opened on it is still open.  *)
NoOpenFiles(s) ==
  (EndsDerivedFirst /\ kind[s] = "Sftp" /\ native[s] \in Natives) =>
    \A t \in Slots : (kind[t] = "File" /\ native[t] \in Natives) => via[t] # native[s]

(* Freeing the native handle of s, if it has one: ssh_channel_free after    *)
(* ssh_channel_close, sftp_free, sftp_close, ssh_scp_free,                  *)
(* ssh_channel_cancel_forward.                                              *)
FreeNative(s) ==
  mem' = [n \in Natives |-> IF n = native[s] THEN "freed" ELSE mem[n]]

(* ~SessionCore(): the last reference out frees the ssh_session.            *)
DropRef(s) ==
  coreMem' = [c \in Cores |->
    IF c = ref[s] /\ \A t \in Slots \ {s} : ref[t] # c THEN "freed" ELSE coreMem[c]]

-----------------------------------------------------------------------------
(* Session(const SessionOptions&): ssh_new() inside a new core.             *)
NewSession(s, c) ==
  /\ kind[s] = "none" /\ AtRest(s)
  /\ coreMem[c] = "unused"
  /\ kind' = [kind EXCEPT ![s] = "Session"]
  /\ ref' = [ref EXCEPT ![s] = c]
  /\ coreMem' = [coreMem EXCEPT ![c] = "live"]
  /\ UNCHANGED <<native, via, phase, rhs, mem, under>>

(* ssh_new() failed: the Session stays empty.                               *)
NewSessionFails(s) ==
  /\ kind[s] = "none" /\ AtRest(s)
  /\ kind' = [kind EXCEPT ![s] = "Session"]
  /\ UNCHANGED <<native, ref, via, phase, rhs, coreMem, mem, under>>

(* Fault: the wrapper takes the raw session but no reference to the core.   *)
OpenWithoutRef(s, t, n, k) ==
  /\ kind[s] = "none" /\ AtRest(s)
  /\ kind[t] = "Session" /\ AtRest(t) /\ ref[t] \in Cores
  /\ mem[n] = "unused"
  /\ kind' = [kind EXCEPT ![s] = k]
  /\ native' = [native EXCEPT ![s] = n]
  /\ mem' = [mem EXCEPT ![n] = "live"]
  /\ under' = [under EXCEPT ![n] = ref[t]]
  /\ UNCHANGED <<ref, via, phase, rhs, coreMem>>

(* Session::try_open_channel, try_open_sftp, try_open_scp_read and _write,  *)
(* RemoteForwardListener::create: a native handle on t's session, and a     *)
(* reference of the new wrapper's own to t's core.                          *)
Open(s, t, n, k) ==
  /\ kind[s] = "none" /\ AtRest(s)
  /\ kind[t] = "Session" /\ AtRest(t) /\ ref[t] \in Cores
  /\ mem[n] = "unused"
  /\ kind' = [kind EXCEPT ![s] = k]
  /\ native' = [native EXCEPT ![s] = n]
  /\ ref' = [ref EXCEPT ![s] = ref[t]]
  /\ mem' = [mem EXCEPT ![n] = "live"]
  /\ under' = [under EXCEPT ![n] = ref[t]]
  /\ UNCHANGED <<via, phase, rhs, coreMem>>

(* RemoteForwardListener::try_accept: a Channel from a listener, which may  *)
(* have been cancelled: only core_ is looked at.                            *)
Accept(s, t, n) ==
  /\ kind[s] = "none" /\ AtRest(s)
  /\ kind[t] = "Listener" /\ AtRest(t) /\ ref[t] \in Cores
  /\ mem[n] = "unused"
  /\ kind' = [kind EXCEPT ![s] = "Channel"]
  /\ native' = [native EXCEPT ![s] = n]
  /\ ref' = [ref EXCEPT ![s] = ref[t]]
  /\ mem' = [mem EXCEPT ![n] = "live"]
  /\ under' = [under EXCEPT ![n] = ref[t]]
  /\ UNCHANGED <<via, phase, rhs, coreMem>>

(* Sftp::try_open, try_open_directory: the File gets a core reference of    *)
(* its own and a copy of the Sftp's native_ pointer, which later calls use  *)
(* (File::try_read's error report, Directory::next).                        *)
OpenFile(s, t, n) ==
  /\ kind[s] = "none" /\ AtRest(s)
  /\ kind[t] = "Sftp" /\ AtRest(t) /\ native[t] \in Natives
  /\ mem[n] = "unused"
  /\ kind' = [kind EXCEPT ![s] = "File"]
  /\ native' = [native EXCEPT ![s] = n]
  /\ ref' = [ref EXCEPT ![s] = ref[t]]
  /\ via' = [via EXCEPT ![s] = native[t]]
  /\ mem' = [mem EXCEPT ![n] = "live"]
  /\ under' = [under EXCEPT ![n] = ref[t]]
  /\ UNCHANGED <<phase, rhs, coreMem>>

(* File::try_close and RemoteForwardListener::try_cancel: the handle goes,  *)
(* the core reference stays.                                                *)
Close(s) ==
  /\ kind[s] \in {"File", "Listener"} /\ AtRest(s) /\ native[s] \in Natives
  /\ FreeNative(s)
  /\ native' = [native EXCEPT ![s] = NoNative]
  /\ UNCHANGED <<kind, ref, via, phase, rhs, coreMem, under>>

(* Session::disconnect: ssh_disconnect() frees every channel of the         *)
(* session, those inside an sftp_session or an ssh_scp too, whoever still   *)
(* holds them.  The Session may connect again.                              *)
Disconnect(s) ==
  /\ kind[s] = "Session" /\ AtRest(s) /\ ref[s] \in Cores
  /\ EndsDerivedFirst =>
       \A t \in Slots : ref[t] = ref[s] =>
         kind[t] \in {"Session", "Listener"} \/ native[t] = NoNative
  /\ mem' = [n \in Natives |->
       IF mem[n] = "live" /\ \E t \in Slots : native[t] = n /\ ref[t] = ref[s] /\ kind[t] \in OnChannel
       THEN "stale" ELSE mem[n]]
  /\ UNCHANGED <<kind, native, ref, via, phase, rhs, coreMem, under>>

-----------------------------------------------------------------------------
(* The move constructors: native_ and core_ change hands, sftp_ is copied;  *)
(* the source is left constructed and empty.                                *)
MoveConstruct(s, t) ==
  /\ kind[s] = "none" /\ AtRest(s)
  /\ kind[t] # "none" /\ AtRest(t)
  /\ kind' = [kind EXCEPT ![s] = kind[t]]
  /\ native' = [native EXCEPT ![s] = native[t], ![t] = NoNative]
  /\ ref' = [ref EXCEPT ![s] = ref[t], ![t] = NoCore]
  /\ via' = [via EXCEPT ![s] = via[t]]
  /\ UNCHANGED <<phase, rhs, coreMem, mem, under>>

(* Fault: the old handle is overwritten, never freed.                       *)
MoveAssignLeaks(s, t) ==
  /\ s # t /\ kind[s] # "none" /\ kind[s] = kind[t]
  /\ AtRest(s) /\ AtRest(t)
  /\ native' = [native EXCEPT ![s] = NoNative]
  /\ phase' = [phase EXCEPT ![s] = "assigning"]
  /\ rhs' = [rhs EXCEPT ![s] = t]
  /\ UNCHANGED <<kind, ref, via, coreMem, mem, under>>

(* The move assignments: free what s holds, then take over t's pointers;    *)
(* s's old core reference goes when core_ is overwritten.                   *)
MoveAssignBegin(s, t) ==
  /\ s # t /\ kind[s] # "none" /\ kind[s] = kind[t]
  /\ AtRest(s) /\ AtRest(t)
  /\ NoOpenFiles(s) /\ FreeNative(s)
  /\ native' = [native EXCEPT ![s] = NoNative]
  /\ phase' = [phase EXCEPT ![s] = "assigning"]
  /\ rhs' = [rhs EXCEPT ![s] = t]
  /\ UNCHANGED <<kind, ref, via, coreMem, under>>

MoveAssignEnd(s) ==
  /\ phase[s] = "assigning"
  /\ native' = [native EXCEPT ![s] = native[rhs[s]], ![rhs[s]] = NoNative]
  /\ ref' = [ref EXCEPT ![s] = ref[rhs[s]], ![rhs[s]] = NoCore]
  /\ via' = [via EXCEPT ![s] = via[rhs[s]]]
  /\ DropRef(s)
  /\ phase' = [phase EXCEPT ![s] = "idle"]
  /\ rhs' = [rhs EXCEPT ![s] = s]
  /\ UNCHANGED <<kind, mem, under>>

(* Fault: the core reference is dropped before the native handle is freed.  *)
DestroyDropsRefFirst(s) ==
  /\ kind[s] # "none" /\ AtRest(s)
  /\ DropRef(s)
  /\ ref' = [ref EXCEPT ![s] = NoCore]
  /\ phase' = [phase EXCEPT ![s] = "destroying"]
  /\ UNCHANGED <<kind, native, via, rhs, mem, under>>

(* The destructors: the body frees the native handle, the members, core_    *)
(* among them, are destroyed after it.                                      *)
DestroyBegin(s) ==
  /\ kind[s] # "none" /\ AtRest(s)
  /\ NoOpenFiles(s) /\ FreeNative(s)
  /\ native' = [native EXCEPT ![s] = NoNative]
  /\ phase' = [phase EXCEPT ![s] = "destroying"]
  /\ UNCHANGED <<kind, ref, via, rhs, coreMem, under>>

DestroyEnd(s) ==
  /\ phase[s] = "destroying"
  /\ DropRef(s)
  /\ ref' = [ref EXCEPT ![s] = NoCore]
  /\ via' = [via EXCEPT ![s] = NoNative]
  /\ kind' = [kind EXCEPT ![s] = "none"]
  /\ phase' = [phase EXCEPT ![s] = "idle"]
  /\ UNCHANGED <<native, rhs, mem, under>>

-----------------------------------------------------------------------------
HandlesInit ==
  /\ kind = [s \in Slots |-> "none"]
  /\ native = [s \in Slots |-> NoNative]
  /\ ref = [s \in Slots |-> NoCore]
  /\ via = [s \in Slots |-> NoNative]
  /\ phase = [s \in Slots |-> "idle"]
  /\ rhs = [s \in Slots |-> s]
  /\ coreMem = [c \in Cores |-> "unused"]
  /\ mem = [n \in Natives |-> "unused"]
  /\ under = [n \in Natives |-> NoCore]

(* Every operation but the one that makes a core.                           *)
WrapperOperation ==
  \/ \E s \in Slots : NewSessionFails(s)
  \/ \E s, t \in Slots, n \in Natives, k \in FromSession : Open(s, t, n, k)
  \/ \E s, t \in Slots, n \in Natives : Accept(s, t, n)
  \/ \E s, t \in Slots, n \in Natives : OpenFile(s, t, n)
  \/ \E s \in Slots : Close(s)
  \/ \E s \in Slots : Disconnect(s)
  \/ \E s, t \in Slots : MoveConstruct(s, t)
  \/ \E s, t \in Slots : MoveAssignBegin(s, t)
  \/ \E s \in Slots : MoveAssignEnd(s)
  \/ \E s \in Slots : DestroyBegin(s)
  \/ \E s \in Slots : DestroyEnd(s)

HandlesNext ==
  \/ \E s \in Slots, c \in Cores : NewSession(s, c)
  \/ WrapperOperation

HandlesSpec == HandlesInit /\ [][HandlesNext]_handlesVars

-----------------------------------------------------------------------------
(* A wrapper's next libssh call is safe in a program that ends what it      *)
(* derived first: whatever native handle it holds is allocated and belongs  *)
(* to the session it keeps alive, which has not been freed, and so does the *)
(* sftp_session that an open File or Directory passes on (directory.ipp:16, *)
(* file.ipp:49).                                                            *)
HandlesAlive ==
  EndsDerivedFirst =>
    \A s \in Slots : native[s] \in Natives =>
      /\ mem[native[s]] = "live"
      /\ ref[s] \in Cores /\ ref[s] = under[native[s]]
      /\ coreMem[ref[s]] = "live"
      /\ kind[s] = "File" => via[s] \in Natives /\ mem[via[s]] = "live" /\ under[via[s]] = ref[s]

(* "sftp::File / sftp::Dir hold a strong ref to the sftp::Sftp internals"   *)
(* (docs/design/02-architecture.md:64-65), so that they "can never dangle"  *)
(* (session.hpp:39-40): the sftp_session of an open File is never freed.    *)
(* Without the discipline the code does not keep this (sftp.ipp:140).       *)
FilesKeepSftp ==
  \A s \in Slots : (kind[s] = "File" /\ native[s] \in Natives) => mem[via[s]] # "freed"

(* A native handle has one owner, so no destructor frees it a second time,  *)
(* and one that is not freed has an owner, so none is leaked.               *)
OneOwner ==
  /\ \A s, t \in Slots : (native[s] \in Natives /\ native[s] = native[t]) => s = t
  /\ \A n \in Natives : mem[n] \in {"live", "stale"} => \E s \in Slots : native[s] = n

(* "Last one out": the ssh_session is allocated exactly while a wrapper     *)
(* refers to its core (docs/design/02-architecture.md:67-70).               *)
LastOneOut ==
  \A c \in Cores : coreMem[c] = "live" <=> \E s \in Slots : ref[s] = c

(* ssh_free() runs when nothing created on the session is left: the order   *)
(* of the destructors' two steps, and of the members, guarantees it for     *)
(* every interleaving of destructions.                                      *)
SessionFreedLast ==
  [][\A c \in Cores : (coreMem[c] = "live" /\ coreMem'[c] = "freed") =>
       \A n \in Natives : under[n] = c => mem[n] = "freed"]_handlesVars
=============================================================================
