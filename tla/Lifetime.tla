------------------------------ MODULE Lifetime ------------------------------
(***************************************************************************)
(* Library and Handles in one program.  The two meet in the SessionCores:  *)
(* the Session constructor makes one, which the program may do only while  *)
(* it has a Library, and the last wrapper to let go of one frees it, often *)
(* long after its Session object is gone.                                  *)
(***************************************************************************)
EXTENDS Library, Handles

ASSUME LifetimeAssumption == SessionCores = Cores

lifetimeVars == <<libraryVars, handlesVars>>

LifetimeInit == LibraryInit /\ HandlesInit

(* Session(const SessionOptions&).                                          *)
CreateSession(s, c) == NewSession(s, c) /\ CreateCore(c)

(* An operation of a wrapper that leaves every core as it is.               *)
UseWrapper == WrapperOperation /\ coreMem' = coreMem /\ UNCHANGED libraryVars

(* An operation that drops the last reference to c: ~SessionCore() runs.    *)
DropLastRef(c) == WrapperOperation /\ coreMem'[c] # coreMem[c] /\ DestroyCore(c)

LifetimeNext ==
  \/ LibraryOperation /\ UNCHANGED handlesVars
  \/ \E s \in Slots, c \in Cores : CreateSession(s, c)
  \/ UseWrapper
  \/ \E c \in Cores : DropLastRef(c)

LifetimeSpec == LifetimeInit /\ [][LifetimeNext]_lifetimeVars

-----------------------------------------------------------------------------
(* A program that keeps a Library for as long as it has sshpp objects       *)
(* (library.hpp:38-39) makes no libssh call on a finalized libssh: while a  *)
(* wrapper holds a native handle or a core reference, so that its next call *)
(* or its destructor uses them, libssh is initialised, whichever Library    *)
(* object holds the reference by then and whether or not the Session object *)
(* still exists.                                                            *)
NoCallAfterFinalize ==
  KeepsLibraryAlive =>
    \A s \in Slots : native[s] \in Natives \/ ref[s] \in Cores => inits = 1
=============================================================================
