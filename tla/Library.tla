------------------------------- MODULE Library -------------------------------
(***************************************************************************)
(* sshpp::Library, the reference-counted guard around ssh_init() and       *)
(* ssh_finalize() (include/sshpp/detail/library.ipp), together with the    *)
(* SessionCores that need libssh to stay initialised.                      *)
(*                                                                         *)
(* Objects are the places where a Library can be constructed.  Every       *)
(* reference-count update is one critical section of g_library_mutex, so   *)
(* constructors and the destructor are single steps; the two assignment    *)
(* operators take the mutex and then do more, so they are two steps each   *)
(* and the operations of other threads on other objects run in between.    *)
(***************************************************************************)
EXTENDS Integers, FiniteSets

CONSTANTS
  Objects,            \* storage in which a Library may live
  SessionCores,       \* detail::SessionCore instances the program may create
  CopiesMovedFrom,    \* BOOLEAN: the program copies moved-from Library objects
  KeepsLibraryAlive   \* BOOLEAN: the program keeps a Library for as long as it has Sessions

ASSUME LibraryAssumption ==
  /\ IsFiniteSet(Objects)
  /\ CopiesMovedFrom \in BOOLEAN
  /\ KeepsLibraryAlive \in BOOLEAN

VARIABLES
  lib,       \* lib[o]: "none" (not constructed), "owner" (owns_), "empty" (~owns_)
  op,        \* op[o]: the assignment operator running on o, if any
  source,    \* source[o]: that operator's right-hand side; o itself when idle
  refcount,  \* g_library_refcount
  inits,     \* calls of ssh_init() minus calls of ssh_finalize()
  cores      \* the SessionCores alive

libraryVars == <<lib, op, source, refcount, inits, cores>>

(* The two-step operators: "copied" holds the temporary of operator=(const  *)
(* Library&), "released" has given up its old reference in operator=(&&).   *)
Ops == {"idle", "copied", "released"}

LibraryTypes ==
  /\ lib \in [Objects -> {"none", "owner", "empty"}]
  /\ op \in [Objects -> Ops]
  /\ source \in [Objects -> Objects]
  /\ refcount \in Int
  /\ inits \in Int
  /\ cores \subseteq SessionCores

(* The values of the variables; g_library_refcount, an int, never drops     *)
(* below zero.                                                              *)
LibraryTypeOK == LibraryTypes /\ refcount >= 0

-----------------------------------------------------------------------------
(* No operation is under way on o, as the target or as the source.  A       *)
(* Library object, like any other, is not used by two threads at once.      *)
Free(o) ==
  /\ op[o] = "idle"
  /\ \A p \in Objects : op[p] # "idle" => source[p] # o

(* The objects that hold one of the references counted in refcount: the     *)
(* owners, except the one that already gave its reference up.  The          *)
(* temporary of a copy assignment holds one more, see Temporaries.          *)
Holders == {o \in Objects : lib[o] = "owner" /\ op[o] # "released"}

Temporaries == {o \in Objects : op[o] = "copied"}

(* What giving up one reference does under g_library_mutex: the last one    *)
(* calls ssh_finalize().                                                    *)
Release ==
  /\ refcount' = refcount - 1
  /\ inits' = IF refcount - 1 = 0 THEN inits - 1 ELSE inits

(* A copy does not look at its source, so a moved-from one is copied too.    *)
Copyable(p) ==
  /\ lib[p] = "owner" \/ (CopiesMovedFrom /\ lib[p] = "empty")
  /\ Free(p)

(* The obligation library.hpp puts on the program: "At least one instance   *)
(* must be alive for the whole time any other sshpp object exists."         *)
MayGiveUp(o) ==
  (KeepsLibraryAlive /\ cores # {}) => \E p \in Objects \ {o} : p \in Holders

-----------------------------------------------------------------------------
(* Library(const Config&): ssh_init() when this is the first reference.     *)
Construct(o) ==
  /\ lib[o] = "none" /\ Free(o)
  /\ inits' = IF refcount = 0 THEN inits + 1 ELSE inits
  /\ refcount' = refcount + 1
  /\ lib' = [lib EXCEPT ![o] = "owner"]
  /\ UNCHANGED <<op, source, cores>>

(* Fault: the copy takes no reference.                                     *)
CopyConstructUncounted(o, p) ==
  /\ lib[o] = "none" /\ Free(o)
  /\ Copyable(p)
  /\ lib' = [lib EXCEPT ![o] = "owner"]
  /\ UNCHANGED <<op, source, refcount, inits, cores>>

(* Library(const Library&): the argument is not looked at, and ssh_init()   *)
(* is never called.                                                         *)
CopyConstruct(o, p) ==
  /\ lib[o] = "none" /\ Free(o)
  /\ Copyable(p)
  /\ refcount' = refcount + 1
  /\ lib' = [lib EXCEPT ![o] = "owner"]
  /\ UNCHANGED <<op, source, inits, cores>>

(* Library(Library&&): the reference changes hands; the mutex is not taken. *)
MoveLibrary(o, p) ==
  /\ lib[o] = "none" /\ Free(o)
  /\ lib[p] # "none" /\ Free(p)
  /\ lib' = [lib EXCEPT ![o] = lib[p], ![p] = "empty"]
  /\ UNCHANGED <<op, source, refcount, inits, cores>>

(* ~Library(): a moved-from object has nothing to give up.                  *)
Destroy(o) ==
  /\ lib[o] # "none" /\ Free(o)
  /\ IF lib[o] = "owner"
     THEN MayGiveUp(o) /\ Release
     ELSE UNCHANGED <<refcount, inits>>
  /\ lib' = [lib EXCEPT ![o] = "none"]
  /\ UNCHANGED <<op, source, cores>>

(* operator=(const Library&): "Library tmp(other)" takes a reference first, *)
(* then owns_ is swapped with the temporary's, and the temporary's          *)
(* destructor gives up what o held.                                         *)
CopyAssignBegin(o, p) ==
  /\ o # p
  /\ lib[o] # "none" /\ Free(o)
  /\ Copyable(p)
  /\ refcount' = refcount + 1
  /\ op' = [op EXCEPT ![o] = "copied"]
  /\ source' = [source EXCEPT ![o] = p]
  /\ UNCHANGED <<lib, inits, cores>>

CopyAssignEnd(o) ==
  /\ op[o] = "copied"
  /\ IF lib[o] = "owner" THEN Release ELSE UNCHANGED <<refcount, inits>>
  /\ lib' = [lib EXCEPT ![o] = "owner"]
  /\ op' = [op EXCEPT ![o] = "idle"]
  /\ source' = [source EXCEPT ![o] = o]
  /\ UNCHANGED cores

(* operator=(Library&&): the old reference is given up under the mutex, the *)
(* flags move afterwards, without it.                                       *)
MoveAssignLibraryBegin(o, p) ==
  /\ o # p
  /\ lib[o] # "none" /\ Free(o)
  /\ lib[p] # "none" /\ Free(p)
  /\ IF lib[o] = "owner"
     THEN MayGiveUp(o) /\ Release
     ELSE UNCHANGED <<refcount, inits>>
  /\ op' = [op EXCEPT ![o] = "released"]
  /\ source' = [source EXCEPT ![o] = p]
  /\ UNCHANGED <<lib, cores>>

MoveAssignLibraryEnd(o) ==
  /\ op[o] = "released"
  /\ lib' = [lib EXCEPT ![o] = lib[source[o]], ![source[o]] = "empty"]
  /\ op' = [op EXCEPT ![o] = "idle"]
  /\ source' = [source EXCEPT ![o] = o]
  /\ UNCHANGED <<refcount, inits, cores>>

-----------------------------------------------------------------------------
(* Session(const SessionOptions&) makes a SessionCore around ssh_new(); a   *)
(* program that keeps the rule has a Library object by then.                *)
CreateCore(c) ==
  /\ c \notin cores
  /\ KeepsLibraryAlive => Holders # {}
  /\ cores' = cores \cup {c}
  /\ UNCHANGED <<lib, op, source, refcount, inits>>

(* ~SessionCore(): ssh_disconnect() and ssh_free().                         *)
DestroyCore(c) ==
  /\ c \in cores
  /\ cores' = cores \ {c}
  /\ UNCHANGED <<lib, op, source, refcount, inits>>

LibraryInit ==
  /\ lib = [o \in Objects |-> "none"]
  /\ op = [o \in Objects |-> "idle"]
  /\ source = [o \in Objects |-> o]
  /\ refcount = 0
  /\ inits = 0
  /\ cores = {}

LibraryOperation ==
  \/ \E o \in Objects : Construct(o)
  \/ \E o \in Objects : Destroy(o)
  \/ \E o \in Objects : CopyAssignEnd(o)
  \/ \E o \in Objects : MoveAssignLibraryEnd(o)
  \/ \E o, p \in Objects : CopyConstruct(o, p)
  \/ \E o, p \in Objects : MoveLibrary(o, p)
  \/ \E o, p \in Objects : CopyAssignBegin(o, p)
  \/ \E o, p \in Objects : MoveAssignLibraryBegin(o, p)

LibraryNext ==
  \/ LibraryOperation
  \/ \E c \in SessionCores : CreateCore(c)
  \/ \E c \in SessionCores : DestroyCore(c)

LibrarySpec == LibraryInit /\ [][LibraryNext]_libraryVars

-----------------------------------------------------------------------------
(* The count is exact: g_library_refcount is the number of references held  *)
(* by Library objects and by the temporaries of running copy assignments,   *)
(* whatever sequence of copies, moves and self-overwriting assignments      *)
(* (library.ipp:107-132) led here.                                          *)
RefcountExact == refcount = Cardinality(Holders) + Cardinality(Temporaries)

(* libssh is initialised exactly while a reference is held, and never twice: *)
(* ssh_init() and ssh_finalize() alternate (library.ipp:77-105).             *)
InitializedIffHeld == inits = (IF Holders \cup Temporaries # {} THEN 1 ELSE 0)

(* A program that keeps the rule of library.hpp:38-39 never has a Session   *)
(* whose libssh was finalized under it, even when the Library it relies on  *)
(* is handed over by moves and assignments in another thread.               *)
CoresHaveLibrary == (KeepsLibraryAlive /\ cores # {}) => inits > 0
=============================================================================
