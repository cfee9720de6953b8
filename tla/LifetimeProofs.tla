--------------------------- MODULE LifetimeProofs ---------------------------
(***************************************************************************)
(* Proofs about Library, for every finite set of objects and every set of  *)
(* cores, about Handles, for every set of slots, cores and native handles, *)
(* and about Lifetime, in which the two run together.                      *)
(*                                                                         *)
(* RefcountExact is not inductive alone: a move assignment that has        *)
(* released its old reference takes over its source's, so the proof needs  *)
(* to know that the source is still a constructed object that no other     *)
(* operation touches (SourcesHeld).                                        *)
(*                                                                         *)
(* The ownership facts of Handles support each other: a wrapper's session  *)
(* is live because LastOneOut holds for the core it refers to, and a       *)
(* session is freed last because every live handle has an owner that       *)
(* refers to the session it was created on.  What is missing from them is  *)
(* what a running two-step operation leaves behind (Between) and what an   *)
(* unconstructed slot and an unused handle look like (Blank).              *)
(*                                                                         *)
(* Lifetime implements both: what is proved of each of them carries over,  *)
(* and together they say that no wrapper calls a finalized libssh.         *)
(***************************************************************************)
EXTENDS Lifetime, FiniteSetTheorems, TLAPS

-----------------------------------------------------------------------------
(* -------------------------------- Library -------------------------------- *)

(* The right-hand side of a running assignment is another constructed       *)
(* object, at rest, and the right-hand side of no other assignment.         *)
SourcesHeld ==
  \A o \in Objects : op[o] # "idle" =>
    /\ source[o] # o
    /\ op[source[o]] = "idle"
    /\ lib[o] # "none"
    /\ lib[source[o]] # "none"
    /\ \A p \in Objects : (p # o /\ op[p] # "idle") => source[p] # source[o]

CountInv == LibraryTypes /\ SourcesHeld /\ RefcountExact

(* The owners and the temporaries are finite, so they can be counted.       *)
LEMMA CountedSetsFinite ==
  /\ IsFiniteSet(Holders) /\ Cardinality(Holders) \in Nat
  /\ IsFiniteSet(Temporaries) /\ Cardinality(Temporaries) \in Nat
<1>1. IsFiniteSet(Holders) /\ IsFiniteSet(Temporaries)
  BY LibraryAssumption, FS_Subset DEF LibraryAssumption, Holders, Temporaries
<1>2. QED
  BY <1>1, FS_CardinalityType

(* Adding a new element to a finite set, or removing an old one, moves its  *)
(* cardinality by one.                                                      *)
LEMMA CardinalityByOne ==
  ASSUME NEW S, IsFiniteSet(S), NEW x
  PROVE  /\ x \notin S => Cardinality(S \cup {x}) = Cardinality(S) + 1
         /\ x \in S => Cardinality(S \ {x}) = Cardinality(S) - 1
         /\ x \in S => Cardinality(S) > 0
<1>1. Cardinality(S) \in Nat
  BY FS_CardinalityType
<1>2. x \in S => S # {}
  OBVIOUS
<1>3. Cardinality(S) = 0 <=> S = {}
  BY FS_EmptySet
<1>4. x \in S => Cardinality(S) > 0
  BY <1>1, <1>2, <1>3
<1>5. x \notin S => Cardinality(S \cup {x}) = Cardinality(S) + 1
  BY FS_AddElement
<1>6. x \in S => Cardinality(S \ {x}) = Cardinality(S) - 1
  BY FS_RemoveElement
<1>7. QED
  BY <1>4, <1>5, <1>6

(* Handing an element over leaves the cardinality alone.                    *)
LEMMA CardinalityOfExchange ==
  ASSUME NEW S, IsFiniteSet(S), NEW x \in S, NEW y, y \notin S
  PROVE  Cardinality((S \ {x}) \cup {y}) = Cardinality(S)
<1>1. IsFiniteSet(S \ {x}) /\ Cardinality(S \ {x}) = Cardinality(S) - 1
  BY FS_RemoveElement
<1>2. Cardinality((S \ {x}) \cup {y}) = Cardinality(S \ {x}) + 1
  BY <1>1, CardinalityByOne
<1>3. QED
  BY <1>1, <1>2, FS_CardinalityType

(* Type correctness and the assignments' sources, one step per action.      *)
LEMMA SourcesStep ==
  LibraryTypes /\ SourcesHeld /\ [LibraryNext]_libraryVars => LibraryTypes' /\ SourcesHeld'
<1> SUFFICES ASSUME LibraryTypes, SourcesHeld, [LibraryNext]_libraryVars
             PROVE  LibraryTypes' /\ SourcesHeld'
  OBVIOUS
<1> USE DEF LibraryTypes, SourcesHeld, Ops, Free
<1>1. CASE \E o \in Objects : Construct(o)
  BY <1>1 DEF Construct
<1>2. CASE \E o \in Objects : Destroy(o)
  BY <1>2 DEF Destroy, Release
<1>3. CASE \E o \in Objects : CopyAssignEnd(o)
  BY <1>3 DEF CopyAssignEnd, Release
<1>4. CASE \E o \in Objects : MoveAssignLibraryEnd(o)
  BY <1>4 DEF MoveAssignLibraryEnd
<1>5. CASE \E o, p \in Objects : CopyConstruct(o, p)
  BY <1>5 DEF CopyConstruct, Copyable
<1>6. CASE \E o, p \in Objects : MoveLibrary(o, p)
  BY <1>6 DEF MoveLibrary
<1>7. CASE \E o, p \in Objects : CopyAssignBegin(o, p)
  BY <1>7 DEF CopyAssignBegin, Copyable
<1>8. CASE \E o, p \in Objects : MoveAssignLibraryBegin(o, p)
  BY <1>8 DEF MoveAssignLibraryBegin, Release
<1>9. CASE \E c \in SessionCores : CreateCore(c)
  BY <1>9 DEF CreateCore
<1>10. CASE \E c \in SessionCores : DestroyCore(c)
  BY <1>10 DEF DestroyCore
<1>11. CASE UNCHANGED libraryVars
  BY <1>11 DEF libraryVars
<1>12. QED
  BY <1>1, <1>2, <1>3, <1>4, <1>5, <1>6, <1>7, <1>8, <1>9, <1>10, <1>11 DEF LibraryNext, LibraryOperation

(* A step that changes neither set changes the count in no way.             *)
LEMMA CountUnchanged ==
  ASSUME RefcountExact, Holders' = Holders, Temporaries' = Temporaries,
         refcount' = refcount
  PROVE  RefcountExact'
  BY DEF RefcountExact

(* The count stays exact, one step per action.                              *)
LEMMA RefcountStep ==
  CountInv /\ [LibraryNext]_libraryVars => RefcountExact'
<1> SUFFICES ASSUME LibraryTypes, SourcesHeld, RefcountExact, [LibraryNext]_libraryVars
             PROVE  RefcountExact'
  BY DEF CountInv
<1>f. /\ IsFiniteSet(Holders) /\ Cardinality(Holders) \in Nat
      /\ IsFiniteSet(Temporaries) /\ Cardinality(Temporaries) \in Nat
  BY CountedSetsFinite
<1>1. ASSUME NEW o \in Objects, Construct(o)
      PROVE  RefcountExact'
  <2>1. o \notin Holders /\ Holders' = Holders \cup {o} /\ Temporaries' = Temporaries
    BY <1>1 DEF Construct, Free, Holders, Temporaries, LibraryTypes
  <2>2. Cardinality(Holders') = Cardinality(Holders) + 1
    BY <2>1, <1>f, CardinalityByOne
  <2>3. QED
    BY <1>1, <1>f, <2>1, <2>2 DEF Construct, RefcountExact
<1>2. ASSUME NEW o \in Objects, Destroy(o)
      PROVE  RefcountExact'
  <2>1. Temporaries' = Temporaries /\ Holders' = Holders \ {o}
    BY <1>2 DEF Destroy, Free, Holders, Temporaries, LibraryTypes
  <2>2. CASE lib[o] = "owner"
    <3>1. o \in Holders /\ refcount' = refcount - 1
      BY <1>2, <2>2 DEF Destroy, Free, Holders, Release
    <3>2. Cardinality(Holders') = Cardinality(Holders) - 1
      BY <2>1, <3>1, <1>f, CardinalityByOne
    <3>3. QED
      BY <1>f, <2>1, <3>1, <3>2 DEF RefcountExact
  <2>3. CASE lib[o] # "owner"
    BY <1>2, <2>1, <2>3, CountUnchanged DEF Destroy, Holders
  <2>4. QED
    BY <2>2, <2>3
<1>3. ASSUME NEW o \in Objects, CopyAssignEnd(o)
      PROVE  RefcountExact'
  <2>1. /\ Temporaries' = Temporaries \ {o} /\ o \in Temporaries
        /\ Holders' = Holders \cup {o}
    BY <1>3 DEF CopyAssignEnd, Holders, Temporaries, LibraryTypes
  <2>2. Cardinality(Temporaries') = Cardinality(Temporaries) - 1
    BY <2>1, <1>f, CardinalityByOne
  <2>3. CASE lib[o] = "owner"
    <3>1. Holders' = Holders /\ refcount' = refcount - 1
      BY <1>3, <2>1, <2>3 DEF CopyAssignEnd, Holders, Release
    <3>2. QED
      BY <1>f, <2>2, <3>1 DEF RefcountExact
  <2>4. CASE lib[o] # "owner"
    <3>1. o \notin Holders /\ refcount' = refcount
      BY <1>3, <2>4 DEF CopyAssignEnd, Holders
    <3>2. Cardinality(Holders') = Cardinality(Holders) + 1
      BY <2>1, <3>1, <1>f, CardinalityByOne
    <3>3. QED
      BY <1>f, <2>2, <3>1, <3>2 DEF RefcountExact
  <2>5. QED
    BY <2>3, <2>4
<1>4. ASSUME NEW o \in Objects, MoveAssignLibraryEnd(o)
      PROVE  RefcountExact'
  <2> DEFINE p == source[o]
  <2>1. /\ Temporaries' = Temporaries /\ refcount' = refcount
        /\ p \in Objects /\ p # o /\ op[p] = "idle" /\ o \notin Holders
    BY <1>4 DEF MoveAssignLibraryEnd, SourcesHeld, Holders, Temporaries, LibraryTypes
  <2>2. CASE lib[p] = "owner"
    <3>1. p \in Holders /\ Holders' = (Holders \ {p}) \cup {o}
      BY <1>4, <2>1, <2>2 DEF MoveAssignLibraryEnd, Holders, LibraryTypes
    <3>2. Cardinality(Holders') = Cardinality(Holders)
      BY <2>1, <3>1, <1>f, CardinalityOfExchange
    <3>3. QED
      BY <2>1, <3>2 DEF RefcountExact
  <2>3. CASE lib[p] # "owner"
    <3>1. Holders' = Holders
      BY <1>4, <2>1, <2>3 DEF MoveAssignLibraryEnd, Holders, LibraryTypes
    <3>2. QED
      BY <2>1, <3>1, CountUnchanged
  <2>4. QED
    BY <2>2, <2>3
<1>5. ASSUME NEW o \in Objects, NEW p \in Objects, CopyConstruct(o, p)
      PROVE  RefcountExact'
  <2>1. o \notin Holders /\ Holders' = Holders \cup {o} /\ Temporaries' = Temporaries
    BY <1>5 DEF CopyConstruct, Free, Holders, Temporaries, LibraryTypes
  <2>2. Cardinality(Holders') = Cardinality(Holders) + 1
    BY <2>1, <1>f, CardinalityByOne
  <2>3. QED
    BY <1>5, <1>f, <2>1, <2>2 DEF CopyConstruct, RefcountExact
<1>6. ASSUME NEW o \in Objects, NEW p \in Objects, MoveLibrary(o, p)
      PROVE  RefcountExact'
  <2>1. /\ Temporaries' = Temporaries /\ refcount' = refcount
        /\ p # o /\ op[p] = "idle" /\ op[o] = "idle" /\ o \notin Holders
    BY <1>6 DEF MoveLibrary, Free, Holders, Temporaries, LibraryTypes
  <2>2. CASE lib[p] = "owner"
    <3>1. p \in Holders /\ Holders' = (Holders \ {p}) \cup {o}
      BY <1>6, <2>1, <2>2 DEF MoveLibrary, Holders, LibraryTypes
    <3>2. Cardinality(Holders') = Cardinality(Holders)
      BY <2>1, <3>1, <1>f, CardinalityOfExchange
    <3>3. QED
      BY <2>1, <3>2 DEF RefcountExact
  <2>3. CASE lib[p] # "owner"
    <3>1. Holders' = Holders
      BY <1>6, <2>1, <2>3 DEF MoveLibrary, Holders, LibraryTypes
    <3>2. QED
      BY <2>1, <3>1, CountUnchanged
  <2>4. QED
    BY <2>2, <2>3
<1>7. ASSUME NEW o \in Objects, NEW p \in Objects, CopyAssignBegin(o, p)
      PROVE  RefcountExact'
  <2>1. /\ Holders' = Holders /\ refcount' = refcount + 1
        /\ o \notin Temporaries /\ Temporaries' = Temporaries \cup {o}
    BY <1>7 DEF CopyAssignBegin, Free, Holders, Temporaries, LibraryTypes
  <2>2. Cardinality(Temporaries') = Cardinality(Temporaries) + 1
    BY <2>1, <1>f, CardinalityByOne
  <2>3. QED
    BY <1>f, <2>1, <2>2 DEF RefcountExact
<1>8. ASSUME NEW o \in Objects, NEW p \in Objects, MoveAssignLibraryBegin(o, p)
      PROVE  RefcountExact'
  <2>1. Temporaries' = Temporaries /\ Holders' = Holders \ {o}
    BY <1>8 DEF MoveAssignLibraryBegin, Free, Holders, Temporaries, LibraryTypes
  <2>2. CASE lib[o] = "owner"
    <3>1. o \in Holders /\ refcount' = refcount - 1
      BY <1>8, <2>2 DEF MoveAssignLibraryBegin, Free, Holders, Release
    <3>2. Cardinality(Holders') = Cardinality(Holders) - 1
      BY <2>1, <3>1, <1>f, CardinalityByOne
    <3>3. QED
      BY <1>f, <2>1, <3>1, <3>2 DEF RefcountExact
  <2>3. CASE lib[o] # "owner"
    BY <1>8, <2>1, <2>3, CountUnchanged DEF MoveAssignLibraryBegin, Holders
  <2>4. QED
    BY <2>2, <2>3
<1>9. CASE \/ \E c \in SessionCores : CreateCore(c) \/ DestroyCore(c)
           \/ UNCHANGED libraryVars
  <2>1. Holders' = Holders /\ Temporaries' = Temporaries /\ refcount' = refcount
    BY <1>9 DEF CreateCore, DestroyCore, libraryVars, Holders, Temporaries
  <2>2. QED
    BY <2>1, CountUnchanged
<1>10. QED
  BY <1>1, <1>2, <1>3, <1>4, <1>5, <1>6, <1>7, <1>8, <1>9 DEF LibraryNext, LibraryOperation

(* The empty program state: nothing held, nothing counted.                  *)
LEMMA CountInit == LibraryInit => CountInv
<1> SUFFICES ASSUME LibraryInit PROVE CountInv
  OBVIOUS
<1>1. LibraryTypes /\ SourcesHeld
  BY DEF LibraryInit, LibraryTypes, SourcesHeld, Ops
<1>2. Holders = {} /\ Temporaries = {} /\ refcount = 0
  BY DEF LibraryInit, Holders, Temporaries
<1>3. QED
  BY <1>1, <1>2, FS_EmptySet DEF CountInv, RefcountExact

(* The count and what supports it hold in every reachable state.            *)
LEMMA CountInvariant == LibrarySpec => []CountInv
<1>1. CountInv /\ [LibraryNext]_libraryVars => CountInv'
  BY SourcesStep, RefcountStep DEF CountInv
<1>2. QED
  BY CountInit, <1>1, PTL DEF LibrarySpec

(* Every state of Library has its type, and the count is never negative.    *)
THEOREM LibraryTypeCorrect == LibrarySpec => []LibraryTypeOK
<1>1. CountInv => LibraryTypeOK
  BY CountedSetsFinite DEF CountInv, RefcountExact, LibraryTypes, LibraryTypeOK
<1>2. QED
  BY <1>1, CountInvariant, PTL

(* g_library_refcount is exact in every program, also in one that copies    *)
(* moved-from objects or outlives its last Library.                         *)
THEOREM RefcountAlwaysExact == LibrarySpec => []RefcountExact
<1>1. CountInv => RefcountExact
  BY DEF CountInv
<1>2. QED
  BY <1>1, CountInvariant, PTL

-----------------------------------------------------------------------------
(* A sum of two cardinalities is zero exactly when both sets are empty.      *)
LEMMA ZeroIffEmpty ==
  ASSUME NEW S, IsFiniteSet(S), NEW T, IsFiniteSet(T)
  PROVE  /\ Cardinality(S) + Cardinality(T) \in Nat
         /\ Cardinality(S) + Cardinality(T) = 0 <=> S \cup T = {}
<1>1. Cardinality(S) \in Nat /\ Cardinality(T) \in Nat
  BY FS_CardinalityType
<1>2. (Cardinality(S) = 0 <=> S = {}) /\ (Cardinality(T) = 0 <=> T = {})
  BY FS_EmptySet
<1>3. Cardinality(S) + Cardinality(T) = 0 <=> (Cardinality(S) = 0 /\ Cardinality(T) = 0)
  BY <1>1
<1>4. S \cup T = {} <=> (S = {} /\ T = {})
  OBVIOUS
<1>5. QED
  BY <1>1, <1>2, <1>3, <1>4

(* What InitializedIffHeld says in terms of the counter.                    *)
Balanced == refcount \in Nat /\ inits = (IF refcount = 0 THEN 0 ELSE 1)

(* With an exact count, Balanced and InitializedIffHeld say the same.       *)
LEMMA BalancedIsHeld == RefcountExact => (Balanced <=> InitializedIffHeld)
<1>1. SUFFICES ASSUME RefcountExact PROVE Balanced <=> InitializedIffHeld
  OBVIOUS
<1>2. refcount \in Nat /\ (refcount = 0 <=> Holders \cup Temporaries = {})
  BY <1>1, CountedSetsFinite, ZeroIffEmpty DEF RefcountExact
<1>3. QED
  BY <1>2 DEF Balanced, InitializedIffHeld

(* Whoever copies an owner finds the counter above zero.                    *)
LEMMA HeldIsCounted ==
  ASSUME RefcountExact, Holders # {}
  PROVE  refcount > 0
<1>1. refcount \in Nat /\ (refcount = 0 <=> Holders \cup Temporaries = {})
  BY CountedSetsFinite, ZeroIffEmpty DEF RefcountExact
<1>2. QED
  BY <1>1

(* ssh_init() and ssh_finalize() stay balanced when no moved-from object is *)
(* copied, one step per action.                                             *)
LEMMA BalancedStep ==
  ASSUME ~CopiesMovedFrom
  PROVE  CountInv /\ CountInv' /\ Balanced /\ [LibraryNext]_libraryVars => Balanced'
<1> SUFFICES ASSUME CountInv, CountInv', Balanced, [LibraryNext]_libraryVars
             PROVE  Balanced'
  OBVIOUS
<1>n. refcount' \in Nat
  <2>1. (IsFiniteSet(Holders) /\ IsFiniteSet(Temporaries))'
    BY CountedSetsFinite, PTL
  <2>2. RefcountExact'
    BY DEF CountInv
  <2>3. QED
    BY <2>1, <2>2, ZeroIffEmpty DEF RefcountExact
<1> USE DEF Balanced
<1>1. CASE \E o \in Objects : Construct(o)
  BY <1>1, <1>n DEF Construct
<1>2. CASE \E o \in Objects : Destroy(o)
  BY <1>2, <1>n DEF Destroy, Release
<1>3. CASE \E o \in Objects : CopyAssignEnd(o)
  <2>1. PICK o \in Objects : CopyAssignEnd(o)
    BY <1>3
  <2>2. CASE lib[o] = "owner"
    <3>1. o \in Holders'
      BY <2>1 DEF CopyAssignEnd, Holders, CountInv, LibraryTypes
    <3>2. refcount' > 0
      <4>1. (RefcountExact /\ Holders # {} => refcount > 0)'
        BY HeldIsCounted, PTL
      <4>2. QED
        BY <3>1, <4>1 DEF CountInv
    <3>3. QED
      BY <2>1, <2>2, <3>2, <1>n DEF CopyAssignEnd, Release
  <2>3. CASE lib[o] # "owner"
    BY <2>1, <2>3, <1>n DEF CopyAssignEnd
  <2>4. QED
    BY <2>2, <2>3
<1>4. CASE \E o \in Objects : MoveAssignLibraryEnd(o)
  BY <1>4 DEF MoveAssignLibraryEnd
<1>5. CASE \E o, p \in Objects : CopyConstruct(o, p) \/ CopyAssignBegin(o, p)
  <2>1. Holders # {}
    BY <1>5 DEF CopyConstruct, CopyAssignBegin, Copyable, Free, Holders
  <2>2. refcount > 0
    BY <2>1, HeldIsCounted DEF CountInv
  <2>3. QED
    BY <1>5, <2>2, <1>n DEF CopyConstruct, CopyAssignBegin
<1>6. CASE \E o, p \in Objects : MoveLibrary(o, p)
  BY <1>6 DEF MoveLibrary
<1>7. CASE \E o, p \in Objects : MoveAssignLibraryBegin(o, p)
  BY <1>7, <1>n DEF MoveAssignLibraryBegin, Release
<1>8. CASE \/ \E c \in SessionCores : CreateCore(c) \/ DestroyCore(c)
           \/ UNCHANGED libraryVars
  BY <1>8 DEF CreateCore, DestroyCore, libraryVars
<1>9. QED
  BY <1>1, <1>2, <1>3, <1>4, <1>5, <1>6, <1>7, <1>8 DEF LibraryNext, LibraryOperation

(* When no moved-from Library is copied, libssh is initialised exactly      *)
(* while some Library object (or temporary) holds a reference, and          *)
(* ssh_init() is never called twice in a row.                               *)
THEOREM InitializedWhileHeld ==
  ASSUME ~CopiesMovedFrom
  PROVE  LibrarySpec => []InitializedIffHeld
<1>1. LibraryInit => Balanced
  BY DEF LibraryInit, Balanced
<1>2. CountInv /\ CountInv' /\ Balanced /\ [LibraryNext]_libraryVars => Balanced'
  BY BalancedStep
<1>3. CountInv /\ Balanced => InitializedIffHeld
  BY BalancedIsHeld DEF CountInv
<1>4. QED
  BY <1>1, <1>2, <1>3, CountInvariant, PTL DEF LibrarySpec

(* The obligation carried through every hand-over: a program that keeps it  *)
(* has an owner for as long as it has a SessionCore.                        *)
OwnerForCores == (KeepsLibraryAlive /\ cores # {}) => Holders # {}

(* The obligation is kept, one step per action.                             *)
LEMMA OwnerForCoresStep == CountInv /\ OwnerForCores /\ [LibraryNext]_libraryVars => OwnerForCores'
<1> SUFFICES ASSUME LibraryTypes, SourcesHeld, OwnerForCores, [LibraryNext]_libraryVars
             PROVE  OwnerForCores'
  BY DEF CountInv
<1> USE DEF OwnerForCores, Holders, LibraryTypes
<1>1. CASE \E o \in Objects : Construct(o)
  BY <1>1 DEF Construct, Free
<1>2. CASE \E o \in Objects : Destroy(o)
  BY <1>2 DEF Destroy, MayGiveUp
<1>3. CASE \E o \in Objects : CopyAssignEnd(o)
  BY <1>3 DEF CopyAssignEnd
<1>4. CASE \E o \in Objects : MoveAssignLibraryEnd(o)
  BY <1>4 DEF MoveAssignLibraryEnd, SourcesHeld
<1>5. CASE \E o, p \in Objects : CopyConstruct(o, p)
  BY <1>5 DEF CopyConstruct, Free
<1>6. CASE \E o, p \in Objects : MoveLibrary(o, p)
  BY <1>6 DEF MoveLibrary, Free
<1>7. CASE \E o, p \in Objects : CopyAssignBegin(o, p)
  BY <1>7 DEF CopyAssignBegin, Free
<1>8. CASE \E o, p \in Objects : MoveAssignLibraryBegin(o, p)
  BY <1>8 DEF MoveAssignLibraryBegin, MayGiveUp, Free
<1>9. CASE \E c \in SessionCores : CreateCore(c)
  BY <1>9 DEF CreateCore
<1>10. CASE \E c \in SessionCores : DestroyCore(c)
  BY <1>10 DEF DestroyCore
<1>11. CASE UNCHANGED libraryVars
  BY <1>11 DEF libraryVars
<1>12. QED
  BY <1>1, <1>2, <1>3, <1>4, <1>5, <1>6, <1>7, <1>8, <1>9, <1>10, <1>11 DEF LibraryNext, LibraryOperation

(* A program that copies no moved-from Library and keeps the rule of        *)
(* library.hpp:39 never runs a Session on a finalized libssh.               *)
THEOREM CoresKeepLibrary ==
  ASSUME ~CopiesMovedFrom
  PROVE  LibrarySpec => []CoresHaveLibrary
<1>1. LibraryInit => OwnerForCores
  BY DEF LibraryInit, OwnerForCores
<1>2. OwnerForCores /\ InitializedIffHeld => CoresHaveLibrary
  BY DEF OwnerForCores, InitializedIffHeld, CoresHaveLibrary
<1>3. QED
  BY <1>1, <1>2, OwnerForCoresStep, CountInvariant, InitializedWhileHeld, PTL DEF LibrarySpec

-----------------------------------------------------------------------------
(* -------------------------------- Handles -------------------------------- *)

(* Between the two steps the native handle is gone already; the right-hand  *)
(* side of a move assignment is another wrapper of the same kind, at rest,  *)
(* and belongs to one assignment only.                                      *)
Between ==
  /\ \A s \in Slots : phase[s] # "idle" => native[s] = NoNative /\ kind[s] # "none"
  /\ \A s \in Slots : phase[s] = "assigning" =>
       /\ rhs[s] # s
       /\ phase[rhs[s]] = "idle"
       /\ kind[rhs[s]] = kind[s]
       /\ \A t \in Slots : (t # s /\ phase[t] = "assigning") => rhs[t] # rhs[s]

(* An unconstructed slot holds nothing and an unused handle has no session. *)
Blank ==
  /\ \A s \in Slots : kind[s] = "none" => native[s] = NoNative /\ ref[s] = NoCore /\ via[s] = NoNative
  /\ \A n \in Natives : mem[n] = "unused" => under[n] = NoCore

(* What every program has of HandlesAlive: a wrapper's handle was not freed *)
(* by another wrapper, and the session it was created on is kept alive.     *)
Kept ==
  \A s \in Slots : native[s] \in Natives =>
    /\ mem[native[s]] \in {"live", "stale"}
    /\ ref[s] \in Cores /\ ref[s] = under[native[s]]
    /\ coreMem[ref[s]] = "live"

(* The sftp_ pointer of an open File is one that only an Sftp may own.      *)
FromSftp ==
  \A s \in Slots : (kind[s] = "File" /\ native[s] \in Natives) =>
    /\ via[s] \in Natives /\ mem[via[s]] # "unused" /\ under[via[s]] = ref[s]
    /\ \A t \in Slots : native[t] = via[s] => kind[t] = "Sftp"

(* The inductive invariant, for every program.                              *)
OwnershipInv == HandlesTypes /\ Between /\ Blank /\ Kept /\ FromSftp /\ OneOwner /\ LastOneOut

(* In a program that ends what it derived first: no handle that is held,    *)
(* and no sftp_session of an open File, is stale or freed.                  *)
NoneStale ==
  EndsDerivedFirst => \A s \in Slots : native[s] \in Natives =>
    mem[native[s]] = "live" /\ (kind[s] = "File" => mem[via[s]] = "live")

(* HandlesTypes, one step per action.                                              *)
LEMMA TypeStep == HandlesTypes /\ [HandlesNext]_handlesVars => HandlesTypes'
<1> SUFFICES ASSUME HandlesTypes, [HandlesNext]_handlesVars PROVE HandlesTypes'
  OBVIOUS
<1> USE DEF HandlesTypes, Kinds, FromSession, Memory
<1>1. CASE \E s \in Slots, c \in Cores : NewSession(s, c)
  BY <1>1, HandlesAssumption DEF HandlesAssumption, NewSession
<1>2. CASE \E s \in Slots : NewSessionFails(s)
  BY <1>2, HandlesAssumption DEF HandlesAssumption, NewSessionFails
<1>3. CASE \E s, t \in Slots, n \in Natives, k \in FromSession : Open(s, t, n, k)
  BY <1>3, HandlesAssumption DEF HandlesAssumption, Open
<1>4. CASE \E s, t \in Slots, n \in Natives : Accept(s, t, n)
  BY <1>4, HandlesAssumption DEF HandlesAssumption, Accept
<1>5. CASE \E s, t \in Slots, n \in Natives : OpenFile(s, t, n)
  BY <1>5, HandlesAssumption DEF HandlesAssumption, OpenFile
<1>6. CASE \E s \in Slots : Close(s)
  BY <1>6, HandlesAssumption DEF HandlesAssumption, Close, FreeNative
<1>7. CASE \E s, t \in Slots : MoveConstruct(s, t)
  BY <1>7, HandlesAssumption DEF HandlesAssumption, MoveConstruct
<1>8. CASE \E s, t \in Slots : MoveAssignBegin(s, t)
  BY <1>8, HandlesAssumption DEF HandlesAssumption, MoveAssignBegin, FreeNative
<1>9. CASE \E s \in Slots : MoveAssignEnd(s)
  BY <1>9, HandlesAssumption DEF HandlesAssumption, MoveAssignEnd, DropRef
<1>10. CASE \E s \in Slots : DestroyBegin(s)
  BY <1>10, HandlesAssumption DEF HandlesAssumption, DestroyBegin, FreeNative
<1>11. CASE \E s \in Slots : DestroyEnd(s)
  BY <1>11, HandlesAssumption DEF HandlesAssumption, DestroyEnd, DropRef
<1>12. CASE \E s \in Slots : Disconnect(s)
  BY <1>12, HandlesAssumption DEF HandlesAssumption, Disconnect, OnChannel
<1>13. CASE UNCHANGED handlesVars
  BY <1>13 DEF handlesVars
<1>14. QED
  BY <1>1, <1>2, <1>3, <1>4, <1>5, <1>6, <1>7, <1>8, <1>9, <1>10, <1>11, <1>12, <1>13 DEF HandlesNext, WrapperOperation

(* Running operations and blank slots, one step per action.                 *)
LEMMA BetweenStep ==
  HandlesTypes /\ Between /\ Blank /\ [HandlesNext]_handlesVars => Between' /\ Blank'
<1> SUFFICES ASSUME HandlesTypes, Between, Blank, [HandlesNext]_handlesVars
             PROVE  Between' /\ Blank'
  OBVIOUS
<1> USE DEF HandlesTypes, Between, Blank, AtRest, FromSession
<1>1. CASE \E s \in Slots, c \in Cores : NewSession(s, c)
  BY <1>1, HandlesAssumption DEF HandlesAssumption, NewSession
<1>2. CASE \E s \in Slots : NewSessionFails(s)
  BY <1>2, HandlesAssumption DEF HandlesAssumption, NewSessionFails
<1>3. CASE \E s, t \in Slots, n \in Natives, k \in FromSession : Open(s, t, n, k)
  BY <1>3, HandlesAssumption DEF HandlesAssumption, Open
<1>4. CASE \E s, t \in Slots, n \in Natives : Accept(s, t, n)
  BY <1>4, HandlesAssumption DEF HandlesAssumption, Accept
<1>5. CASE \E s, t \in Slots, n \in Natives : OpenFile(s, t, n)
  BY <1>5, HandlesAssumption DEF HandlesAssumption, OpenFile
<1>6. CASE \E s \in Slots : Close(s)
  BY <1>6, HandlesAssumption DEF HandlesAssumption, Close, FreeNative
<1>7. CASE \E s, t \in Slots : MoveConstruct(s, t)
  BY <1>7, HandlesAssumption DEF HandlesAssumption, MoveConstruct
<1>8. CASE \E s, t \in Slots : MoveAssignBegin(s, t)
  BY <1>8, HandlesAssumption DEF HandlesAssumption, MoveAssignBegin, FreeNative
<1>9. CASE \E s \in Slots : MoveAssignEnd(s)
  BY <1>9, HandlesAssumption DEF HandlesAssumption, MoveAssignEnd, DropRef
<1>10. CASE \E s \in Slots : DestroyBegin(s)
  BY <1>10, HandlesAssumption DEF HandlesAssumption, DestroyBegin, FreeNative
<1>11. CASE \E s \in Slots : DestroyEnd(s)
  BY <1>11, HandlesAssumption DEF HandlesAssumption, DestroyEnd, DropRef
<1>12. CASE \E s \in Slots : Disconnect(s)
  BY <1>12, HandlesAssumption DEF HandlesAssumption, Disconnect, OnChannel
<1>13. CASE UNCHANGED handlesVars
  BY <1>13 DEF handlesVars
<1>14. QED
  BY <1>1, <1>2, <1>3, <1>4, <1>5, <1>6, <1>7, <1>8, <1>9, <1>10, <1>11, <1>12, <1>13 DEF HandlesNext, WrapperOperation

(* Every held handle is kept, one step per action.                          *)
LEMMA KeptStep == OwnershipInv /\ [HandlesNext]_handlesVars => Kept'
<1> SUFFICES ASSUME OwnershipInv, [HandlesNext]_handlesVars PROVE Kept'
  OBVIOUS
<1> USE DEF OwnershipInv, HandlesTypes, Between, Blank, Kept, OneOwner, LastOneOut, AtRest
<1>1. CASE \E s \in Slots, c \in Cores : NewSession(s, c)
  BY <1>1, HandlesAssumption DEF HandlesAssumption, NewSession
<1>2. CASE \E s \in Slots : NewSessionFails(s)
  BY <1>2, HandlesAssumption DEF HandlesAssumption, NewSessionFails
<1>3. CASE \E s, t \in Slots, n \in Natives, k \in FromSession : Open(s, t, n, k)
  BY <1>3, HandlesAssumption DEF HandlesAssumption, Open
<1>4. CASE \E s, t \in Slots, n \in Natives : Accept(s, t, n)
  BY <1>4, HandlesAssumption DEF HandlesAssumption, Accept
<1>5. CASE \E s, t \in Slots, n \in Natives : OpenFile(s, t, n)
  BY <1>5, HandlesAssumption DEF HandlesAssumption, OpenFile
<1>6. CASE \E s \in Slots : Close(s)
  BY <1>6, HandlesAssumption DEF HandlesAssumption, Close, FreeNative
<1>7. CASE \E s, t \in Slots : MoveConstruct(s, t)
  BY <1>7, HandlesAssumption DEF HandlesAssumption, MoveConstruct
<1>8. CASE \E s, t \in Slots : MoveAssignBegin(s, t)
  BY <1>8, HandlesAssumption DEF HandlesAssumption, MoveAssignBegin, FreeNative
<1>9. CASE \E s \in Slots : MoveAssignEnd(s)
  BY <1>9, HandlesAssumption DEF HandlesAssumption, MoveAssignEnd, DropRef
<1>10. CASE \E s \in Slots : DestroyBegin(s)
  BY <1>10, HandlesAssumption DEF HandlesAssumption, DestroyBegin, FreeNative
<1>11. CASE \E s \in Slots : DestroyEnd(s)
  BY <1>11, HandlesAssumption DEF HandlesAssumption, DestroyEnd, DropRef
<1>12. CASE \E s \in Slots : Disconnect(s)
  BY <1>12, HandlesAssumption DEF HandlesAssumption, Disconnect, OnChannel
<1>13. CASE UNCHANGED handlesVars
  BY <1>13 DEF handlesVars
<1>14. QED
  BY <1>1, <1>2, <1>3, <1>4, <1>5, <1>6, <1>7, <1>8, <1>9, <1>10, <1>11, <1>12, <1>13 DEF HandlesNext, WrapperOperation

(* Files keep pointing at an Sftp's handle, one step per action.            *)
LEMMA FromSftpStep == OwnershipInv /\ [HandlesNext]_handlesVars => FromSftp'
<1> SUFFICES ASSUME OwnershipInv, [HandlesNext]_handlesVars PROVE FromSftp'
  OBVIOUS
<1> USE DEF OwnershipInv, HandlesTypes, Between, Blank, Kept, FromSftp, OneOwner, AtRest
<1>1. CASE \E s \in Slots, c \in Cores : NewSession(s, c)
  BY <1>1, HandlesAssumption DEF HandlesAssumption, NewSession
<1>2. CASE \E s \in Slots : NewSessionFails(s)
  BY <1>2, HandlesAssumption DEF HandlesAssumption, NewSessionFails
<1>3. CASE \E s, t \in Slots, n \in Natives, k \in FromSession : Open(s, t, n, k)
  BY <1>3, HandlesAssumption DEF HandlesAssumption, Open, FromSession
<1>4. CASE \E s, t \in Slots, n \in Natives : Accept(s, t, n)
  BY <1>4, HandlesAssumption DEF HandlesAssumption, Accept
<1>5. CASE \E s, t \in Slots, n \in Natives : OpenFile(s, t, n)
  BY <1>5, HandlesAssumption DEF HandlesAssumption, OpenFile
<1>6. CASE \E s \in Slots : Close(s)
  BY <1>6, HandlesAssumption DEF HandlesAssumption, Close, FreeNative
<1>7. CASE \E s, t \in Slots : MoveConstruct(s, t)
  BY <1>7, HandlesAssumption DEF HandlesAssumption, MoveConstruct
<1>8. CASE \E s, t \in Slots : MoveAssignBegin(s, t)
  BY <1>8, HandlesAssumption DEF HandlesAssumption, MoveAssignBegin, FreeNative
<1>9. CASE \E s \in Slots : MoveAssignEnd(s)
  BY <1>9, HandlesAssumption DEF HandlesAssumption, MoveAssignEnd, DropRef
<1>10. CASE \E s \in Slots : DestroyBegin(s)
  BY <1>10, HandlesAssumption DEF HandlesAssumption, DestroyBegin, FreeNative
<1>11. CASE \E s \in Slots : DestroyEnd(s)
  BY <1>11, HandlesAssumption DEF HandlesAssumption, DestroyEnd, DropRef
<1>12. CASE \E s \in Slots : Disconnect(s)
  BY <1>12, HandlesAssumption DEF HandlesAssumption, Disconnect, OnChannel
<1>13. CASE UNCHANGED handlesVars
  BY <1>13 DEF handlesVars
<1>14. QED
  BY <1>1, <1>2, <1>3, <1>4, <1>5, <1>6, <1>7, <1>8, <1>9, <1>10, <1>11, <1>12, <1>13 DEF HandlesNext, WrapperOperation

(* The discipline keeps held handles from going stale, one step per action. *)
LEMMA NoneStaleStep == OwnershipInv /\ NoneStale /\ [HandlesNext]_handlesVars => NoneStale'
<1> SUFFICES ASSUME OwnershipInv, NoneStale, [HandlesNext]_handlesVars PROVE NoneStale'
  OBVIOUS
<1> USE DEF OwnershipInv, HandlesTypes, Between, Blank, Kept, FromSftp, OneOwner, NoneStale, NoOpenFiles, AtRest
<1>1. CASE \E s \in Slots, c \in Cores : NewSession(s, c)
  BY <1>1, HandlesAssumption DEF HandlesAssumption, NewSession
<1>2. CASE \E s \in Slots : NewSessionFails(s)
  BY <1>2, HandlesAssumption DEF HandlesAssumption, NewSessionFails
<1>3. CASE \E s, t \in Slots, n \in Natives, k \in FromSession : Open(s, t, n, k)
  BY <1>3, HandlesAssumption DEF HandlesAssumption, Open, FromSession
<1>4. CASE \E s, t \in Slots, n \in Natives : Accept(s, t, n)
  BY <1>4, HandlesAssumption DEF HandlesAssumption, Accept
<1>5. CASE \E s, t \in Slots, n \in Natives : OpenFile(s, t, n)
  BY <1>5, HandlesAssumption DEF HandlesAssumption, OpenFile
<1>6. CASE \E s \in Slots : Close(s)
  BY <1>6, HandlesAssumption DEF HandlesAssumption, Close, FreeNative
<1>7. CASE \E s, t \in Slots : MoveConstruct(s, t)
  BY <1>7, HandlesAssumption DEF HandlesAssumption, MoveConstruct
<1>8. CASE \E s, t \in Slots : MoveAssignBegin(s, t)
  BY <1>8, HandlesAssumption DEF HandlesAssumption, MoveAssignBegin, FreeNative
<1>9. CASE \E s \in Slots : MoveAssignEnd(s)
  BY <1>9, HandlesAssumption DEF HandlesAssumption, MoveAssignEnd, DropRef
<1>10. CASE \E s \in Slots : DestroyBegin(s)
  BY <1>10, HandlesAssumption DEF HandlesAssumption, DestroyBegin, FreeNative
<1>11. CASE \E s \in Slots : DestroyEnd(s)
  BY <1>11, HandlesAssumption DEF HandlesAssumption, DestroyEnd, DropRef
<1>12. CASE \E s \in Slots : Disconnect(s)
  BY <1>12, HandlesAssumption DEF HandlesAssumption, Disconnect, OnChannel
<1>13. CASE UNCHANGED handlesVars
  BY <1>13 DEF handlesVars
<1>14. QED
  BY <1>1, <1>2, <1>3, <1>4, <1>5, <1>6, <1>7, <1>8, <1>9, <1>10, <1>11, <1>12, <1>13 DEF HandlesNext, WrapperOperation

(* Handles keep one owner each, one step per action.                        *)
LEMMA OwnerStep == OwnershipInv /\ [HandlesNext]_handlesVars => OneOwner'
<1> SUFFICES ASSUME OwnershipInv, [HandlesNext]_handlesVars PROVE OneOwner'
  OBVIOUS
<1> USE DEF OwnershipInv, HandlesTypes, Between, Blank, Kept, OneOwner, AtRest
<1>1. CASE \E s \in Slots, c \in Cores : NewSession(s, c)
  BY <1>1, HandlesAssumption DEF HandlesAssumption, NewSession
<1>2. CASE \E s \in Slots : NewSessionFails(s)
  BY <1>2, HandlesAssumption DEF HandlesAssumption, NewSessionFails
<1>3. CASE \E s, t \in Slots, n \in Natives, k \in FromSession : Open(s, t, n, k)
  BY <1>3, HandlesAssumption DEF HandlesAssumption, Open
<1>4. CASE \E s, t \in Slots, n \in Natives : Accept(s, t, n)
  BY <1>4, HandlesAssumption DEF HandlesAssumption, Accept
<1>5. CASE \E s, t \in Slots, n \in Natives : OpenFile(s, t, n)
  BY <1>5, HandlesAssumption DEF HandlesAssumption, OpenFile
<1>6. CASE \E s \in Slots : Close(s)
  BY <1>6, HandlesAssumption DEF HandlesAssumption, Close, FreeNative
<1>7. CASE \E s, t \in Slots : MoveConstruct(s, t)
  BY <1>7, HandlesAssumption DEF HandlesAssumption, MoveConstruct
<1>8. CASE \E s, t \in Slots : MoveAssignBegin(s, t)
  BY <1>8, HandlesAssumption DEF HandlesAssumption, MoveAssignBegin, FreeNative
<1>9. CASE \E s \in Slots : MoveAssignEnd(s)
  BY <1>9, HandlesAssumption DEF HandlesAssumption, MoveAssignEnd, DropRef
<1>10. CASE \E s \in Slots : DestroyBegin(s)
  BY <1>10, HandlesAssumption DEF HandlesAssumption, DestroyBegin, FreeNative
<1>11. CASE \E s \in Slots : DestroyEnd(s)
  BY <1>11, HandlesAssumption DEF HandlesAssumption, DestroyEnd, DropRef
<1>12. CASE \E s \in Slots : Disconnect(s)
  BY <1>12, HandlesAssumption DEF HandlesAssumption, Disconnect, OnChannel
<1>13. CASE UNCHANGED handlesVars
  BY <1>13 DEF handlesVars
<1>14. QED
  BY <1>1, <1>2, <1>3, <1>4, <1>5, <1>6, <1>7, <1>8, <1>9, <1>10, <1>11, <1>12, <1>13 DEF HandlesNext, WrapperOperation

(* A session lives as long as it is referred to, one step per action.       *)
LEMMA LastOutStep == OwnershipInv /\ [HandlesNext]_handlesVars => LastOneOut'
<1> SUFFICES ASSUME OwnershipInv, [HandlesNext]_handlesVars PROVE LastOneOut'
  OBVIOUS
<1> USE DEF OwnershipInv, HandlesTypes, Between, Blank, Kept, LastOneOut, AtRest
<1>1. CASE \E s \in Slots, c \in Cores : NewSession(s, c)
  BY <1>1, HandlesAssumption DEF HandlesAssumption, NewSession
<1>2. CASE \E s \in Slots : NewSessionFails(s)
  BY <1>2, HandlesAssumption DEF HandlesAssumption, NewSessionFails
<1>3. CASE \E s, t \in Slots, n \in Natives, k \in FromSession : Open(s, t, n, k)
  BY <1>3, HandlesAssumption DEF HandlesAssumption, Open
<1>4. CASE \E s, t \in Slots, n \in Natives : Accept(s, t, n)
  BY <1>4, HandlesAssumption DEF HandlesAssumption, Accept
<1>5. CASE \E s, t \in Slots, n \in Natives : OpenFile(s, t, n)
  BY <1>5, HandlesAssumption DEF HandlesAssumption, OpenFile
<1>6. CASE \E s \in Slots : Close(s)
  BY <1>6, HandlesAssumption DEF HandlesAssumption, Close, FreeNative
<1>7. CASE \E s, t \in Slots : MoveConstruct(s, t)
  BY <1>7, HandlesAssumption DEF HandlesAssumption, MoveConstruct
<1>8. CASE \E s, t \in Slots : MoveAssignBegin(s, t)
  BY <1>8, HandlesAssumption DEF HandlesAssumption, MoveAssignBegin, FreeNative
<1>9. CASE \E s \in Slots : MoveAssignEnd(s)
  BY <1>9, HandlesAssumption DEF HandlesAssumption, MoveAssignEnd, DropRef
<1>10. CASE \E s \in Slots : DestroyBegin(s)
  BY <1>10, HandlesAssumption DEF HandlesAssumption, DestroyBegin, FreeNative
<1>11. CASE \E s \in Slots : DestroyEnd(s)
  BY <1>11, HandlesAssumption DEF HandlesAssumption, DestroyEnd, DropRef
<1>12. CASE \E s \in Slots : Disconnect(s)
  BY <1>12, HandlesAssumption DEF HandlesAssumption, Disconnect, OnChannel
<1>13. CASE UNCHANGED handlesVars
  BY <1>13 DEF handlesVars
<1>14. QED
  BY <1>1, <1>2, <1>3, <1>4, <1>5, <1>6, <1>7, <1>8, <1>9, <1>10, <1>11, <1>12, <1>13 DEF HandlesNext, WrapperOperation

(* The inductive invariant holds in every reachable state.                  *)
LEMMA OwnershipInvariant == HandlesSpec => []OwnershipInv
<1>1. HandlesInit => OwnershipInv
  BY HandlesAssumption DEF HandlesAssumption, HandlesInit, OwnershipInv, HandlesTypes, Between, Blank,
     Kept, FromSftp, OneOwner, LastOneOut, Memory
<1>2. OwnershipInv /\ [HandlesNext]_handlesVars => OwnershipInv'
  BY TypeStep, BetweenStep, KeptStep, FromSftpStep, OwnerStep, LastOutStep DEF OwnershipInv
<1>3. QED
  BY <1>1, <1>2, PTL DEF HandlesSpec

(* Every state of Handles has its type, and a destroyed wrapper holds       *)
(* nothing.                                                                 *)
THEOREM HandlesTypeCorrect == HandlesSpec => []HandlesTypeOK
<1>1. OwnershipInv => HandlesTypeOK
  BY DEF OwnershipInv, Blank, HandlesTypeOK
<1>2. QED
  BY <1>1, OwnershipInvariant, PTL

(* In a program that ends what it derived from an Sftp before the Sftp, and *)
(* from a Session before disconnect(), no wrapper ever holds a freed or     *)
(* stale handle, a handle of another session, or a handle whose session is  *)
(* gone, and no open File or Directory keeps the pointer of a freed         *)
(* sftp_session, in any interleaving of moves and destructions.             *)
THEOREM HandlesNeverDangle == HandlesSpec => []HandlesAlive
<1>1. HandlesInit => NoneStale
  BY HandlesAssumption DEF HandlesAssumption, HandlesInit, NoneStale
<1>2. OwnershipInv /\ NoneStale => HandlesAlive
  BY DEF OwnershipInv, Kept, FromSftp, NoneStale, HandlesAlive
<1>3. QED
  BY <1>1, <1>2, NoneStaleStep, OwnershipInvariant, PTL DEF HandlesSpec

(* Every allocated handle has exactly one owner: none is freed twice, none  *)
(* is leaked by a move.                                                     *)
THEOREM HandlesHaveOneOwner == HandlesSpec => []OneOwner
<1>1. OwnershipInv => OneOwner
  BY DEF OwnershipInv
<1>2. QED
  BY <1>1, OwnershipInvariant, PTL

(* The ssh_session is allocated exactly while some wrapper refers to it.    *)
THEOREM SessionLivesWhileReferred == HandlesSpec => []LastOneOut
<1>1. OwnershipInv => LastOneOut
  BY DEF OwnershipInv
<1>2. QED
  BY <1>1, OwnershipInvariant, PTL

(* ssh_free() of a session comes after the handles created on it are freed. *)
THEOREM SessionFreedAfterHandles == HandlesSpec => SessionFreedLast
<1> DEFINE FreedLast == \A c \in Cores : (coreMem[c] = "live" /\ coreMem'[c] = "freed") =>
                          \A n \in Natives : under[n] = c => mem[n] = "freed"
<1>1. OwnershipInv /\ [HandlesNext]_handlesVars => [FreedLast]_handlesVars
  <2> SUFFICES ASSUME OwnershipInv, HandlesNext,
                      NEW c \in Cores, coreMem[c] = "live", coreMem'[c] = "freed",
                      NEW n \in Natives, under[n] = c
               PROVE  mem[n] = "freed"
    OBVIOUS
  <2>1. PICK s \in Slots : MoveAssignEnd(s) \/ DestroyEnd(s)
    BY DEF HandlesNext, WrapperOperation, NewSession, NewSessionFails, Open, Accept, OpenFile, Close, Disconnect, MoveConstruct,
           MoveAssignBegin, DestroyBegin, OwnershipInv, HandlesTypes
  <2>2. native[s] = NoNative /\ \A t \in Slots \ {s} : ref[t] # c
    BY <2>1 DEF MoveAssignEnd, DestroyEnd, DropRef, OwnershipInv, HandlesTypes, Between
  <2>3. mem[n] \notin {"live", "stale"}
    BY <2>2, HandlesAssumption DEF HandlesAssumption, OwnershipInv, OneOwner, Kept
  <2>4. mem[n] # "unused"
    BY HandlesAssumption DEF HandlesAssumption, OwnershipInv, Blank
  <2>5. QED
    BY <2>3, <2>4 DEF OwnershipInv, HandlesTypes, Memory
<1>2. QED
  BY <1>1, OwnershipInvariant, PTL DEF HandlesSpec, SessionFreedLast

-----------------------------------------------------------------------------
(* ------------------------------- Lifetime -------------------------------- *)

(* A step of the program is a step of its Library objects, of its wrappers, *)
(* or of both.                                                              *)
LEMMA LifetimeStep ==
  LifetimeNext => [LibraryNext]_libraryVars /\ [HandlesNext]_handlesVars
<1> SUFFICES ASSUME LifetimeNext
             PROVE  [LibraryNext]_libraryVars /\ [HandlesNext]_handlesVars
  OBVIOUS
<1>1. CASE LibraryOperation /\ UNCHANGED handlesVars
  BY <1>1 DEF LibraryNext
<1>2. CASE \E s \in Slots, c \in Cores : CreateSession(s, c)
  BY <1>2, LifetimeAssumption DEF CreateSession, LibraryNext, HandlesNext
<1>3. CASE UseWrapper
  BY <1>3 DEF UseWrapper, HandlesNext
<1>4. CASE \E c \in Cores : DropLastRef(c)
  BY <1>4, LifetimeAssumption DEF DropLastRef, LibraryNext, HandlesNext
<1>5. QED
  BY <1>1, <1>2, <1>3, <1>4 DEF LifetimeNext

(* The program's Library objects behave as Library says, whatever the       *)
(* wrappers do.                                                             *)
THEOREM LifetimeImplementsLibrary == LifetimeSpec => LibrarySpec
<1>1. LifetimeInit => LibraryInit
  BY DEF LifetimeInit
<1>2. [LifetimeNext]_lifetimeVars => [LibraryNext]_libraryVars
  BY LifetimeStep DEF lifetimeVars
<1>3. QED
  BY <1>1, <1>2, PTL DEF LifetimeSpec, LibrarySpec

(* Its wrappers behave as Handles says, whatever the Library objects do.    *)
THEOREM LifetimeImplementsHandles == LifetimeSpec => HandlesSpec
<1>1. LifetimeInit => HandlesInit
  BY DEF LifetimeInit
<1>2. [LifetimeNext]_lifetimeVars => [HandlesNext]_handlesVars
  BY LifetimeStep DEF lifetimeVars
<1>3. QED
  BY <1>1, <1>2, PTL DEF LifetimeSpec, HandlesSpec

(* The cores that need a Library are those whose ssh_session is allocated.  *)
SharedCores == cores = {c \in Cores : coreMem[c] = "live"}

(* An operation on a wrapper frees one core at most, and one that was live. *)
LEMMA OneCoreDropped ==
  ASSUME HandlesTypes, LastOneOut, WrapperOperation, NEW c \in Cores, coreMem'[c] # coreMem[c]
  PROVE  /\ coreMem' = [coreMem EXCEPT ![c] = "freed"]
         /\ coreMem[c] = "live"
<1>1. ASSUME NEW s \in Slots, DropRef(s)
      PROVE  coreMem' = [coreMem EXCEPT ![c] = "freed"] /\ ref[s] = c
  <2>1. \A d \in Cores : coreMem'[d] # coreMem[d] => d = ref[s] /\ coreMem'[d] = "freed"
    BY <1>1 DEF DropRef
  <2>2. \A d \in Cores : coreMem'[d] = IF d = c THEN "freed" ELSE coreMem[d]
    BY <2>1
  <2>3. coreMem' = [d \in Cores |-> coreMem'[d]]
    BY <1>1 DEF DropRef
  <2>4. coreMem' = [d \in Cores |-> IF d = c THEN "freed" ELSE coreMem[d]]
    BY <2>2, <2>3
  <2>5. QED
    BY <2>1, <2>4 DEF HandlesTypes
<1>2. PICK s \in Slots : MoveAssignEnd(s) \/ DestroyEnd(s)
  BY DEF WrapperOperation, NewSessionFails, Open, Accept, OpenFile, Close, Disconnect, MoveConstruct,
         MoveAssignBegin, DestroyBegin
<1>3. coreMem' = [coreMem EXCEPT ![c] = "freed"] /\ ref[s] = c
  BY <1>1, <1>2 DEF MoveAssignEnd, DestroyEnd
<1>4. QED
  BY <1>3 DEF LastOneOut

(* The two components agree on the cores, one step per action.              *)
LEMMA SharedStep ==
  OwnershipInv /\ SharedCores /\ [LifetimeNext]_lifetimeVars => SharedCores'
<1> SUFFICES ASSUME OwnershipInv, SharedCores, [LifetimeNext]_lifetimeVars
             PROVE  SharedCores'
  OBVIOUS
<1>1. CASE LibraryOperation /\ UNCHANGED handlesVars
  <2>1. UNCHANGED <<cores, coreMem>>
    BY <1>1 DEF LibraryOperation, Construct, Destroy, CopyAssignEnd, MoveAssignLibraryEnd,
                CopyConstruct, MoveLibrary, CopyAssignBegin, MoveAssignLibraryBegin, handlesVars
  <2>2. QED
    BY <2>1 DEF SharedCores
<1>2. ASSUME NEW s \in Slots, NEW c \in Cores, CreateSession(s, c)
      PROVE  SharedCores'
  BY <1>2 DEF CreateSession, NewSession, CreateCore, SharedCores, OwnershipInv, HandlesTypes
<1>3. CASE UseWrapper
  BY <1>3 DEF UseWrapper, libraryVars, SharedCores
<1>4. ASSUME NEW c \in Cores, DropLastRef(c)
      PROVE  SharedCores'
  <2>1. coreMem' = [coreMem EXCEPT ![c] = "freed"] /\ cores' = cores \ {c}
    BY <1>4, OneCoreDropped DEF DropLastRef, DestroyCore, OwnershipInv
  <2>2. QED
    BY <2>1 DEF SharedCores, OwnershipInv, HandlesTypes
<1>5. CASE UNCHANGED lifetimeVars
  BY <1>5 DEF lifetimeVars, libraryVars, handlesVars, SharedCores
<1>6. QED
  BY <1>1, <1>2, <1>3, <1>4, <1>5 DEF LifetimeNext

(* In a program that copies no moved-from Library and keeps the rule of     *)
(* library.hpp:38-39, a wrapper that still holds a handle or a core, its    *)
(* Session object gone or not, has an initialised libssh for its next call  *)
(* and for its destructor.                                                  *)
THEOREM NoCallAfterFinalizeHolds ==
  ASSUME ~CopiesMovedFrom
  PROVE  LifetimeSpec => []NoCallAfterFinalize
<1>1. LifetimeInit => SharedCores
  BY DEF LifetimeInit, LibraryInit, HandlesInit, SharedCores
<1>2. OwnershipInv /\ SharedCores /\ CoresHaveLibrary /\ InitializedIffHeld => NoCallAfterFinalize
  <2> SUFFICES ASSUME OwnershipInv, SharedCores, CoresHaveLibrary, InitializedIffHeld,
                      KeepsLibraryAlive, NEW s \in Slots, native[s] \in Natives \/ ref[s] \in Cores
               PROVE  inits = 1
    BY DEF NoCallAfterFinalize
  <2>1. ref[s] \in Cores /\ coreMem[ref[s]] = "live"
    BY DEF OwnershipInv, Kept, LastOneOut
  <2>2. inits > 0
    BY <2>1 DEF SharedCores, CoresHaveLibrary
  <2>3. QED
    BY <2>2 DEF InitializedIffHeld
<1>3. LifetimeSpec => []OwnershipInv
  BY LifetimeImplementsHandles, OwnershipInvariant, PTL
<1>4. LifetimeSpec => []CoresHaveLibrary /\ []InitializedIffHeld
  BY LifetimeImplementsLibrary, CoresKeepLibrary, InitializedWhileHeld, PTL
<1>5. QED
  BY <1>1, <1>2, <1>3, <1>4, SharedStep, PTL DEF LifetimeSpec
=============================================================================
