-------------------------------- MODULE Copy --------------------------------
(***************************************************************************)
(* What a transfer promises: the bytes of a source of `size' bytes are     *)
(* dealt with in order, none twice and none left out, and it reports       *)
(* success only at the end of the source and only if no error was met.     *)
(* A byte is dealt with when it has arrived, or when it was passed over:   *)
(* something kept it from arriving that the code does not look for.        *)
(***************************************************************************)
EXTENDS Naturals

VARIABLES
  size,      \* bytes of the source
  dst,       \* the bytes, by position, that have arrived at their place
  lost,      \* the bytes that were passed over
  error,     \* an error was met
  outcome    \* "running", "ok", "failed"

copyVars == <<size, dst, lost, error, outcome>>

CopyInit ==
  /\ size \in Nat
  /\ dst = {} /\ lost = {} /\ error = FALSE /\ outcome = "running"

(* The bytes lo to hi are dealt with, behind all the others and next to     *)
(* them unless an error was met before: the first of them arrive, the rest  *)
(* is passed over.                                                          *)
Advance ==
  /\ outcome = "running"
  /\ \E lo \in 1 .. size : \E hi \in lo .. size : \E mid \in (lo - 1) .. hi :
       /\ dst \cup lost \subseteq 1 .. (lo - 1)
       /\ ~error => dst \cup lost = 1 .. (lo - 1)
       /\ dst' = dst \cup (lo .. mid)
       /\ lost' = lost \cup ((mid + 1) .. hi)
  /\ UNCHANGED <<size, error, outcome>>

MeetError == outcome = "running" /\ error' = TRUE /\ UNCHANGED <<size, dst, lost, outcome>>

Succeed ==
  /\ outcome = "running" /\ ~error
  /\ dst \cup lost = 1 .. size
  /\ outcome' = "ok" /\ UNCHANGED <<size, dst, lost, error>>

Fail ==
  /\ outcome = "running"
  /\ outcome' = "failed" /\ error' = TRUE /\ UNCHANGED <<size, dst, lost>>

CopyNext == Advance \/ MeetError \/ Succeed \/ Fail

CopySpec == CopyInit /\ [][CopyNext]_copyVars
=============================================================================
