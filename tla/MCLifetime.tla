----------------------------- MODULE MCLifetime -----------------------------
(* Instantiates Lifetime for TLC: three Library objects, so that an         *)
(* assignment between two of them overlaps with operations on the third,    *)
(* and three wrappers with two handles, so that a File lives beside its     *)
(* Sftp, a channel outlives its Session, and one wrapper is assigned over   *)
(* another.                                                                 *)
EXTENDS Lifetime, TLC

Symmetry == Permutations(Objects) \cup Permutations(Slots) \cup Permutations(Cores)
              \cup Permutations(Natives)
=============================================================================
