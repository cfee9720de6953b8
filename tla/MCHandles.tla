------------------------------ MODULE MCHandles ------------------------------
(* Instantiates Handles for TLC, for programs of every kind.                *)
EXTENDS Handles, TLC

Symmetry == Permutations(Slots) \cup Permutations(Natives)
=============================================================================
