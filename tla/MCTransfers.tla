---------------------------- MODULE MCTransfers -----------------------------
(* Transfers on a small instance.                                           *)
EXTENDS Transfers
=============================================================================
