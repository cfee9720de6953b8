----------------------------- MODULE MCServing ------------------------------
(* Serving on a small instance.                                             *)
EXTENDS Serving
CONSTANTS t1, t2
=============================================================================
