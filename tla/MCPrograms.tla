----------------------------- MODULE MCPrograms -----------------------------
(* Programs on a small instance.                                            *)
EXTENDS Programs

MCSizes == {80, 132}
=============================================================================
