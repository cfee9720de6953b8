--------------------------- MODULE MCServerSession ---------------------------
(* Instantiates ServerSession for TLC.                                      *)
EXTENDS ServerSession
=============================================================================
