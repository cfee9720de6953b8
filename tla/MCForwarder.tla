----------------------------- MODULE MCForwarder -----------------------------
(* Instantiates Forwarder for TLC.                                          *)
EXTENDS Forwarder
=============================================================================
