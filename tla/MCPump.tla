-------------------------------- MODULE MCPump --------------------------------
(* Instantiates Pump for TLC.                                               *)
EXTENDS Pump
=============================================================================
