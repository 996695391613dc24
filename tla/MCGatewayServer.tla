--------------------------- MODULE MCGatewayServer ---------------------------
(* GatewayServer for TLC: its constants are given values in the .cfg files. *)
EXTENDS GatewayServer
==============================================================================
