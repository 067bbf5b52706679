--------------------------- MODULE MCBridgeServer ---------------------------
(***************************************************************************)
(* BridgeServer with two connections.                                      *)
(***************************************************************************)
EXTENDS BridgeServer

=============================================================================
