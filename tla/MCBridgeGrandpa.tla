--------------------------- MODULE MCBridgeGrandpa ---------------------------
(***************************************************************************)
(* Model-checking instances of BridgeGrandpa.                              *)
(***************************************************************************)
EXTENDS BridgeGrandpa, TLC
=============================================================================
