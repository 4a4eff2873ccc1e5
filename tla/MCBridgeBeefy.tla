---------------------------- MODULE MCBridgeBeefy ----------------------------
(***************************************************************************)
(* Model-checking instances of BridgeBeefy.                                *)
(***************************************************************************)
EXTENDS BridgeBeefy, TLC
=============================================================================
