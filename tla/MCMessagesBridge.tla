--------------------------- MODULE MCMessagesBridge ---------------------------
(***************************************************************************)
(* Model-checking instances of MessagesBridge.                             *)
(***************************************************************************)
EXTENDS MessagesBridge, TLC

RelayerSymmetry == Permutations(Relayers)
Symmetry == Permutations(Relayers) \cup Permutations(Payloads)
=============================================================================
