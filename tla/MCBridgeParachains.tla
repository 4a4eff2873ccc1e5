-------------------------- MODULE MCBridgeParachains --------------------------
(***************************************************************************)
(* Model-checking instances of BridgeParachains.                           *)
(***************************************************************************)
EXTENDS BridgeParachains, TLC

CONSTANTS p1, p2, untracked

\* The heads of one parachain go around the ring; another starts with a head that
\* is too large; the third has one head.
MCParaHeads == (p1 :> {None, 1, 2, 3}) @@ (p2 :> {1, 2}) @@ (untracked :> {1})
FirstHeadOfSecond == {<<p2, 1>>}
=============================================================================
