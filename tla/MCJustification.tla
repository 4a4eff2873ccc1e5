--------------------------- MODULE MCJustification ---------------------------
(***************************************************************************)
(* Model-checking instances of Justification: a target, two headers on top *)
(* of it, and a competing header at the target's height.                   *)
(***************************************************************************)
EXTENDS Justification, TLC

CONSTANTS a, b, c, d, e

MCTarget == <<1>>
MCHeaders == {<<1>>, <<1, 1>>, <<1, 1, 1>>, <<2>>}
EqualWeights == [v \in Authorities |-> 1]
UnequalWeights == [v \in Authorities |-> IF v = a THEN 2 ELSE 1]

AuthoritySymmetry == Permutations({a, b, c, d})
=============================================================================
