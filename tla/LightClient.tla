----------------------------- MODULE LightClient -----------------------------
(***************************************************************************)
(* What a light client of a bridged chain promises to the pallets that     *)
(* verify proofs against it: it imports headers in ascending order and     *)
(* keeps the HeadersToKeep most recently imported ones.                    *)
(***************************************************************************)
EXTENDS Integers, FiniteSets

CONSTANTS
  HeadersToKeep,
  Numbers          \* header numbers of the bridged chain

VARIABLE kept   \* numbers of the headers in storage

Init == kept = {}

\* The oldest header, once there are enough of them.
Forgotten ==
  {n \in kept : Cardinality(kept) >= HeadersToKeep /\ \A m \in kept : n <= m}

Import(number) ==
  /\ \A n \in kept : n < number
  /\ kept' = (kept \ Forgotten) \cup {number}

Next == \E number \in Numbers : Import(number)

Spec == Init /\ [][Next]_kept
=============================================================================
