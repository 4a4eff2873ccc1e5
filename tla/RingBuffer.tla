------------------------------ MODULE RingBuffer ------------------------------
(***************************************************************************)
(* Facts about the ring buffers in which the light clients keep what they  *)
(* have imported most recently.                                            *)
(***************************************************************************)
EXTENDS Integers, FiniteSets, FiniteSetTheorems, TLAPS

-----------------------------------------------------------------------------
(* Ring buffers: a map from slots to numbers, and the slot that is written *)
(* next.                                                                   *)

\* The order in which slots were written, if p is written next.
Age(i, p, K) == IF i < p THEN i + K ELSE i

\* What was written later is newer, and nothing is empty after something that is not.
Ordered(r, p, K, none) ==
  \A i, j \in 0..(K - 1) :
    Age(i, p, K) < Age(j, p, K) /\ r[i] # none => r[j] # none /\ r[i] < r[j]

Held(r, K, none) == {r[i] : i \in 0..(K - 1)} \ {none}

\* What a light client forgets when it imports the next header.
Oldest(kept, K) ==
  {n \in kept : Cardinality(kept) >= K /\ \A m \in kept : n <= m}

\* The position wraps around.
LEMMA NextPosition ==
  ASSUME NEW K \in Nat \ {0}, NEW p \in 0..(K - 1)
  PROVE  (p + 1) % K = IF p + 1 = K THEN 0 ELSE p + 1
  OBVIOUS

\* The slots hold as many numbers as there are slots if, and only if, the one that is
\* written next holds a number.
LEMMA FullRing ==
  ASSUME NEW K \in Nat \ {0}, NEW none, none \notin Int,
         NEW r \in [0..(K - 1) -> Int \cup {none}], NEW p \in 0..(K - 1),
         Ordered(r, p, K, none)
  PROVE  Cardinality(Held(r, K, none)) >= K <=> r[p] # none
  <1> DEFINE H == Held(r, K, none)
  <1>1. IsFiniteSet(0..(K - 1)) /\ Cardinality(0..(K - 1)) = K
    <2>1. 0 \in Int /\ K - 1 \in Int /\ ~(0 > K - 1) /\ (K - 1) - 0 + 1 = K
      OBVIOUS
    <2> QED
      BY <2>1, FS_Interval
  <1>2. CASE r[p] # none
    <2>1. \A i \in 0..(K - 1) : i # p => Age(p, p, K) < Age(i, p, K)
      BY DEF Age
    <2>2. \A i \in 0..(K - 1) : r[i] # none /\ r[i] \in Int
      BY <1>2, <2>1 DEF Ordered
    <2>3. \A i, j \in 0..(K - 1) : i # j => Age(i, p, K) < Age(j, p, K) \/ Age(j, p, K) < Age(i, p, K)
      BY DEF Age
    <2>4. ASSUME NEW i \in 0..(K - 1), NEW j \in 0..(K - 1), r[i] = r[j]
          PROVE  i = j
      <3>1. ASSUME NEW k \in 0..(K - 1), NEW l \in 0..(K - 1), Age(k, p, K) < Age(l, p, K)
            PROVE  r[k] # r[l]
        BY <2>2, <3>1 DEF Ordered
      <3> QED
        BY <2>3, <2>4, <3>1, Zenon
    <2>5. r \in [0..(K - 1) -> H]
      BY <2>2 DEF Held
    <2>6. \A t \in H : \E i \in 0..(K - 1) : r[i] = t
      BY DEF Held
    <2>7. r \in Bijection(0..(K - 1), H)
      BY <2>4, <2>5, <2>6 DEF Bijection, Injection, Surjection, IsInjective
    <2>8. ExistsBijection(0..(K - 1), H)
      BY <2>7 DEF ExistsBijection
    <2>9. Cardinality(H) = K
      BY <1>1, <2>8, FS_Bijection
    <2> QED
      BY <1>2, <2>9
  <1>3. CASE r[p] = none
    <2> DEFINE S == {i \in 0..(K - 1) : r[i] # none}
               f == [i \in S |-> r[i]]
    <2>1. /\ S \in SUBSET (0..(K - 1))
          /\ S # 0..(K - 1)
      BY <1>3
    <2>2. IsFiniteSet(S) /\ Cardinality(S) <= K /\ Cardinality(S) # K /\ Cardinality(S) \in Nat
      <3>1. IsFiniteSet(S) /\ Cardinality(S) <= K
        BY <1>1, <2>1, FS_Subset
      <3>2. Cardinality(S) # K
        BY <1>1, <2>1, FS_Subset, Zenon
      <3>3. Cardinality(S) \in Nat
        BY <3>1, FS_CardinalityType
      <3> QED
        BY <3>1, <3>2, <3>3
    <2>3. f \in Surjection(S, H)
      BY DEF Surjection, Held
    <2>4. IsFiniteSet(H) /\ Cardinality(H) <= Cardinality(S)
      BY <2>2, <2>3, FS_Surjection
    <2>5. Cardinality(H) \in Nat
      BY <2>4, FS_CardinalityType
    <2> QED
      BY <1>3, <2>2, <2>4, <2>5
  <1> QED
    BY <1>2, <1>3

\* Writing a number that is newer than all others keeps the order, and replaces the
\* oldest number once all slots are taken.
THEOREM RingInsert ==
  ASSUME NEW K \in Nat \ {0}, NEW none, none \notin Int,
         NEW r \in [0..(K - 1) -> Int \cup {none}], NEW p \in 0..(K - 1),
         Ordered(r, p, K, none),
         NEW n \in Int, \A x \in Held(r, K, none) : x < n
  PROVE  /\ Ordered([r EXCEPT ![p] = n], (p + 1) % K, K, none)
         /\ (p + 1) % K \in 0..(K - 1)
         /\ Held([r EXCEPT ![p] = n], K, none) = (Held(r, K, none) \cup {n}) \ {r[p]}
         /\ Held([r EXCEPT ![p] = n], K, none)
              = (Held(r, K, none) \ Oldest(Held(r, K, none), K)) \cup {n}
         /\ n \in Held([r EXCEPT ![p] = n], K, none)
  <1> DEFINE H == Held(r, K, none)
             r2 == [r EXCEPT ![p] = n]
             p2 == (p + 1) % K
  <1>1. p2 = (IF p + 1 = K THEN 0 ELSE p + 1) /\ p2 \in 0..(K - 1)
    BY NextPosition
  <1>2. /\ r2 \in [0..(K - 1) -> Int \cup {none}]
        /\ r2[p] = n
        /\ \A i \in 0..(K - 1) : i # p => r2[i] = r[i]
    OBVIOUS
  <1>3. \A i \in 0..(K - 1) : r[i] # none => r[i] \in Int /\ r[i] \in H /\ r[i] < n
    BY DEF Held
  <1>4. n # none
    OBVIOUS
  <1> HIDE DEF r2, p2
  <1>5. \A i, j \in 0..(K - 1) : i # p /\ j # p =>
          (Age(i, p2, K) < Age(j, p2, K) <=> Age(i, p, K) < Age(j, p, K))
    BY <1>1 DEF Age
  <1>6. \A j \in 0..(K - 1) : ~(Age(p, p2, K) < Age(j, p2, K))
    BY <1>1 DEF Age
  <1>7. Ordered(r2, p2, K, none)
    <2> SUFFICES ASSUME NEW i \in 0..(K - 1), NEW j \in 0..(K - 1),
                        Age(i, p2, K) < Age(j, p2, K), r2[i] # none
                 PROVE  r2[j] # none /\ r2[i] < r2[j]
      BY DEF Ordered
    <2>1. i # p
      BY <1>6
    <2>2. CASE j = p
      BY <1>2, <1>3, <1>4, <2>1, <2>2
    <2>3. CASE j # p
      BY <1>2, <1>5, <2>1, <2>3 DEF Ordered
    <2> QED
      BY <2>2, <2>3
  <1>8. n \in Held(r2, K, none)
    BY <1>2, <1>4 DEF Held
  <1>9. \A i \in 0..(K - 1) : i # p /\ r[i] # none => r[i] # r[p]
    <2>1. \A i \in 0..(K - 1) : i # p => Age(p, p, K) < Age(i, p, K)
      BY DEF Age
    <2> QED
      BY <1>3, <2>1 DEF Ordered
  <1>10. Held(r2, K, none) = (H \cup {n}) \ {r[p]}
    <2>1. ASSUME NEW x \in Held(r2, K, none)
          PROVE  x \in (H \cup {n}) \ {r[p]}
      <3>1. PICK i \in 0..(K - 1) : x = r2[i] /\ x # none
        BY DEF Held
      <3>2. CASE i = p
        <4>1. n # r[p]
          BY <1>3, <1>4
        <4> QED
          BY <1>2, <3>1, <3>2, <4>1
      <3>3. CASE i # p
        BY <1>2, <1>3, <1>9, <3>1, <3>3
      <3> QED
        BY <3>2, <3>3
    <2>2. ASSUME NEW x \in (H \cup {n}) \ {r[p]}
          PROVE  x \in Held(r2, K, none)
      <3>1. CASE x = n
        BY <1>8, <3>1
      <3>2. CASE x # n
        <4>1. PICK i \in 0..(K - 1) : x = r[i] /\ x # none
          BY <3>2 DEF Held
        <4>2. i # p
          BY <4>1
        <4> QED
          BY <1>2, <4>1, <4>2 DEF Held
      <3> QED
        BY <3>1, <3>2
    <2> QED
      BY <2>1, <2>2
  <1>11. Oldest(H, K) = H \cap {r[p]}
    <2>1. Cardinality(H) >= K <=> r[p] # none
      BY FullRing
    <2>2. \A x \in H : \E i \in 0..(K - 1) : x = r[i] /\ x # none
      BY DEF Held
    <2>3. CASE r[p] # none
      <3>1. r[p] \in H
        BY <1>3, <2>3
      <3>2. \A x \in H : x \in Int /\ r[p] <= x
        <4>1. \A i \in 0..(K - 1) : i # p => Age(p, p, K) < Age(i, p, K)
          BY DEF Age
        <4> QED
          BY <1>3, <2>2, <2>3, <4>1 DEF Ordered
      <3>3. \A x \in H : (\A m \in H : x <= m) <=> x = r[p]
        BY <3>1, <3>2
      <3> QED
        BY <2>1, <2>3, <3>1, <3>3, Zenon DEF Oldest
    <2>4. CASE r[p] = none
      <3>1. none \notin H
        BY <2>2
      <3> QED
        BY <2>1, <2>4, <3>1, Zenon DEF Oldest
    <2> QED
      BY <2>3, <2>4
  <1>12. n # r[p]
    BY <1>3, <1>4
  <1>13. Held(r2, K, none) = (H \ Oldest(H, K)) \cup {n}
    BY <1>10, <1>11, <1>12, Zenon
  <1> QED
    BY <1>1, <1>7, <1>8, <1>10, <1>13, Zenon DEF r2, p2
=============================================================================
