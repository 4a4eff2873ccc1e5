------------------------ MODULE BridgeGrandpa_proofs ------------------------
(***************************************************************************)
(* What the GRANDPA light client guarantees for every chain of finalized   *)
(* headers, every size of the ring buffer and every limit on requests.     *)
(***************************************************************************)
EXTENDS BridgeGrandpa, FiniteSetTheorems, TLAPS

-----------------------------------------------------------------------------
(* Authority sets of the bridged chain.                                    *)

\* The headers whose change applies to header n.
Appointing(n) == {m \in Headers : AppliesTo(m, n)}

\* The set that a set of changes has led to.
SetOf(S) ==
  [authorities |-> CHOOSE m \in S \cup {0} : \A k \in S : k <= m,
   set_id |-> Cardinality(S)]

\* The set in charge at a header is a function of the changes that apply to it
\* alone.
LEMMA AuthoritySetDefinition ==
  \A n : AuthoritySetAt(n) = SetOf(Appointing(n))
  BY Zenon DEF AuthoritySetAt, SetOf, Appointing

\* A nonempty set of headers has a last one.
LEMMA GreatestNumber ==
  ASSUME NEW n \in Nat, NEW S \in SUBSET (1..n), S # {}
  PROVE  \E m \in S : \A k \in S : k <= m
  <1> DEFINE T == {n - k : k \in S}
  <1>1. T \subseteq Nat
    OBVIOUS
  <1>0. T # {}
    BY Zenon
  <1> HIDE DEF T
  <1>2. PICK x \in T : \A y \in T : ~ (<<y, x>> \in OpToRel(<, Nat))
    BY <1>0, <1>1, WFMin, NatLessThanWellFounded
  <1>3. \A y \in T : ~ (y < x)
    BY <1>1, <1>2, Zenon DEF OpToRel
  <1>4. PICK m \in S : x = n - m
    BY DEF T
  <1>5. \A k \in S : k <= m
    <2>1. \A k \in S : n - k \in T /\ k \in Int
      BY DEF T
    <2> QED
      BY <1>3, <1>4, <2>1
  <1> QED
    BY <1>5, Zenon

\* A set is named after the last header that changed it, and its id counts them.
LEMMA SetOfProperties ==
  ASSUME NEW n \in Nat, NEW S \in SUBSET (1..n)
  PROVE  /\ SetOf(S).authorities \in S \cup {0}
         /\ \A k \in S : k <= SetOf(S).authorities
         /\ SetOf(S).set_id \in Nat
         /\ SetOf(S) = [authorities |-> SetOf(S).authorities, set_id |-> SetOf(S).set_id]
         /\ SetOf(S).set_id = Cardinality(S)
         /\ IsFiniteSet(S)
  <1>1. IsFiniteSet(S) /\ Cardinality(S) \in Nat
    <2>1. IsFiniteSet(1..n)
      BY FS_Interval
    <2>2. IsFiniteSet(S)
      BY <2>1, FS_Subset, Zenon
    <2> QED
      BY <2>2, FS_CardinalityType
  <1>2. \E m \in S \cup {0} : \A k \in S : k <= m
    BY GreatestNumber, Zenon
  <1>3. LET a == CHOOSE m \in S \cup {0} : \A k \in S : k <= m
        IN  a \in S \cup {0} /\ \A k \in S : k <= a
    BY <1>2, Zenon
  <1> QED
    BY <1>1, <1>3 DEF SetOf

\* One more change, by a later header, leads to a new set with the next id.
LEMMA SetOfNewChange ==
  ASSUME NEW n \in Nat, NEW S \in SUBSET (1..n), NEW m \in Nat, m > n
  PROVE  SetOf(S \cup {m}) = [authorities |-> m, set_id |-> SetOf(S).set_id + 1]
  <1>1. S \cup {m} \in SUBSET (1..m) /\ m \notin S
    OBVIOUS
  <1>2. /\ SetOf(S \cup {m}).authorities \in S \cup {m} \cup {0}
        /\ \A k \in S \cup {m} : k <= SetOf(S \cup {m}).authorities
        /\ SetOf(S \cup {m}) = [authorities |-> SetOf(S \cup {m}).authorities,
                                set_id |-> SetOf(S \cup {m}).set_id]
        /\ SetOf(S \cup {m}).set_id = Cardinality(S \cup {m})
    BY <1>1, SetOfProperties, Zenon
  <1>3. SetOf(S \cup {m}).authorities = m
    BY <1>1, <1>2
  <1>4. IsFiniteSet(S) /\ SetOf(S).set_id = Cardinality(S)
    BY SetOfProperties
  <1>5. Cardinality(S \cup {m}) = Cardinality(S) + 1
    BY <1>1, <1>4, FS_AddElement
  <1> QED
    BY <1>2, <1>3, <1>4, <1>5

-----------------------------------------------------------------------------
(* The relay chain: the inductive invariant.                               *)

\* The runtime of the bridged chain signals no change while one is pending.
ChainInv ==
  /\ Len(chain) <= MaxNumber
  /\ \A m \in 1..(Len(chain) - 1) : chain[m] = "Delayed" => chain[m + 1] = "None"

\* Headers are imported in ascending order and the last one is the best.
ImportedInOrder ==
  /\ best_finalized = None <=> imported = <<>>
  /\ imported # <<>> => best_finalized = imported[Len(imported)]
  /\ \A i, j \in 1..Len(imported) : i < j => imported[i] < imported[j]

\* The place in the history of the header that slot i of the ring buffer holds.
\* The slots before the pointer were written in the current round, the others in
\* the one before.
SlotIndex(i) ==
  Len(imported) - imported_hashes_pointer + 1 + i
    - (IF i < imported_hashes_pointer THEN 0 ELSE HeadersToKeep)

RingInv ==
  /\ imported_hashes_pointer <= Len(imported)
  /\ \A i \in 0..(HeadersToKeep - 1) :
       imported_hashes[i] = IF SlotIndex(i) >= 1 THEN imported[SlotIndex(i)] ELSE None
  /\ imported_headers = Window(imported)

\* The pallet's authority set was appointed by a header that it has imported, or
\* by one before its first header.
AuthoritiesInv ==
  best_finalized # None =>
    /\ chain[imported[1]] # "Delayed"
    /\ current_authority_set.authorities <= best_finalized
    /\ current_authority_set.authorities > imported[1]
         => chain[current_authority_set.authorities] = "Scheduled"

\* No header with an unsupported change was ever imported after the first header,
\* nor one that such a change applies to.
NeverUnsupported ==
  \A m \in Headers :
    /\ best_finalized # None
    /\ chain[m] \in Unsupported
    /\ imported[1] < m
    => /\ \A i \in 1..Len(imported) : imported[i] # m
       /\ ~AppliesTo(m, best_finalized)

IInv ==
  /\ TypeOK
  /\ ChainInv
  /\ ImportedInOrder
  /\ RingInv
  /\ AuthoritiesInv
  /\ NeverUnsupported
  /\ NoMandatoryHeaderSkipped
  /\ AuthoritySetFollowsChain

-----------------------------------------------------------------------------
(* The ring buffer.                                                        *)

\* The pointer wraps around.
LEMMA NextSlot ==
  ASSUME NEW k \in Nat \ {0}, NEW a \in 0..(k - 1)
  PROVE  (a + 1) % k = IF a + 1 = k THEN 0 ELSE a + 1
  OBVIOUS

\* What the window of a history holds.
LEMMA WindowMembers ==
  \A s, x : x \in Window(s) <=> \E i \in 1..Len(s) : i > Len(s) - HeadersToKeep /\ x = s[i]
  BY Zenon DEF Window

\* insert_header writes the slot of the pointer, which holds the oldest header once
\* the buffer is full, and moves the pointer on.
LEMMA InsertHeaderKeepsRing ==
  ASSUME TypeOK, ImportedInOrder, RingInv,
         NEW number \in Headers,
         best_finalized # None => best_finalized < number,
         InsertHeader(number)
  PROVE  /\ ImportedInOrder'
         /\ RingInv'
         /\ imported_hashes_pointer' \in 0..(HeadersToKeep - 1)
         /\ imported_hashes' \in [0..(HeadersToKeep - 1) -> Headers \cup {None}]
         /\ imported_headers' \subseteq Headers
         /\ imported' \in Seq(Headers)
         /\ best_finalized' = number
         /\ Len(imported') = Len(imported) + 1
         /\ imported'[Len(imported) + 1] = number
         /\ \A i \in 1..Len(imported) : imported'[i] = imported[i] /\ imported[i] < number
  <1> DEFINE p == imported_hashes_pointer
             L == Len(imported)
             K == HeadersToKeep
  <1>1. /\ imported \in Seq(Headers) /\ L \in Nat
        /\ Len(chain) \in Nat
        /\ K \in Nat \ {0}
        /\ p \in 0..(K - 1) /\ p <= L
        /\ None \notin Int
        /\ number \in Nat
        /\ imported_hashes \in [0..(K - 1) -> Headers \cup {None}]
    BY GrandpaAssumption DEF TypeOK, RingInv, Headers
  <1>2. /\ imported' = Append(imported, number)
        /\ imported' \in Seq(Headers)
        /\ Len(imported') = L + 1
        /\ imported'[L + 1] = number
        /\ \A i \in 1..L : imported'[i] = imported[i]
    BY <1>1 DEF InsertHeader
  <1>3. \A i \in 1..L : imported[i] \in Headers /\ imported[i] \in Nat /\ imported[i] < number
    <2> SUFFICES ASSUME NEW i \in 1..L
                 PROVE  imported[i] \in Headers /\ imported[i] \in Nat /\ imported[i] < number
      OBVIOUS
    <2>1. imported[i] \in Headers /\ imported[i] \in Nat /\ imported[L] \in Nat
      <3>1. imported[i] \in Headers /\ imported[L] \in Headers
        BY <1>1
      <3> QED
        BY <3>1 DEF Headers
    <2>2. best_finalized = imported[L] /\ best_finalized # None
      BY <1>1 DEF ImportedInOrder
    <2>3. imported[i] <= imported[L]
      BY <1>1, <2>1 DEF ImportedInOrder
    <2> QED
      BY <1>1, <2>1, <2>2, <2>3
  <1>4. imported_hashes_pointer' = IF p + 1 = K THEN 0 ELSE p + 1
    <2>1. imported_hashes_pointer' = (p + 1) % K
      BY DEF InsertHeader
    <2> QED
      BY <1>1, <2>1, NextSlot, Zenon
  <1>5. /\ best_finalized' = number
        /\ imported_hashes' = [imported_hashes EXCEPT ![p] = number]
        /\ imported_headers' = (imported_headers \cup {number}) \ {imported_hashes[p]}
    BY DEF InsertHeader
  <1>6. ImportedInOrder'
    <2>1. imported' # <<>>
      BY <1>2
    <2>2. best_finalized' # None
      BY <1>1, <1>5
    <2>3. \A i, j \in 1..(L + 1) : i < j => imported'[i] < imported'[j]
      <3> SUFFICES ASSUME NEW i \in 1..(L + 1), NEW j \in 1..(L + 1), i < j
                   PROVE  imported'[i] < imported'[j]
        OBVIOUS
      <3>1. CASE j = L + 1
        BY <1>1, <1>2, <1>3, <3>1
      <3>2. CASE j \in 1..L
        BY <1>1, <1>2, <3>2 DEF ImportedInOrder
      <3> QED
        BY <1>1, <3>1, <3>2, SMTT(30)
    <2> QED
      BY <1>1, <1>2, <1>5, <2>1, <2>2, <2>3 DEF ImportedInOrder
  <1>7. \A i \in 0..(K - 1) :
          imported_hashes'[i] = IF SlotIndex(i)' >= 1 THEN imported'[SlotIndex(i)'] ELSE None
    <2> SUFFICES ASSUME NEW i \in 0..(K - 1)
                 PROVE  imported_hashes'[i] = IF SlotIndex(i)' >= 1 THEN imported'[SlotIndex(i)'] ELSE None
      OBVIOUS
    <2>1. SlotIndex(i) = L - p + 1 + i - (IF i < p THEN 0 ELSE K)
      BY DEF SlotIndex
    <2>2. SlotIndex(i)' = L + 1 - imported_hashes_pointer' + 1 + i
                            - (IF i < imported_hashes_pointer' THEN 0 ELSE K)
      BY <1>1, <1>2, <1>4 DEF SlotIndex
    <2>3. CASE i = p
      <3>1. SlotIndex(i)' = L + 1
        BY <1>1, <1>4, <2>2, <2>3, SMTT(30)
      <3> QED
        BY <1>1, <1>2, <1>5, <2>3, <3>1
    <2>4. CASE i # p
      <3>1. SlotIndex(i)' = SlotIndex(i) /\ SlotIndex(i) \in Int /\ SlotIndex(i) <= L
        BY <1>1, <1>4, <2>1, <2>2, <2>4, SMTT(30)
      <3>2. imported_hashes[i] = IF SlotIndex(i) >= 1 THEN imported[SlotIndex(i)] ELSE None
        BY DEF RingInv
      <3>3. imported_hashes'[i] = imported_hashes[i]
        BY <1>1, <1>5, <2>4
      <3>4. SlotIndex(i) >= 1 => imported'[SlotIndex(i)] = imported[SlotIndex(i)]
        BY <1>1, <1>2, <3>1
      <3> QED
        BY <3>1, <3>2, <3>3, <3>4
    <2> QED
      BY <2>3, <2>4
  <1>8. imported_hashes[p] = IF L - K + 1 >= 1 THEN imported[L - K + 1] ELSE None
    <2>1. SlotIndex(p) = L - K + 1
      BY <1>1 DEF SlotIndex
    <2> QED
      BY <1>1, <2>1 DEF RingInv
  <1>9. imported_headers' = Window(imported')
    <2>1. \A x : x \in imported_headers <=> \E i \in 1..L : i > L - K /\ x = imported[i]
      <3>1. imported_headers = Window(imported)
        BY DEF RingInv
      <3>2. \A x : x \in Window(imported) <=> \E i \in 1..Len(imported) : i > Len(imported) - K /\ x = imported[i]
        BY WindowMembers, Zenon
      <3> QED
        BY <3>1, <3>2, Zenon
    <2>2. \A x : x \in Window(imported') <=> \E i \in 1..(L + 1) : i > (L + 1) - K /\ x = imported'[i]
      <3>1. \A x : x \in Window(imported') <=> \E i \in 1..Len(imported') : i > Len(imported') - K /\ x = imported'[i]
        BY WindowMembers, Zenon
      <3>2. Len(imported') = L + 1
        BY <1>2
      <3> QED
        BY <3>1, <3>2, Zenon
    <2>3. ASSUME NEW x \in imported_headers'
          PROVE  x \in Window(imported')
      <3>1. CASE x = number
        BY <1>1, <1>2, <2>2, <3>1, SMTT(30)
      <3>2. CASE x # number
        <4>1. PICK i \in 1..L : i > L - K /\ x = imported[i]
          BY <1>5, <2>1, <2>3, <3>2
        <4>2. i # L - K + 1
          BY <1>1, <1>5, <1>8, <2>3, <4>1
        <4>3. i \in 1..(L + 1) /\ i > (L + 1) - K
          BY <1>1, <4>1, <4>2
        <4>4. x = imported'[i]
          BY <1>2, <4>1
        <4> QED
          BY <2>2, <4>3, <4>4, Zenon
      <3> QED
        BY <3>1, <3>2
    <2>4. ASSUME NEW x \in Window(imported')
          PROVE  x \in imported_headers'
      <3>1. PICK i \in 1..(L + 1) : i > (L + 1) - K /\ x = imported'[i]
        BY <2>2, <2>4
      <3>2. x # imported_hashes[p]
        <4>1. CASE i = L + 1
          BY <1>1, <1>2, <1>3, <1>8, <3>1, <4>1, SMTT(30)
        <4>2. CASE i \in 1..L
          <5>1. x = imported[i] /\ x \in Nat
            BY <1>2, <1>3, <3>1, <4>2
          <5>2. L - K + 1 >= 1 => imported[L - K + 1] < imported[i] /\ imported[L - K + 1] \in Nat
            BY <1>1, <1>3, <3>1, <4>2 DEF ImportedInOrder
          <5> QED
            BY <1>1, <1>8, <5>1, <5>2
        <4> QED
          BY <1>1, <4>1, <4>2
      <3>3. x \in imported_headers \cup {number}
        BY <1>1, <1>2, <2>1, <3>1
      <3> QED
        BY <1>5, <3>2, <3>3
    <2> QED
      BY <2>3, <2>4
  <1>10. RingInv'
    <2>1. imported_hashes_pointer' <= Len(imported')
      BY <1>1, <1>2, <1>4
    <2> QED
      BY <1>7, <1>9, <2>1 DEF RingInv
  <1>11. /\ imported_hashes_pointer' \in 0..(K - 1)
         /\ imported_hashes' \in [0..(K - 1) -> Headers \cup {None}]
         /\ imported_headers' \subseteq Headers
    <2>1. imported_hashes_pointer' \in 0..(K - 1)
      BY <1>1, <1>4
    <2>2. imported_hashes' \in [0..(K - 1) -> Headers \cup {None}]
      BY <1>1, <1>5
    <2>3. imported_headers' \subseteq Headers
      BY <1>5 DEF TypeOK
    <2> QED
      BY <2>1, <2>2, <2>3
  <1> QED
    BY <1>2, <1>3, <1>5, <1>6, <1>10, <1>11

\* The slots of the ring buffer hold the last headers, and nothing else.
LEMMA RingHoldsWindow ==
  ASSUME TypeOK, RingInv
  PROVE  Window(imported) = {imported_hashes[i] : i \in 0..(HeadersToKeep - 1)} \ {None}
  <1> DEFINE p == imported_hashes_pointer
             L == Len(imported)
             K == HeadersToKeep
  <1>1. /\ imported \in Seq(Headers) /\ L \in Nat /\ Len(chain) \in Nat
        /\ K \in Nat \ {0}
        /\ p \in 0..(K - 1) /\ p <= L
        /\ None \notin Int
    BY GrandpaAssumption DEF TypeOK, RingInv
  <1>2. \A x : x \in Window(imported) <=> \E i \in 1..L : i > L - K /\ x = imported[i]
    BY WindowMembers
  <1>3. ASSUME NEW x \in Window(imported)
        PROVE  x \in {imported_hashes[i] : i \in 0..(K - 1)} \ {None}
    <2>1. PICK j \in 1..L : j > L - K /\ x = imported[j]
      BY <1>2, <1>3
    <2>2. x \in Int
      BY <1>1, <2>1 DEF Headers
    <2>3. \E i \in 0..(K - 1) : SlotIndex(i) = j
      <3>1. CASE j > L - p
        <4>1. j - (L - p + 1) \in 0..(K - 1) /\ SlotIndex(j - (L - p + 1)) = j
          BY <1>1, <3>1 DEF SlotIndex
        <4> QED
          BY <4>1
      <3>2. CASE j <= L - p
        <4>1. j - (L - p + 1) + K \in 0..(K - 1) /\ SlotIndex(j - (L - p + 1) + K) = j
          BY <1>1, <2>1, <3>2 DEF SlotIndex
        <4> QED
          BY <4>1
      <3> QED
        BY <1>1, <3>1, <3>2
    <2>4. PICK i \in 0..(K - 1) : SlotIndex(i) = j
      BY <2>3
    <2>5. imported_hashes[i] = x
      BY <2>1, <2>4 DEF RingInv
    <2> QED
      BY <1>1, <2>2, <2>4, <2>5
  <1>4. ASSUME NEW i \in 0..(K - 1), imported_hashes[i] # None
        PROVE  imported_hashes[i] \in Window(imported)
    <2>1. SlotIndex(i) >= 1 /\ imported_hashes[i] = imported[SlotIndex(i)]
      BY <1>4 DEF RingInv
    <2>2. SlotIndex(i) \in 1..L /\ SlotIndex(i) > L - K
      BY <1>1, <2>1 DEF SlotIndex
    <2> QED
      BY <1>2, <2>1, <2>2
  <1> QED
    BY <1>3, <1>4

-----------------------------------------------------------------------------
(* The authority sets that the pallet follows.                             *)

\* Only headers before header n appoint its authorities.
LEMMA AppointingRange ==
  ASSUME TypeOK, NEW n \in Nat \ {0}
  PROVE  /\ Appointing(n) \in SUBSET (1..(n - 1))
         /\ AuthoritySetAt(n).authorities \in Nat
         /\ AuthoritySetAt(n).authorities < n
         /\ AuthoritySetAt(n).set_id \in Nat
         /\ \A k \in Appointing(n) : k <= AuthoritySetAt(n).authorities
         /\ AuthoritySetAt(n).authorities \in Appointing(n) \cup {0}
         /\ AuthoritySetAt(n) = [authorities |-> AuthoritySetAt(n).authorities,
                                 set_id |-> AuthoritySetAt(n).set_id]
  <1>1. Len(chain) \in Nat
    BY DEF TypeOK
  <1>2. Appointing(n) \in SUBSET (1..(n - 1))
    BY <1>1 DEF Appointing, AppliesTo, Headers
  <1>3. n - 1 \in Nat
    OBVIOUS
  <1>4. AuthoritySetAt(n) = SetOf(Appointing(n))
    BY AuthoritySetDefinition
  <1>5. /\ SetOf(Appointing(n)).authorities \in Appointing(n) \cup {0}
        /\ \A k \in Appointing(n) : k <= SetOf(Appointing(n)).authorities
        /\ SetOf(Appointing(n)).set_id \in Nat
        /\ SetOf(Appointing(n)) = [authorities |-> SetOf(Appointing(n)).authorities,
                                   set_id |-> SetOf(Appointing(n)).set_id]
    BY <1>2, <1>3, SetOfProperties, Zenon
  <1>6. SetOf(Appointing(n)).authorities \in Nat /\ SetOf(Appointing(n)).authorities < n
    BY <1>2, <1>5
  <1> QED
    BY <1>2, <1>4, <1>5, <1>6

\* From header n to the next one, unless a delayed change comes due, the set changes
\* if header n has a change without delay.
LEMMA NextAuthoritySet ==
  ASSUME TypeOK, NEW n \in Headers, n > 1 => chain[n - 1] # "Delayed"
  PROVE  AuthoritySetAt(n + 1) = IF chain[n] \in {"None", "Delayed"}
                                 THEN AuthoritySetAt(n)
                                 ELSE [authorities |-> n, set_id |-> AuthoritySetAt(n).set_id + 1]
  <1>1. Len(chain) \in Nat /\ n \in Nat \ {0} /\ n - 1 \in Nat
    BY DEF TypeOK, Headers
  <1>2. Appointing(n) \in SUBSET (1..(n - 1))
    BY <1>1, AppointingRange
  <1>3. Appointing(n + 1) = IF chain[n] \in {"None", "Delayed"} THEN Appointing(n) ELSE Appointing(n) \cup {n}
    <2>1. ASSUME NEW m \in Headers, m # n
          PROVE  AppliesTo(m, n + 1) <=> AppliesTo(m, n)
      BY <1>1, <2>1 DEF AppliesTo, Headers
    <2>2. AppliesTo(n, n + 1) <=> chain[n] \notin {"None", "Delayed"}
      BY <1>1 DEF AppliesTo
    <2>3. ~AppliesTo(n, n)
      BY <1>1 DEF AppliesTo
    <2> QED
      BY <2>1, <2>2, <2>3 DEF Appointing
  <1>4. AuthoritySetAt(n + 1) = SetOf(Appointing(n + 1)) /\ AuthoritySetAt(n) = SetOf(Appointing(n))
    BY AuthoritySetDefinition
  <1>5. CASE chain[n] \in {"None", "Delayed"}
    BY <1>3, <1>4, <1>5
  <1>6. CASE chain[n] \notin {"None", "Delayed"}
    <2>1. SetOf(Appointing(n) \cup {n}) = [authorities |-> n, set_id |-> SetOf(Appointing(n)).set_id + 1]
      <3>1. n - 1 \in Nat /\ n \in Nat /\ n > n - 1
        BY <1>1
      <3> QED
        BY <1>2, <3>1, SetOfNewChange, Zenon
    <2> QED
      BY <1>3, <1>4, <1>6, <2>1
  <1> QED
    BY <1>5, <1>6

\* Where the pallet stands once it is initialized.
LEMMA BestHeader ==
  ASSUME TypeOK, ImportedInOrder, best_finalized # None
  PROVE  /\ best_finalized \in Headers /\ best_finalized \in Nat \ {0}
         /\ Len(imported) \in Nat \ {0}
         /\ imported[1] \in Headers /\ imported[1] \in Nat \ {0} /\ imported[1] <= best_finalized
         /\ \A i \in 1..Len(imported) : imported[i] \in Headers /\ imported[i] <= best_finalized
         /\ Passed = (imported[1] + 1)..best_finalized
  <1>1. best_finalized \in Headers /\ best_finalized \in Nat \ {0}
    BY DEF TypeOK, Headers
  <1>2. imported # <<>> /\ Len(imported) \in Nat \ {0}
    BY DEF ImportedInOrder, TypeOK
  <1>3. \A i \in 1..Len(imported) : imported[i] \in Headers /\ imported[i] \in Nat \ {0}
    BY SMTT(30) DEF TypeOK, Headers
  <1>4. \A i \in 1..Len(imported) : imported[i] <= best_finalized
    BY <1>1, <1>2, <1>3 DEF ImportedInOrder
  <1> QED
    BY <1>1, <1>2, <1>3, <1>4 DEF Passed

\* What is not about a step of the chain or an import.
LEMMA OtherSteps ==
  ASSUME IInv, UNCHANGED <<chain, current_authority_set, ring>>
  PROVE  /\ ChainInv' /\ ImportedInOrder' /\ RingInv' /\ AuthoritiesInv' /\ NeverUnsupported'
         /\ NoMandatoryHeaderSkipped' /\ AuthoritySetFollowsChain'
  <1>1. ChainInv' /\ ImportedInOrder' /\ AuthoritiesInv'
    BY DEF IInv, ChainInv, ImportedInOrder, AuthoritiesInv, ring
  <1>2. RingInv'
    BY DEF IInv, RingInv, SlotIndex, Window, ring
  <1>3. NeverUnsupported' /\ NoMandatoryHeaderSkipped'
    BY DEF IInv, NeverUnsupported, NoMandatoryHeaderSkipped, Passed, AppliesTo, Headers, ring
  <1>4. AuthoritySetFollowsChain'
    BY DEF IInv, AuthoritySetFollowsChain, Passed, AuthoritySetAt, AppliesTo, Headers, ring
  <1> QED
    BY <1>1, <1>2, <1>3, <1>4

\* A new header of the bridged chain changes nothing behind it.
LEMMA FinalizeHeaderKeepsInvariant ==
  ASSUME IInv, NEW change \in Changes, FinalizeHeader(change)
  PROVE  IInv'
  <1>1. /\ chain \in Seq(AllChanges) /\ Len(chain) \in Nat
        /\ chain' = Append(chain, change) /\ chain' \in Seq(AllChanges)
        /\ Len(chain') = Len(chain) + 1
        /\ chain'[Len(chain) + 1] = change
        /\ \A n \in Headers : chain'[n] = chain[n]
        /\ Len(chain) < MaxNumber
        /\ Headers' = Headers \cup {Len(chain) + 1}
    BY GrandpaAssumption DEF FinalizeHeader, IInv, TypeOK, Headers
  <1>2. UNCHANGED <<owner, mode, request_count, current_authority_set, best_finalized, imported_hashes,
                    imported_hashes_pointer, imported_headers, imported>>
    BY DEF FinalizeHeader, ring
  <1>3. TypeOK'
    <2>1. /\ chain' \in Seq(AllChanges) /\ owner' \in Accounts \cup {None} /\ mode' \in OperatingModes
          /\ request_count' \in 0..MaxRequests /\ best_finalized' \in Headers' \cup {None}
          /\ current_authority_set' \in [authorities : Nat, set_id : Nat]
          /\ imported_hashes_pointer' \in 0..(HeadersToKeep - 1)
          /\ imported_headers' \subseteq Headers'
      BY <1>1, <1>2 DEF IInv, TypeOK
    <2>2. imported_hashes' \in [0..(HeadersToKeep - 1) -> Headers' \cup {None}]
      BY <1>1, <1>2 DEF IInv, TypeOK
    <2>3. imported' \in Seq(Headers')
      <3>1. imported \in Seq(Headers) /\ Headers \subseteq Headers'
        BY <1>1 DEF IInv, TypeOK
      <3>2. imported \in Seq(Headers')
        BY <3>1
      <3> QED
        BY <1>2, <3>2
    <2> QED
      BY <2>1, <2>2, <2>3 DEF TypeOK
  <1>4. ChainInv'
    <2>1. Len(chain') <= MaxNumber
      BY <1>1, GrandpaAssumption
    <2>2. ASSUME NEW m \in 1..Len(chain), chain'[m] = "Delayed"
          PROVE  chain'[m + 1] = "None"
      <3>1. CASE m = Len(chain)
        <4>1. change = "None"
          BY <1>1, <2>2, <3>1 DEF FinalizeHeader, Headers
        <4> QED
          BY <1>1, <3>1, <4>1
      <3>2. CASE m # Len(chain)
        BY <1>1, <2>2, <3>2 DEF IInv, ChainInv, Headers
      <3> QED
        BY <3>1, <3>2
    <2> QED
      BY <1>1, <2>1, <2>2 DEF ChainInv
  <1>5. ImportedInOrder'
    BY <1>2 DEF IInv, ImportedInOrder
  <1>6. RingInv'
    BY <1>2 DEF IInv, RingInv, SlotIndex, Window
  <1>7. CASE best_finalized = None
    BY <1>2, <1>3, <1>4, <1>5, <1>6, <1>7, SMTT(30)
       DEF IInv, AuthoritiesInv, NeverUnsupported, NoMandatoryHeaderSkipped, AuthoritySetFollowsChain, Passed
  <1>8. CASE best_finalized # None
    <2> USE <1>8
    <2>1. /\ best_finalized \in Headers /\ best_finalized \in Nat \ {0}
          /\ Len(imported) \in Nat \ {0}
          /\ imported[1] \in Headers /\ imported[1] \in Nat \ {0} /\ imported[1] <= best_finalized
          /\ \A i \in 1..Len(imported) : imported[i] \in Headers
          /\ Passed = (imported[1] + 1)..best_finalized
      BY BestHeader DEF IInv
    <2>2. Passed' = Passed /\ Passed \subseteq Headers
      BY <1>1, <1>2, <2>1 DEF Passed, Headers
    <2>3. AuthoritiesInv'
      <3>1. current_authority_set.authorities \in Nat
        BY DEF IInv, TypeOK
      <3> QED
        BY <1>1, <1>2, <2>1, <3>1 DEF IInv, AuthoritiesInv, Headers
    <2>4. \A m \in Headers, n \in Nat : AppliesTo(m, n)' <=> AppliesTo(m, n)
      BY <1>1, Zenon DEF AppliesTo
    <2>5. \A m, n \in Nat : m = Len(chain) + 1 /\ n <= m => ~AppliesTo(m, n)'
      BY <1>1 DEF AppliesTo
    <2>6. NeverUnsupported'
      <3> SUFFICES ASSUME NEW m \in Headers', chain'[m] \in Unsupported, imported[1] < m
                   PROVE  /\ \A i \in 1..Len(imported) : imported[i] # m
                          /\ ~AppliesTo(m, best_finalized)'
        BY <1>2 DEF NeverUnsupported
      <3>1. CASE m \in Headers
        <4>1. AppliesTo(m, best_finalized)' <=> AppliesTo(m, best_finalized)
          BY <1>2, <2>1, <2>4, <3>1
        <4> QED
          BY <1>1, <3>1, <4>1, Zenon DEF IInv, NeverUnsupported
      <3>2. CASE m = Len(chain) + 1
        <4>1. ~AppliesTo(m, best_finalized)'
          BY <1>1, <1>2, <2>1, <2>5, <3>2 DEF Headers
        <4> QED
          BY <1>1, <2>1, <3>2, <4>1, SMTT(30) DEF Headers
      <3> QED
        BY <1>1, <3>1, <3>2
    <2>7. NoMandatoryHeaderSkipped'
      BY <1>1, <1>2, <2>2, Zenon DEF IInv, NoMandatoryHeaderSkipped
    <2>8. AuthoritySetFollowsChain'
      <3>0. \A n \in Nat : n <= Len(chain) + 1 => Appointing(n)' = Appointing(n)
        <4> SUFFICES ASSUME NEW n \in Nat, n <= Len(chain) + 1
                     PROVE  Appointing(n)' = Appointing(n)
          OBVIOUS
        <4>1. \A m \in Headers : AppliesTo(m, n)' <=> AppliesTo(m, n)
          BY <2>4
        <4>2. \A m : m = Len(chain) + 1 => ~AppliesTo(m, n)'
          BY <1>1, <2>5
        <4>3. Appointing(n)' = {m \in Headers \cup {Len(chain) + 1} : AppliesTo(m, n)'}
          BY <1>1 DEF Appointing
        <4>4. Appointing(n) = {m \in Headers : AppliesTo(m, n)}
          BY DEF Appointing
        <4>5. Appointing(n)' \subseteq Appointing(n)
          BY <4>1, <4>2, <4>3, <4>4, Zenon
        <4>6. Appointing(n) \subseteq Appointing(n)'
          BY <4>1, <4>3, <4>4, Zenon
        <4> QED
          BY <4>5, <4>6, Zenon
      <3>1. Appointing(best_finalized + 1)' = Appointing(best_finalized + 1)
        BY <1>1, <1>2, <2>1, <3>0 DEF Headers
      <3>2. AuthoritySetAt(best_finalized + 1)' = SetOf(Appointing(best_finalized + 1)')
        BY <1>2, Zenon DEF AuthoritySetAt, SetOf, Appointing
      <3>3. AuthoritySetAt(best_finalized + 1)' = AuthoritySetAt(best_finalized + 1)
        BY <3>1, <3>2, AuthoritySetDefinition
      <3> QED
        BY <1>1, <1>2, <2>2, <3>3, Zenon DEF IInv, AuthoritySetFollowsChain
    <2> QED
      BY <1>3, <1>4, <1>5, <1>6, <2>3, <2>6, <2>7, <2>8, SMTT(30) DEF IInv
  <1> QED
    BY <1>7, <1>8

\* What prepare_initialization_data finds at a header, if it can guess the id of the
\* set, is the set that finalizes the next header.
LEMMA InitializationDataFollowsChain ==
  ASSUME TypeOK, ChainInv, NEW n \in Headers, CanGuessSetId(n)
  PROVE  InitializationData(n) = AuthoritySetAt(n + 1) /\ chain[n] # "Delayed"
  <1>1. /\ Len(chain) \in Nat /\ n \in Nat \ {0} /\ n <= Len(chain)
        /\ n + 1 \in Nat \ {0} /\ (n - 1) + 1 = n
        /\ chain[n] \in AllChanges
    BY DEF TypeOK, Headers
  <1>2. chain[n] # "Delayed"
    BY DEF CanGuessSetId
  <1>3. n > 1 => chain[n - 1] # "Delayed"
    <2> SUFFICES ASSUME n > 1, chain[n - 1] = "Delayed"
                 PROVE  FALSE
      OBVIOUS
    <2>1. chain[n] = "None"
      <3>1. n - 1 \in 1..(Len(chain) - 1)
        BY <1>1
      <3> QED
        BY <1>1, <3>1 DEF ChainInv
    <2>2. AuthoritySetAt(n + 1).authorities = AuthoritySetAt(n).authorities
      BY <2>1 DEF CanGuessSetId, SchedulesChange, SourceAuthorities
    <2>3. n - 1 \in Appointing(n + 1) /\ n - 1 \notin Appointing(n)
      BY <1>1 DEF Appointing, AppliesTo, Headers
    <2>4. n - 1 <= AuthoritySetAt(n + 1).authorities
      BY <1>1, <2>3, AppointingRange
    <2>5. /\ AuthoritySetAt(n).authorities \in Nat
          /\ AuthoritySetAt(n).authorities < n
          /\ AuthoritySetAt(n).authorities \in Appointing(n) \cup {0}
      BY <1>1, AppointingRange
    <2> QED
      BY <1>1, <2>2, <2>3, <2>4, <2>5
  <1>4. AuthoritySetAt(n + 1) = IF chain[n] = "None"
                                THEN AuthoritySetAt(n)
                                ELSE [authorities |-> n, set_id |-> AuthoritySetAt(n).set_id + 1]
    BY <1>2, <1>3, NextAuthoritySet
  <1>5. chain[n] # "Forced"
    <2>1. AuthoritySetAt(n).authorities < n
      BY <1>1, AppointingRange
    <2> QED
      BY <1>1, <1>4, <2>1 DEF CanGuessSetId, SchedulesChange, SourceAuthorities
  <1>6. /\ AuthoritySetAt(n).set_id \in Nat
        /\ AuthoritySetAt(n) = [authorities |-> AuthoritySetAt(n).authorities,
                                set_id |-> AuthoritySetAt(n).set_id]
    BY <1>1, AppointingRange
  <1>7. CASE chain[n] = "None"
    BY <1>2, <1>4, <1>6, <1>7 DEF InitializationData, SourceAuthorities, SchedulesChange
  <1>8. CASE chain[n] \in {"Scheduled", "TooManyAuthorities"}
    BY <1>2, <1>4, <1>6, <1>8 DEF InitializationData, SourceAuthorities, SchedulesChange
  <1> QED
    BY <1>1, <1>2, <1>5, <1>7, <1>8 DEF AllChanges

\* initialize stores the set that finalizes the next header.
LEMMA InitializeKeepsInvariant ==
  ASSUME IInv, NEW origin \in Origins, NEW number \in Headers, NEW m \in OperatingModes,
         Initialize(origin, number, m)
  PROVE  IInv'
  <1>1. /\ best_finalized = None /\ imported = <<>> /\ Len(imported) = 0
        /\ InsertHeader(number)
        /\ UNCHANGED <<chain, owner, request_count>> /\ mode' = m
        /\ Len(chain) \in Nat /\ number \in Nat \ {0}
        /\ chain \in Seq(AllChanges) /\ owner \in Accounts \cup {None} /\ request_count \in 0..MaxRequests
    BY DEF Initialize, IInv, ImportedInOrder, TypeOK, Headers
  <1>2. current_authority_set' = AuthoritySetAt(number + 1) /\ chain[number] # "Delayed"
    <2>1. current_authority_set' = InitializationData(number) /\ CanGuessSetId(number)
      BY DEF Initialize
    <2> QED
      BY <2>1, InitializationDataFollowsChain DEF IInv
  <1>3. /\ ImportedInOrder' /\ RingInv'
        /\ imported_hashes_pointer' \in 0..(HeadersToKeep - 1)
        /\ imported_hashes' \in [0..(HeadersToKeep - 1) -> Headers \cup {None}]
        /\ imported_headers' \subseteq Headers
        /\ imported' \in Seq(Headers)
        /\ best_finalized' = number
        /\ Len(imported') = 1
        /\ imported'[1] = number
    BY <1>1, InsertHeaderKeepsRing DEF IInv
  <1>4. /\ AuthoritySetAt(number + 1).authorities \in Nat
        /\ AuthoritySetAt(number + 1).authorities < number + 1
        /\ AuthoritySetAt(number + 1).set_id \in Nat
        /\ AuthoritySetAt(number + 1) = [authorities |-> AuthoritySetAt(number + 1).authorities,
                                         set_id |-> AuthoritySetAt(number + 1).set_id]
    <2>1. number + 1 \in Nat \ {0}
      BY <1>1
    <2> QED
      BY <2>1, AppointingRange DEF IInv
  <1>5. TypeOK'
    <2>1. current_authority_set' \in [authorities : Nat, set_id : Nat]
      BY <1>2, <1>4
    <2> QED
      BY <1>1, <1>3, <2>1 DEF TypeOK, Headers
  <1>6. ChainInv'
    BY <1>1 DEF IInv, ChainInv
  <1>7. AuthoritiesInv'
    BY <1>1, <1>2, <1>3, <1>4 DEF AuthoritiesInv
  <1>8. NeverUnsupported'
    BY <1>1, <1>3 DEF NeverUnsupported, AppliesTo, Headers
  <1>9. Passed' = {}
    BY <1>1, <1>3 DEF Passed
  <1>10. NoMandatoryHeaderSkipped'
    BY <1>9 DEF NoMandatoryHeaderSkipped
  <1>11. AuthoritySetFollowsChain'
    <2>1. AuthoritySetAt(best_finalized + 1)' = AuthoritySetAt(number + 1)
      BY <1>1, <1>3 DEF AuthoritySetAt, AppliesTo, Headers
    <2> QED
      BY <1>2, <2>1 DEF AuthoritySetFollowsChain
  <1> QED
    BY <1>3, <1>5, <1>6, <1>7, <1>8, <1>10, <1>11, SMTT(30) DEF IInv

\* The pallet accepts a header only from the set that it knows, so that no change of
\* authorities lies between its best header and that one.
LEMMA SubmitKeepsInvariant ==
  ASSUME IInv, NEW number \in Headers, SubmitFinalityProof(number)
  PROVE  IInv'
  <1> DEFINE b == best_finalized
             a == current_authority_set.authorities
             first == imported[1]
  <1>1. /\ b # None /\ b < number
        /\ current_authority_set = AuthoritySetAt(number)
        /\ chain[number] \notin Unsupported
        /\ current_authority_set' = EnactAuthorityChange(number)
        /\ request_count < MaxRequests /\ request_count' = request_count + 1
        /\ InsertHeader(number)
        /\ UNCHANGED <<chain, owner, mode>>
    BY DEF SubmitFinalityProof, NotObsolete, VerifyJustification
  <1>2. /\ b \in Headers /\ b \in Nat \ {0}
        /\ Len(imported) \in Nat \ {0}
        /\ first \in Headers /\ first \in Nat \ {0} /\ first <= b
        /\ \A i \in 1..Len(imported) : imported[i] \in Headers /\ imported[i] <= b
        /\ Passed = (first + 1)..b
    BY <1>1, BestHeader DEF IInv
  <1>3. /\ ImportedInOrder' /\ RingInv'
        /\ imported_hashes_pointer' \in 0..(HeadersToKeep - 1)
        /\ imported_hashes' \in [0..(HeadersToKeep - 1) -> Headers \cup {None}]
        /\ imported_headers' \subseteq Headers
        /\ imported' \in Seq(Headers)
        /\ best_finalized' = number
        /\ Len(imported') = Len(imported) + 1
        /\ imported'[Len(imported) + 1] = number
        /\ \A i \in 1..Len(imported) : imported'[i] = imported[i]
    BY <1>1, InsertHeaderKeepsRing DEF IInv
  <1>4. /\ Len(chain) \in Nat /\ number \in Nat \ {0} /\ number <= Len(chain)
        /\ chain[number] \in AllChanges
        /\ imported'[1] = first
    <2>1. /\ Len(chain) \in Nat /\ number \in Nat \ {0} /\ number <= Len(chain)
          /\ chain[number] \in AllChanges
      BY DEF IInv, TypeOK, Headers
    <2>2. 1 \in 1..Len(imported)
      BY <1>2
    <2> QED
      BY <1>3, <2>1, <2>2
  <1>5. /\ a \in Nat /\ a <= b
        /\ current_authority_set.set_id \in Nat
        /\ a > first => chain[a] = "Scheduled"
        /\ chain[first] # "Delayed"
        /\ \A k \in Appointing(number) : k <= a
    <2>1. \A k \in Appointing(number) : k <= AuthoritySetAt(number).authorities
      BY <1>4, AppointingRange DEF IInv
    <2> QED
      BY <1>1, <2>1 DEF IInv, TypeOK, AuthoritiesInv
  <1>6. current_authority_set' = IF chain[number] = "Scheduled"
                                 THEN [authorities |-> number, set_id |-> current_authority_set.set_id + 1]
                                 ELSE current_authority_set
    BY <1>1 DEF EnactAuthorityChange
  <1>7. TypeOK'
    <2>1. current_authority_set' \in [authorities : Nat, set_id : Nat]
      BY <1>4, <1>5, <1>6 DEF IInv, TypeOK
    <2>2. request_count' \in 0..MaxRequests
      BY <1>1, GrandpaAssumption DEF IInv, TypeOK
    <2> QED
      BY <1>1, <1>3, <2>1, <2>2, SMTT(30) DEF IInv, TypeOK, Headers
  <1>8. ChainInv'
    BY <1>1 DEF IInv, ChainInv
  <1>9. AuthoritiesInv'
    BY <1>1, <1>2, <1>3, <1>4, <1>5, <1>6, SMTT(30) DEF AuthoritiesInv
  <1>10. NeverUnsupported'
    <2> SUFFICES ASSUME NEW m \in Headers, chain[m] \in Unsupported, first < m
                 PROVE  /\ \A i \in 1..(Len(imported) + 1) : imported'[i] # m
                        /\ ~AppliesTo(m, number)
      <3>1. Headers' = Headers
        BY <1>1 DEF Headers
      <3>2. \A m : AppliesTo(m, best_finalized)' <=> AppliesTo(m, number)
        BY <1>1, <1>3 DEF AppliesTo
      <3> QED
        BY <1>1, <1>3, <1>4, <3>1, <3>2 DEF NeverUnsupported
    <2>1. m \in Nat /\ m # number /\ m # first
      BY <1>1, <1>2, <1>4 DEF Headers
    <2>2. (\A i \in 1..Len(imported) : imported[i] # m) /\ ~AppliesTo(m, b)
      BY <1>1 DEF IInv, NeverUnsupported
    <2>3. \A i \in 1..(Len(imported) + 1) : imported'[i] # m
      <3> SUFFICES ASSUME NEW i \in 1..(Len(imported) + 1)
                   PROVE  imported'[i] # m
        OBVIOUS
      <3>1. CASE i \in 1..Len(imported)
        BY <1>3, <2>2, <3>1
      <3>2. CASE i = Len(imported) + 1
        BY <1>3, <2>1, <3>2
      <3> QED
        BY <1>2, <3>1, <3>2
    <2>4. m # b
      BY <1>1, <1>2, <2>2 DEF IInv, ImportedInOrder
    <2>5. ASSUME AppliesTo(m, number)
          PROVE  FALSE
      <3>1. m <= a
        BY <1>5, <2>5 DEF Appointing
      <3>2. chain[m] = "Delayed" /\ m + 1 = b
        <4>1. b \in Nat /\ m < b
          BY <1>2, <1>5, <2>1, <2>4, <3>1
        <4> QED
          BY <2>1, <2>2, <4>1 DEF AppliesTo, Unsupported
      <3>3. chain[b] = "None"
        <4>1. m \in 1..(Len(chain) - 1)
          BY <1>2, <1>4, <3>2 DEF Headers
        <4> QED
          BY <3>2, <4>1 DEF IInv, ChainInv
      <3>4. a = m \/ a = b
        <4>1. m \in Int /\ a \in Int /\ b \in Int /\ a <= b
          BY <1>2, <1>5, <2>1
        <4> QED
          BY <3>1, <3>2, <4>1
      <3>5. chain[a] = "Scheduled"
        BY <1>2, <1>5, <2>1, <3>1
      <3> QED
        BY <3>2, <3>3, <3>4, <3>5
    <2> QED
      BY <2>3, <2>5
  <1>11. Passed' = (first + 1)..number
    BY <1>1, <1>2, <1>3, <1>4, GrandpaAssumption DEF Passed
  <1>12. NoMandatoryHeaderSkipped'
    <2> SUFFICES ASSUME NEW n \in (first + 1)..number, chain[n] = "Scheduled"
                 PROVE  \E i \in 1..(Len(imported) + 1) : imported'[i] = n
      BY <1>1, <1>3, <1>11 DEF NoMandatoryHeaderSkipped
    <2>1. CASE n <= b
      <3>1. PICK i \in 1..Len(imported) : imported[i] = n
        BY <1>2, <2>1 DEF IInv, NoMandatoryHeaderSkipped
      <3> QED
        BY <1>2, <1>3, <3>1
    <2>2. CASE n = number
      BY <1>2, <1>3, <2>2
    <2>3. CASE b < n /\ n < number
      <3>1. n \in Appointing(number)
        BY <1>2, <1>4, <2>3 DEF Appointing, AppliesTo, Headers
      <3>2. n <= a
        BY <1>5, <3>1
      <3> QED
        BY <1>2, <1>5, <2>3, <3>2
    <2> QED
      BY <1>2, <1>4, <2>1, <2>2, <2>3
  <1>13. AuthoritySetFollowsChain'
    <2> SUFFICES ASSUME \A n \in (first + 1)..number : chain[n] \notin Unsupported
                 PROVE  current_authority_set' = AuthoritySetAt(best_finalized + 1)'
      BY <1>1, <1>11 DEF AuthoritySetFollowsChain
    <2>1. AuthoritySetAt(best_finalized + 1)' = AuthoritySetAt(number + 1)
      BY <1>1, <1>3 DEF AuthoritySetAt, AppliesTo, Headers
    <2>2. number > 1 => chain[number - 1] # "Delayed"
      <3>1. CASE number - 1 = first
        BY <1>5, <3>1
      <3>2. CASE number - 1 # first
        <4>1. number - 1 \in (first + 1)..number
          BY <1>1, <1>2, <1>4, <3>2
        <4> QED
          BY <4>1 DEF Unsupported
      <3> QED
        BY <3>1, <3>2
    <2>3. AuthoritySetAt(number + 1) = IF chain[number] \in {"None", "Delayed"}
                                       THEN AuthoritySetAt(number)
                                       ELSE [authorities |-> number, set_id |-> AuthoritySetAt(number).set_id + 1]
      BY <2>2, NextAuthoritySet DEF IInv
    <2>4. chain[number] = "None" \/ chain[number] = "Scheduled"
      BY <1>1, <1>4 DEF Unsupported, AllChanges
    <2> QED
      BY <1>1, <1>6, <2>1, <2>3, <2>4
  <1> QED
    BY <1>3, <1>7, <1>8, <1>9, <1>10, <1>12, <1>13, SMTT(30) DEF IInv

-----------------------------------------------------------------------------
(* The theorems.                                                           *)

\* An empty storage satisfies the invariant.
LEMMA InitInvariant ==
  Init => IInv
  <1> SUFFICES ASSUME Init
               PROVE  IInv
    OBVIOUS
  <1>1. /\ chain = <<>> /\ Len(chain) = 0 /\ Headers = {}
        /\ imported = <<>> /\ Len(imported) = 0
        /\ best_finalized = None /\ imported_headers = {} /\ imported_hashes_pointer = 0
        /\ imported_hashes = [i \in 0..(HeadersToKeep - 1) |-> None]
        /\ HeadersToKeep \in Nat \ {0} /\ MaxNumber \in Nat /\ MaxRequests \in Nat
    BY GrandpaAssumption DEF Init, Headers
  <1>2. TypeOK
    BY <1>1 DEF Init, TypeOK, OperatingModes
  <1>3. ChainInv /\ ImportedInOrder
    BY <1>1 DEF ChainInv, ImportedInOrder
  <1>4. RingInv
    <2>1. Window(imported) = {}
      BY <1>1 DEF Window
    <2>2. \A i \in 0..(HeadersToKeep - 1) : ~(SlotIndex(i) >= 1)
      BY <1>1 DEF SlotIndex
    <2> QED
      BY <1>1, <2>1, <2>2 DEF RingInv
  <1>5. AuthoritiesInv /\ NeverUnsupported /\ AuthoritySetFollowsChain
    BY <1>1 DEF AuthoritiesInv, NeverUnsupported, AuthoritySetFollowsChain
  <1>6. NoMandatoryHeaderSkipped
    BY <1>1 DEF NoMandatoryHeaderSkipped, Passed
  <1> QED
    BY <1>2, <1>3, <1>4, <1>5, <1>6 DEF IInv

\* Every step of the pallet or of the bridged chain keeps the invariant.
LEMMA NextKeepsInvariant ==
  IInv /\ [Next]_vars => IInv'
  <1> SUFFICES ASSUME IInv, [Next]_vars
               PROVE  IInv'
    OBVIOUS
  <1>1. CASE \E change \in Changes : FinalizeHeader(change)
    BY <1>1, FinalizeHeaderKeepsInvariant
  <1>2. CASE \E origin \in Origins, number \in Headers, m \in OperatingModes : Initialize(origin, number, m)
    BY <1>2, InitializeKeepsInvariant
  <1>3. CASE \E number \in Headers : SubmitFinalityProof(number)
    BY <1>3, SubmitKeepsInvariant
  <1>4. ASSUME UNCHANGED <<chain, current_authority_set, ring>>,
               owner' \in Accounts \cup {None}, mode' \in OperatingModes, request_count' \in 0..MaxRequests
        PROVE  IInv'
    <2>1. TypeOK'
      BY <1>4, SMTT(30) DEF IInv, TypeOK, Headers, ring
    <2> QED
      BY <1>4, <2>1, OtherSteps DEF IInv
  <1>5. CASE OnInitialize
    BY <1>4, <1>5, GrandpaAssumption, SMTT(30) DEF OnInitialize, IInv, TypeOK
  <1>6. CASE SetOwnerOrMode
    BY <1>4, <1>6, SMTT(30) DEF SetOwnerOrMode, OwnerStep, SetOwner, SetOperatingMode, IInv, TypeOK
  <1>7. CASE UNCHANGED vars
    BY <1>4, <1>7 DEF vars, IInv, TypeOK
  <1> QED
    BY <1>1, <1>2, <1>3, <1>5, <1>6, <1>7 DEF Next, PalletNext

\* The inductive invariant of the GRANDPA pallet and the chain that it follows.
THEOREM GrandpaInvariant == Spec => []IInv
  BY InitInvariant, NextKeepsInvariant, PTL DEF Spec

\* The storage of the pallet is typed: in particular, the number of requests never
\* exceeds MaxRequests and the pointer of the ring buffer stays within it.
THEOREM TypeCorrect == Spec => []TypeOK
  <1>1. IInv => TypeOK
    BY DEF IInv
  <1> QED
    BY <1>1, GrandpaInvariant, PTL

\* submit_finality_proof can jump over no header that changes the authorities.
THEOREM NoMandatorySkipped == Spec => []NoMandatoryHeaderSkipped
  <1>1. IInv => NoMandatoryHeaderSkipped
    BY DEF IInv
  <1> QED
    BY <1>1, GrandpaInvariant, PTL

\* CurrentAuthoritySet, with the id that try_enact_authority_change counts, is the
\* set that finalizes the next header, while the chain's changes are supported.
THEOREM AuthoritySetIsRight == Spec => []AuthoritySetFollowsChain
  <1>1. IInv => AuthoritySetFollowsChain
    BY DEF IInv
  <1> QED
    BY <1>1, GrandpaInvariant, PTL

\* insert_header keeps the ring buffer, the map of headers and the history in step.
THEOREM RingKeepsRecentHeaders == Spec => []RecentHeadersKept
  <1>1. IInv => RecentHeadersKept
    <2> SUFFICES ASSUME IInv
                 PROVE  RecentHeadersKept
      OBVIOUS
    <2>1. imported_headers = Window(imported)
      BY DEF IInv, RingInv
    <2>2. Window(imported) = {imported_hashes[i] : i \in 0..(HeadersToKeep - 1)} \ {None}
      BY RingHoldsWindow DEF IInv
    <2>3. best_finalized # None => best_finalized \in Window(imported)
      <3> SUFFICES ASSUME best_finalized # None
                   PROVE  best_finalized \in Window(imported)
        OBVIOUS
      <3>1. Len(imported) \in Nat \ {0} /\ best_finalized = imported[Len(imported)]
        BY BestHeader DEF IInv, ImportedInOrder
      <3>2. Len(imported) \in 1..Len(imported) /\ Len(imported) > Len(imported) - HeadersToKeep
        BY <3>1, GrandpaAssumption
      <3> QED
        BY <3>1, <3>2, WindowMembers, Zenon
    <2> QED
      BY <2>1, <2>2, <2>3 DEF RecentHeadersKept
  <1> QED
    BY <1>1, GrandpaInvariant, PTL

\* The pallet stops at a change that try_enact_authority_change refuses.
THEOREM StopsAtUnsupported == Spec => []StopsAtUnsupportedChange
  <1>1. IInv => StopsAtUnsupportedChange
    <2> SUFFICES ASSUME IInv, NEW m \in Headers, best_finalized # None,
                        chain[m] \in Unsupported, imported[1] < m
                 PROVE  m \notin imported_headers /\ ~AppliesTo(m, best_finalized)
      BY DEF StopsAtUnsupportedChange
    <2>1. (\A i \in 1..Len(imported) : imported[i] # m) /\ ~AppliesTo(m, best_finalized)
      BY DEF IInv, NeverUnsupported
    <2>2. imported_headers = Window(imported)
      BY DEF IInv, RingInv
    <2> QED
      BY <2>1, <2>2, WindowMembers, Zenon
  <1> QED
    BY <1>1, GrandpaInvariant, PTL

-----------------------------------------------------------------------------
(* The pallet's storage implements the light client.                       *)

\* The buffer is full once HeadersToKeep headers were imported.
LEMMA FullBuffer ==
  ASSUME TypeOK, ImportedInOrder, RingInv
  PROVE  Cardinality(imported_headers) >= HeadersToKeep <=> Len(imported) >= HeadersToKeep
  <1> DEFINE L == Len(imported)
             K == HeadersToKeep
             a == IF L >= K THEN L - K + 1 ELSE 1
             f == [i \in a..L |-> imported[i]]
  <1>1. /\ L \in Nat /\ K \in Nat \ {0} /\ imported \in Seq(Headers)
        /\ a \in Nat \ {0} /\ a \in Int
        /\ \A i \in a..L : i \in 1..L /\ i > L - K
        /\ \A i \in 1..L : i > L - K => i \in a..L
        /\ \A i \in 1..L : imported[i] \in Nat
    <2>1. L \in Nat /\ K \in Nat \ {0} /\ imported \in Seq(Headers)
      BY GrandpaAssumption DEF TypeOK
    <2>2. \A i \in 1..L : imported[i] \in Nat
      BY <2>1 DEF Headers
    <2> QED
      BY <2>1, <2>2
  <1>2. \A x : x \in imported_headers <=> \E i \in 1..L : i > L - K /\ x = imported[i]
    <2>1. imported_headers = Window(imported)
      BY DEF RingInv
    <2> QED
      BY <2>1, WindowMembers, Zenon
  <1> HIDE DEF a
  <1>3. f \in [a..L -> imported_headers]
    BY <1>1, <1>2
  <1>4. \A t \in imported_headers : \E i \in a..L : f[i] = t
    BY <1>1, <1>2
  <1>5. \A i, j \in a..L : f[i] = f[j] => i = j
    BY <1>1 DEF ImportedInOrder
  <1>6. f \in Bijection(a..L, imported_headers)
    BY <1>3, <1>4, <1>5 DEF Bijection, Injection, Surjection, IsInjective
  <1>7. ExistsBijection(a..L, imported_headers)
    BY <1>6 DEF ExistsBijection
  <1>8. IsFiniteSet(a..L) /\ Cardinality(a..L) = IF a > L THEN 0 ELSE L - a + 1
    <2>1. a \in Int /\ L \in Int
      BY <1>1
    <2> QED
      BY <2>1, FS_Interval, Zenon
  <1>9. Cardinality(imported_headers) = IF a > L THEN 0 ELSE L - a + 1
    BY <1>7, <1>8, FS_Bijection
  <1> QED
    BY <1>1, <1>9 DEF a

\* insert_header replaces the oldest header once the buffer is full.
LEMMA InsertHeaderIsImport ==
  ASSUME IInv, NEW number \in Headers,
         best_finalized # None => best_finalized < number,
         InsertHeader(number)
  PROVE  Client!Import(number)
  <1> DEFINE L == Len(imported)
             K == HeadersToKeep
             pruning == imported_hashes[imported_hashes_pointer]
  <1>1. /\ L \in Nat /\ K \in Nat \ {0} /\ imported \in Seq(Headers)
        /\ imported_hashes_pointer \in 0..(K - 1)
        /\ None \notin Int /\ number \in Int
    BY GrandpaAssumption DEF IInv, TypeOK, Headers
  <1>2. \A i \in 1..L : imported[i] \in Int /\ imported[i] < number
    BY <1>1, InsertHeaderKeepsRing, SMTT(30) DEF IInv, Headers
  <1>3. \A x : x \in imported_headers <=> \E i \in 1..L : i > L - K /\ x = imported[i]
    <2>1. imported_headers = Window(imported)
      BY DEF IInv, RingInv
    <2> QED
      BY <2>1, WindowMembers, Zenon
  <1>4. \A n \in imported_headers : n \in Int /\ n < number
    BY <1>2, <1>3
  <1>5. pruning = IF L - K + 1 >= 1 THEN imported[L - K + 1] ELSE None
    <2>1. SlotIndex(imported_hashes_pointer) = L - K + 1
      BY <1>1 DEF SlotIndex
    <2> QED
      BY <1>1, <2>1 DEF IInv, RingInv
  <1>6. imported_headers' = (imported_headers \cup {number}) \ {pruning}
    BY DEF InsertHeader
  <1>7. Cardinality(imported_headers) >= K <=> L >= K
    BY FullBuffer DEF IInv
  <1>8. Client!Forgotten = imported_headers \cap {pruning}
    <2>0. Client!Forgotten = {n \in imported_headers : Cardinality(imported_headers) >= K
                                                       /\ \A m \in imported_headers : n <= m}
      BY Zenon DEF Client!Forgotten, Client!Cardinality, Cardinality, Client!IsFiniteSet, IsFiniteSet
    <2>1. CASE L >= K
      <3>1. pruning = imported[L - K + 1] /\ L - K + 1 \in 1..L /\ pruning \in imported_headers
        BY <1>1, <1>3, <1>5, <2>1
      <3>2. \A n \in imported_headers : pruning <= n
        <4> SUFFICES ASSUME NEW n \in imported_headers
                     PROVE  pruning <= n
          OBVIOUS
        <4>1. PICK i \in 1..L : i > L - K /\ n = imported[i]
          BY <1>3
        <4>2. i = L - K + 1 \/ L - K + 1 < i
          BY <1>1, <4>1
        <4> QED
          BY <1>1, <1>2, <3>1, <4>1, <4>2, SMTT(30) DEF IInv, ImportedInOrder
      <3>3. \A n \in imported_headers : (\A k \in imported_headers : n <= k) <=> n = pruning
        BY <1>4, <3>1, <3>2
      <3> QED
        BY <1>7, <2>0, <2>1, <3>3, Zenon
    <2>2. CASE ~(L >= K)
      <3>1. pruning = None /\ None \notin imported_headers
        BY <1>1, <1>4, <1>5, <2>2
      <3> QED
        BY <1>7, <2>0, <2>2, <3>1, Zenon
    <2> QED
      BY <2>1, <2>2
  <1>9. number # pruning
    BY <1>1, <1>2, <1>5
  <1> QED
    BY <1>4, <1>6, <1>8, <1>9 DEF Client!Import

\* The pallet implements LightClient: what it imports is newer than all it has, and
\* what it forgets is the oldest header once there are HeadersToKeep of them.
THEOREM GrandpaImplementsLightClient == Spec => ClientSpec
  <1>1. Init => Client!Init
    BY DEF Init, Client!Init
  <1>2. IInv /\ [Next]_vars => [Client!Next]_imported_headers
    <2> SUFFICES ASSUME IInv, [Next]_vars, imported_headers' # imported_headers
                 PROVE  Client!Next
      OBVIOUS
    <2>1. PICK number \in Headers : InsertHeader(number) /\ (best_finalized # None => best_finalized < number)
      <3>1. CASE \E origin \in Origins, number \in Headers, m \in OperatingModes : Initialize(origin, number, m)
        BY <3>1 DEF Initialize
      <3>2. CASE \E number \in Headers : SubmitFinalityProof(number)
        BY <3>2 DEF SubmitFinalityProof, NotObsolete
      <3>3. ASSUME UNCHANGED ring
            PROVE  FALSE
        BY <3>3 DEF ring
      <3> QED
        BY <3>1, <3>2, <3>3
           DEF Next, PalletNext, FinalizeHeader, OnInitialize, SetOwnerOrMode, vars
    <2>2. number \in 1..MaxNumber
      BY GrandpaAssumption DEF IInv, TypeOK, ChainInv, Headers
    <2>3. Client!Import(number)
      BY <2>1, InsertHeaderIsImport
    <2> QED
      BY <2>2, <2>3 DEF Client!Next
  <1> QED
    BY <1>1, <1>2, GrandpaInvariant, PTL DEF Spec, ClientSpec, Client!Spec
===============================================================================
