------------------------- MODULE BridgeBeefy_proofs -------------------------
(***************************************************************************)
(* What the BEEFY light client guarantees for every chain, every size of   *)
(* the validator set with less than a third of faulty members, every leaf  *)
(* that relays prove and every size of the ring buffer.                    *)
(***************************************************************************)
EXTENDS BridgeBeefy, RingBuffer

-----------------------------------------------------------------------------
(* Signatures.                                                             *)

\* signatures_required exceeds what faulty validators can gather.
LEMMA FaultyAreTooFew ==
  ASSUME NEW S \in SUBSET Faulty
  PROVE  ~(Cardinality(S) >= SignaturesRequired(Cardinality(Validators)))
  <1>1. IsFiniteSet(Faulty) /\ IsFiniteSet(Validators)
    BY BeefyAssumption, FS_Subset
  <1>2. /\ Cardinality(Faulty) \in Nat /\ Cardinality(Validators) \in Nat
        /\ Cardinality(Validators) # 0
        /\ 3 * Cardinality(Faulty) < Cardinality(Validators)
    BY <1>1, BeefyAssumption, FS_CardinalityType, FS_EmptySet
  <1>3. IsFiniteSet(S) /\ Cardinality(S) <= Cardinality(Faulty)
    BY <1>1, FS_Subset
  <1>4. Cardinality(S) \in Nat
    BY <1>3, FS_CardinalityType
  <1> QED
    BY <1>2, <1>3, <1>4 DEF SignaturesRequired

-----------------------------------------------------------------------------
(* Authority sets of the bridged chain.                                    *)

\* The number of hand-offs grows along the chain, by at least one over a hand-off.
LEMMA HandoffsGrow ==
  ASSUME chain \in Seq({"Default", "Finalized", "Handoff"}), NEW a \in Int, NEW b \in Int, a <= b
  PROVE  /\ Cardinality(Handoffs(a)) \in Nat
         /\ Cardinality(Handoffs(a)) <= Cardinality(Handoffs(b))
         /\ (\E m \in Blocks : a < m /\ m <= b /\ chain[m] = "Handoff")
              => Cardinality(Handoffs(a)) < Cardinality(Handoffs(b))
  <1>1. Len(chain) \in Nat
    OBVIOUS
  <1>2. IsFiniteSet(Blocks)
    BY <1>1, FS_Interval DEF Blocks
  <1>3. Handoffs(a) \in SUBSET Blocks /\ Handoffs(b) \in SUBSET Blocks
    BY DEF Handoffs
  <1>4. IsFiniteSet(Handoffs(a)) /\ IsFiniteSet(Handoffs(b))
    BY <1>2, <1>3, FS_Subset
  <1>5. Cardinality(Handoffs(a)) \in Nat /\ Cardinality(Handoffs(b)) \in Nat
    BY <1>4, FS_CardinalityType
  <1>6. Handoffs(a) \in SUBSET Handoffs(b)
    BY <1>1 DEF Handoffs, Blocks
  <1>7. /\ Cardinality(Handoffs(a)) <= Cardinality(Handoffs(b))
        /\ Cardinality(Handoffs(b)) = Cardinality(Handoffs(a)) => Handoffs(b) = Handoffs(a)
    BY <1>4, <1>6, FS_Subset
  <1>8. ASSUME NEW m \in Blocks, a < m, m <= b, chain[m] = "Handoff"
        PROVE  Handoffs(b) # Handoffs(a)
    <2>1. m \in Int
      BY <1>1 DEF Blocks
    <2>2. m \in Handoffs(b) /\ m \notin Handoffs(a)
      BY <1>8, <2>1 DEF Handoffs
    <2> QED
      BY <2>2
  <1> QED
    BY <1>5, <1>7, <1>8

-----------------------------------------------------------------------------
(* The inductive invariant.                                                *)

Kinds == {"Default", "Finalized", "Handoff"}
Info == imported_commitments_info
Numbers == {c.block_number : c \in imported_commitments}
Index == IF Info = None THEN 0 ELSE Info.next_block_number_index

BeefyTypeOK ==
  /\ chain \in Seq(Kinds) /\ Len(chain) <= MaxNumber
  /\ Info # None => Info \in [best_block_number : Blocks \cup {0},
                              next_block_number_index : 0..(CommitmentsToKeep - 1)]
  /\ current_authority_set_id \in Nat
  /\ imported_block_numbers \in [0..(CommitmentsToKeep - 1) -> Int \cup {None}]
  /\ imported_commitments \in SUBSET [block_number : Blocks, genuine : BOOLEAN, parent : Int]
  /\ own_leaves \in BOOLEAN

\* The ring buffer is in order and agrees with the map of commitments, whose blocks
\* are at most the best one.
RingInv ==
  /\ Ordered(imported_block_numbers, Index, CommitmentsToKeep, None)
  /\ Numbers = Held(imported_block_numbers, CommitmentsToKeep, None)
  /\ Info = None => imported_commitments = {}
  /\ Info # None => \A x \in Numbers : x <= Info.best_block_number
  /\ Info # None /\ Info.best_block_number # initial_block_number => Info.best_block_number \in Numbers
  /\ \A c, d \in imported_commitments : c.block_number = d.block_number => c = d

\* The stored set is never ahead of the chain, whatever leaf is proved.
AuthorityInv ==
  Info # None => current_authority_set_id <= NextAuthoritySetId(Info.best_block_number)

IInv ==
  /\ BeefyTypeOK
  /\ RingInv
  /\ AuthorityInv
  /\ OnlyGenuineImported
  /\ AuthoritySetFollowsChain

\* An empty storage satisfies the invariant.
LEMMA InitInvariant ==
  Init => IInv
  <1> SUFFICES ASSUME Init
               PROVE  IInv
    OBVIOUS
  <1>1. /\ Info = None /\ imported_commitments = {} /\ Numbers = {}
        /\ chain = <<>> /\ Len(chain) = 0
        /\ MaxNumber \in Nat /\ CommitmentsToKeep \in Nat \ {0}
        /\ imported_block_numbers = [i \in 0..(CommitmentsToKeep - 1) |-> None]
    BY BeefyAssumption DEF Init, Info, Numbers
  <1>2. BeefyTypeOK
    BY <1>1 DEF Init, BeefyTypeOK
  <1>3. RingInv
    <2>1. \A i \in 0..(CommitmentsToKeep - 1) : imported_block_numbers[i] = None
      BY <1>1
    <2>2. Held(imported_block_numbers, CommitmentsToKeep, None) = {}
      BY <2>1 DEF Held
    <2>3. Ordered(imported_block_numbers, Index, CommitmentsToKeep, None)
      BY <2>1 DEF Ordered
    <2> QED
      BY <1>1, <2>2, <2>3 DEF RingInv
  <1> QED
    BY <1>1, <1>2, <1>3 DEF IInv, AuthorityInv, OnlyGenuineImported, AuthoritySetFollowsChain, Info

\* A new block of the bridged chain changes nothing behind it.
LEMMA AppendKeepsInvariant ==
  ASSUME IInv, NEW kind \in Kinds, AppendBlock(kind)
  PROVE  IInv'
  <1>1. /\ chain \in Seq(Kinds) /\ Len(chain) \in Nat
        /\ chain' \in Seq(Kinds) /\ Len(chain') = Len(chain) + 1 /\ Len(chain') <= MaxNumber
        /\ \A n \in Blocks : chain'[n] = chain[n]
        /\ Blocks' = Blocks \cup {Len(chain) + 1}
    BY BeefyAssumption DEF AppendBlock, IInv, BeefyTypeOK, Blocks
  <1>2. UNCHANGED <<imported_commitments_info, current_authority_set_id, imported_block_numbers,
                    imported_commitments, initial_block_number, own_leaves>>
    BY DEF AppendBlock, pallet, history
  <1>3. BeefyTypeOK'
    <2>1. Info # None => Info \in [best_block_number : Blocks' \cup {0},
                                   next_block_number_index : 0..(CommitmentsToKeep - 1)]
      BY <1>1 DEF IInv, BeefyTypeOK
    <2>2. imported_commitments \in SUBSET [block_number : Blocks', genuine : BOOLEAN, parent : Int]
      BY <1>1 DEF IInv, BeefyTypeOK
    <2> QED
      BY <1>1, <1>2, <2>1, <2>2 DEF IInv, BeefyTypeOK, Info
  <1>4. RingInv'
    BY <1>2 DEF IInv, RingInv, Info, Index, Numbers
  <1>5. \A n \in Int : n <= Len(chain) => Handoffs(n)' = Handoffs(n)
    BY <1>1 DEF Handoffs, Blocks
  <1>6. Info # None => NextAuthoritySetId(Info.best_block_number)' = NextAuthoritySetId(Info.best_block_number)
    <2> SUFFICES ASSUME Info # None
                 PROVE  NextAuthoritySetId(Info.best_block_number)' = NextAuthoritySetId(Info.best_block_number)
      OBVIOUS
    <2>1. Info.best_block_number \in Int /\ Info.best_block_number <= Len(chain)
      BY <1>1 DEF IInv, BeefyTypeOK, Blocks
    <2>2. Info' = Info
      BY <1>2 DEF Info
    <2> QED
      BY <1>5, <2>1, <2>2 DEF NextAuthoritySetId
  <1>7. AuthorityInv' /\ AuthoritySetFollowsChain'
    BY <1>2, <1>6 DEF IInv, AuthorityInv, AuthoritySetFollowsChain, Info
  <1>8. OnlyGenuineImported'
    BY <1>1, <1>2 DEF IInv, OnlyGenuineImported, Finalized
  <1> QED
    BY <1>3, <1>4, <1>7, <1>8 DEF IInv

\* initialize stores the set that signs the blocks after the initial one.
LEMMA InitializeKeepsInvariant ==
  ASSUME IInv, NEW origin \in Origins, NEW n \in Blocks \cup {0}, NEW m \in OperatingModes,
         Initialize(origin, n, m)
  PROVE  IInv'
  <1>1. /\ Info = None
        /\ Info' = [best_block_number |-> n, next_block_number_index |-> 0]
        /\ current_authority_set_id' = NextAuthoritySetId(n)
        /\ initial_block_number' = n
        /\ UNCHANGED <<chain, imported_block_numbers, imported_commitments, own_leaves>>
        /\ n \in Int
        /\ chain \in Seq(Kinds)
        /\ CommitmentsToKeep \in Nat \ {0}
    <2>1. Len(chain) \in Nat /\ chain \in Seq(Kinds)
      BY DEF IInv, BeefyTypeOK
    <2>2. n \in Int
      BY <2>1 DEF Blocks
    <2> QED
      BY <2>1, <2>2, BeefyAssumption DEF Initialize, Info
  <1>0. Info' # None
    BY <1>1, BeefyAssumption
  <1>2. NextAuthoritySetId(n) \in Nat
    BY <1>1, HandoffsGrow DEF NextAuthoritySetId, Kinds
  <1>3. BeefyTypeOK'
    BY <1>1, <1>2 DEF IInv, BeefyTypeOK, Blocks
  <1>4. Index = 0 /\ Index' = 0 /\ Numbers = {} /\ Numbers' = {} /\ imported_commitments' = {}
    BY <1>1 DEF IInv, RingInv, Index, Numbers
  <1>5. RingInv'
    BY <1>0, <1>1, <1>4 DEF IInv, RingInv
  <1>6. NextAuthoritySetId(Info.best_block_number)' = NextAuthoritySetId(n)
    BY <1>1 DEF NextAuthoritySetId, Handoffs, Blocks
  <1>7. AuthorityInv' /\ AuthoritySetFollowsChain'
    BY <1>1, <1>2, <1>6 DEF AuthorityInv, AuthoritySetFollowsChain, Info
  <1>8. OnlyGenuineImported'
    BY <1>4 DEF OnlyGenuineImported
  <1> QED
    BY <1>3, <1>5, <1>7, <1>8 DEF IInv

\* What submit_commitment knows of a commitment that it accepts: an honest validator
\* signed it, so that it is one of the chain, the stored set is the one that signs its
\* block, and no hand-off lies between the best block and it.
LEMMA AcceptedCommitment ==
  ASSUME IInv, NEW c \in SignedCommitment, NEW leaf \in Blocks, SubmitCommitment(c, leaf)
  PROVE  /\ c.genuine /\ c.block_number \in Finalized
         /\ Info # None /\ Info.best_block_number \in Int /\ Info.best_block_number < c.block_number
         /\ current_authority_set_id = NextAuthoritySetId(c.block_number - 1)
         /\ \A m \in Blocks : chain[m] = "Handoff" =>
              ~(Info.best_block_number < m /\ m < c.block_number)
  <1> DEFINE number == c.block_number
             best == Info.best_block_number
  <1>1. /\ Info # None /\ number > best
        /\ VerifyCommitment(c)
    BY DEF SubmitCommitment, Info
  <1>2. c.genuine
    <2>1. c.signers \subseteq Faulty => ~VerifyCommitment(c)
      BY FaultyAreTooFew DEF VerifyCommitment
    <2> QED
      BY <1>1, <2>1 DEF SignedCommitment
  <1>3. /\ number \in Finalized
        /\ c.validator_set_id = ValidatorSetId(number)
    BY <1>2 DEF SignedCommitment
  <1>4. current_authority_set_id = NextAuthoritySetId(number - 1)
    BY <1>1, <1>3 DEF VerifyCommitment, ValidatorSetId, NextAuthoritySetId
  <1>5. chain \in Seq(Kinds) /\ Len(chain) \in Nat
    BY DEF IInv, BeefyTypeOK
  <1>6. best \in Int
    BY <1>1, <1>5 DEF IInv, BeefyTypeOK, Blocks
  <1>7. number \in Int /\ \A m \in Blocks : m \in Int
    BY <1>3, <1>5 DEF Finalized, Blocks
  <1> HIDE DEF number, best
  <1>8. best <= number - 1 /\ number - 1 \in Int
    BY <1>1, <1>6, <1>7
  <1>9. /\ Cardinality(Handoffs(best)) \in Nat
        /\ Cardinality(Handoffs(best)) <= Cardinality(Handoffs(number - 1))
        /\ (\E m \in Blocks : best < m /\ m <= number - 1 /\ chain[m] = "Handoff")
             => Cardinality(Handoffs(best)) < Cardinality(Handoffs(number - 1))
    BY <1>5, <1>6, <1>8, HandoffsGrow DEF Kinds
  <1>10. Cardinality(Handoffs(number - 1)) \in Nat
    BY <1>5, <1>8, HandoffsGrow DEF Kinds
  <1>11. Cardinality(Handoffs(number - 1)) <= Cardinality(Handoffs(best))
    BY <1>1, <1>4 DEF IInv, AuthorityInv, NextAuthoritySetId, best
  <1>12. \A m \in Blocks : chain[m] = "Handoff" => ~(best < m /\ m < number)
    <2> SUFFICES ASSUME NEW m \in Blocks, chain[m] = "Handoff", best < m, m < number
                 PROVE  FALSE
      OBVIOUS
    <2>1. m <= number - 1
      BY <1>7
    <2> QED
      BY <1>9, <1>10, <1>11, <2>1
  <1> QED
    BY <1>1, <1>2, <1>3, <1>4, <1>6, <1>7, <1>12, SMTT(30) DEF number, best

\* submit_commitment writes the slot of the oldest commitment, which it forgets, and
\* keeps the map and the ring buffer in step.
LEMMA SubmitKeepsRing ==
  ASSUME IInv, NEW c \in SignedCommitment, NEW leaf \in Blocks, SubmitCommitment(c, leaf)
  PROVE  /\ RingInv'
         /\ \A x \in Numbers : x < c.block_number
         /\ Numbers' = (Numbers \ Oldest(Numbers, CommitmentsToKeep)) \cup {c.block_number}
         /\ \A d \in imported_commitments' :
              \/ d \in imported_commitments
              \/ d = [block_number |-> c.block_number, genuine |-> c.genuine, parent |-> leaf - 1]
  <1> DEFINE K == CommitmentsToKeep
             number == c.block_number
             r == imported_block_numbers
             p == Info.next_block_number_index
             new == [block_number |-> number, genuine |-> c.genuine, parent |-> leaf - 1]
  <1>1. /\ Info # None /\ Info.best_block_number \in Int /\ Info.best_block_number < number
        /\ number \in Finalized
    BY AcceptedCommitment
  <1>2. Len(chain) \in Nat /\ number \in Int
    <2>1. Len(chain) \in Nat
      BY DEF IInv, BeefyTypeOK
    <2> QED
      BY <1>1, <2>1 DEF Finalized, Blocks
  <1>3. /\ imported_commitments' = {d \in imported_commitments \cup {new} : d.block_number # r[p]}
        /\ imported_block_numbers' = [r EXCEPT ![p] = number]
        /\ Info' = [best_block_number |-> number, next_block_number_index |-> (p + 1) % K]
        /\ initial_block_number' = initial_block_number
    BY DEF SubmitCommitment, ToPrune, Info
  <1>4. /\ K \in Nat \ {0} /\ None \notin Int
        /\ r \in [0..(K - 1) -> Int \cup {None}] /\ p \in 0..(K - 1)
    BY <1>1, BeefyAssumption DEF IInv, BeefyTypeOK
  <1>5. Ordered(r, p, K, None) /\ Numbers = Held(r, K, None)
    BY <1>1 DEF IInv, RingInv, Index
  <1>6. \A x \in Numbers : x \in Int /\ x < number
    <2>1. \A x \in Numbers : x \in Int
      BY <1>4, <1>5 DEF Held
    <2>2. \A x \in Numbers : x <= Info.best_block_number
      BY <1>1 DEF IInv, RingInv
    <2> QED
      BY <1>1, <1>2, <2>1, <2>2
  <1>7. /\ Ordered([r EXCEPT ![p] = number], (p + 1) % K, K, None)
        /\ (p + 1) % K \in 0..(K - 1)
        /\ Held([r EXCEPT ![p] = number], K, None) = (Held(r, K, None) \cup {number}) \ {r[p]}
        /\ Held([r EXCEPT ![p] = number], K, None)
             = (Held(r, K, None) \ Oldest(Held(r, K, None), K)) \cup {number}
        /\ number \in Held([r EXCEPT ![p] = number], K, None)
    <2>1. \A x \in Held(r, K, None) : x < number
      BY <1>5, <1>6
    <2> HIDE DEF K, r, p, number
    <2> QED
      BY <1>2, <1>4, <1>5, <2>1, RingInsert, Zenon
  <1>8. Numbers' = (Numbers \cup {number}) \ {r[p]}
    <2>1. Numbers' = {d.block_number : d \in imported_commitments'}
      BY DEF Numbers
    <2>2. new.block_number = number
      OBVIOUS
    <2> HIDE DEF new, r, p, number
    <2> QED
      BY <1>3, <2>1, <2>2 DEF Numbers
  <1>9. Numbers' = Held(imported_block_numbers', K, None) /\ number \in Numbers'
    BY <1>3, <1>5, <1>7, <1>8, Zenon
  <1>10. /\ Info'.best_block_number = number
         /\ Info'.next_block_number_index = (p + 1) % K
    BY <1>3
  <1>11. Info' # None
    <2>1. Info' \in [best_block_number : Int, next_block_number_index : Int]
      BY <1>2, <1>3, <1>4, <1>7
    <2> QED
      BY <2>1, BeefyAssumption
  <1>12. Index' = (p + 1) % K
    BY <1>10, <1>11 DEF Index
  <1>13. \A x \in Numbers' : x <= number
    BY <1>2, <1>6, <1>8
  <1>14. \A d, e \in imported_commitments' : d.block_number = e.block_number => d = e
    <2>1. \A d \in imported_commitments : d.block_number # number
      <3>1. \A d \in imported_commitments : d.block_number \in Numbers
        BY DEF Numbers
      <3> QED
        BY <1>2, <1>6, <3>1
    <2>2. \A d, e \in imported_commitments : d.block_number = e.block_number => d = e
      BY DEF IInv, RingInv
    <2>3. new.block_number = number
      OBVIOUS
    <2> HIDE DEF new, r, p, number
    <2> QED
      BY <1>3, <2>1, <2>2, <2>3
  <1>15. RingInv'
    BY <1>3, <1>7, <1>9, <1>10, <1>11, <1>12, <1>13, <1>14, Zenon DEF RingInv
  <1>16. \A d \in imported_commitments' : d \in imported_commitments \/ d = new
    BY <1>3
  <1> QED
    BY <1>5, <1>6, <1>7, <1>9, <1>15, <1>16, <1>3, Zenon

\* submit_commitment keeps the invariant, whatever commitment and leaf it is given.
LEMMA SubmitKeepsInvariant ==
  ASSUME IInv, NEW c \in SignedCommitment, NEW leaf \in Blocks, SubmitCommitment(c, leaf)
  PROVE  IInv'
  <1> DEFINE number == c.block_number
             K == CommitmentsToKeep
             new == [block_number |-> number, genuine |-> c.genuine, parent |-> leaf - 1]
  <1>1. /\ c.genuine /\ number \in Finalized
        /\ current_authority_set_id = NextAuthoritySetId(number - 1)
    BY AcceptedCommitment
  <1>2. /\ RingInv'
        /\ \A d \in imported_commitments' : d \in imported_commitments \/ d = new
    BY SubmitKeepsRing
  <1>3. /\ chain \in Seq(Kinds) /\ Len(chain) \in Nat /\ Len(chain) <= MaxNumber
        /\ K \in Nat \ {0}
    BY BeefyAssumption DEF IInv, BeefyTypeOK
  <1>4. number \in Blocks /\ number \in Int /\ leaf \in Int
    BY <1>1, <1>3 DEF Finalized, Blocks
  <1>5. /\ UNCHANGED chain
        /\ leaf <= number
        /\ current_authority_set_id' = EnactAuthoritySet(c, leaf)
        /\ Info' = [best_block_number |-> number,
                    next_block_number_index |-> (Info.next_block_number_index + 1) % K]
        /\ imported_block_numbers' = [imported_block_numbers EXCEPT ![Info.next_block_number_index] = number]
        /\ own_leaves' = (own_leaves /\ leaf = number)
        /\ Info # None
    BY DEF SubmitCommitment, Info
  <1>6. /\ UNCHANGED <<Blocks, Finalized>>
        /\ \A n \in Int : NextAuthoritySetId(n)' = NextAuthoritySetId(n)
    BY <1>5 DEF Blocks, Finalized, NextAuthoritySetId, Handoffs
  <1>7. /\ NextAuthoritySetId(number) \in Nat
        /\ NextAuthoritySetId(leaf) \in Nat /\ NextAuthoritySetId(leaf) <= NextAuthoritySetId(number)
        /\ NextAuthoritySetId(number - 1) \in Nat
        /\ NextAuthoritySetId(number - 1) <= NextAuthoritySetId(number)
    <2>1. number - 1 \in Int /\ number - 1 <= number
      BY <1>4
    <2> HIDE DEF number
    <2>2. Cardinality(Handoffs(leaf)) \in Nat /\ Cardinality(Handoffs(leaf)) <= Cardinality(Handoffs(number))
      BY <1>3, <1>4, <1>5, HandoffsGrow DEF Kinds
    <2>3. /\ Cardinality(Handoffs(number - 1)) \in Nat
          /\ Cardinality(Handoffs(number - 1)) <= Cardinality(Handoffs(number))
      BY <1>3, <1>4, <2>1, HandoffsGrow, Zenon DEF Kinds
    <2>4. number <= number /\ Cardinality(Handoffs(number)) \in Nat
      BY <1>3, <1>4, HandoffsGrow DEF Kinds
    <2> QED
      BY <2>2, <2>3, <2>4 DEF NextAuthoritySetId
  <1> HIDE DEF number, new
  <1>8. /\ current_authority_set_id' \in Nat
        /\ current_authority_set_id' <= NextAuthoritySetId(number)
        /\ leaf = number => current_authority_set_id' = NextAuthoritySetId(number)
    BY <1>1, <1>5, <1>7 DEF EnactAuthoritySet
  <1>9. Info'.best_block_number = number
    BY <1>5
  <1>10. NextAuthoritySetId(Info.best_block_number)' = NextAuthoritySetId(number)
    BY <1>4, <1>6, <1>9
  <1>11. AuthorityInv'
    BY <1>8, <1>10 DEF AuthorityInv
  <1>12. AuthoritySetFollowsChain'
    BY <1>5, <1>8, <1>10, Zenon DEF AuthoritySetFollowsChain, Info
  <1>13. OnlyGenuineImported'
    <2>1. new.genuine /\ new.block_number \in Finalized
      BY <1>1 DEF new
    <2> QED
      BY <1>2, <1>6, <2>1 DEF IInv, OnlyGenuineImported
  <1>14. BeefyTypeOK'
    <2>1. Info.next_block_number_index \in 0..(K - 1)
      BY <1>5 DEF IInv, BeefyTypeOK
    <2>2. (Info.next_block_number_index + 1) % K \in 0..(K - 1)
      BY <1>3, <2>1, NextPosition
    <2>3. Info' \in [best_block_number : Blocks \cup {0}, next_block_number_index : 0..(K - 1)]
      BY <1>4, <1>5, <2>2
    <2>4. imported_block_numbers' \in [0..(K - 1) -> Int \cup {None}]
      BY <1>4, <1>5 DEF IInv, BeefyTypeOK
    <2>5. new \in [block_number : Blocks, genuine : BOOLEAN, parent : Int]
      BY <1>1, <1>4 DEF new, number, SignedCommitment
    <2>6. imported_commitments' \in SUBSET [block_number : Blocks, genuine : BOOLEAN, parent : Int]
      BY <1>2, <2>5 DEF IInv, BeefyTypeOK
    <2>7. own_leaves' \in BOOLEAN
      BY <1>5
    <2> QED
      BY <1>3, <1>5, <1>6, <1>8, <2>3, <2>4, <2>6, <2>7 DEF BeefyTypeOK
  <1> QED
    BY <1>2, <1>11, <1>12, <1>13, <1>14 DEF IInv

\* on_initialize, set_owner and set_operating_mode do not touch what was imported.
LEMMA OtherStepsKeepInvariant ==
  ASSUME IInv, OnInitialize \/ SetOwnerOrMode \/ UNCHANGED vars
  PROVE  IInv'
  <1>1. UNCHANGED <<chain, imported_commitments_info, current_authority_set_id, imported_block_numbers,
                    imported_commitments, initial_block_number, own_leaves>>
    BY DEF OnInitialize, SetOwnerOrMode, vars, pallet, history
  <1>2. UNCHANGED <<Blocks, Finalized, Info, Index, Numbers>>
    BY <1>1 DEF Blocks, Finalized, Info, Index, Numbers
  <1>3. BeefyTypeOK'
    BY <1>1, <1>2, Zenon DEF IInv, BeefyTypeOK
  <1>4. RingInv'
    BY <1>1, <1>2, Zenon DEF IInv, RingInv
  <1>5. NextAuthoritySetId(Info.best_block_number)' = NextAuthoritySetId(Info.best_block_number)
    BY <1>1, <1>2, Zenon DEF NextAuthoritySetId, Handoffs
  <1>6. AuthorityInv' /\ AuthoritySetFollowsChain'
    BY <1>1, <1>2, <1>5 DEF IInv, AuthorityInv, AuthoritySetFollowsChain, Info
  <1>7. OnlyGenuineImported'
    BY <1>1, <1>2 DEF IInv, OnlyGenuineImported
  <1> QED
    BY <1>3, <1>4, <1>6, <1>7 DEF IInv

\* Every step of the pallet or of the bridged chain keeps the invariant.
LEMMA NextKeepsInvariant ==
  IInv /\ [Next]_vars => IInv'
  <1> SUFFICES ASSUME IInv, [Next]_vars
               PROVE  IInv'
    OBVIOUS
  <1>1. CASE \E c \in SignedCommitment, leaf \in Blocks : SubmitCommitment(c, leaf)
    BY <1>1, SubmitKeepsInvariant
  <1>2. CASE \E kind \in Kinds : AppendBlock(kind)
    BY <1>2, AppendKeepsInvariant
  <1>3. CASE \E origin \in Origins, n \in Blocks \cup {0}, m \in OperatingModes : Initialize(origin, n, m)
    BY <1>3, InitializeKeepsInvariant
  <1>4. CASE OnInitialize \/ SetOwnerOrMode \/ UNCHANGED vars
    BY <1>4, OtherStepsKeepInvariant
  <1> QED
    BY <1>1, <1>2, <1>3, <1>4, Zenon DEF Next, Kinds

-----------------------------------------------------------------------------
(* The theorems.                                                           *)

\* The inductive invariant holds: initialize and submit_commitment keep the ring buffer
\* in order and the stored set at most at the one that the best block's leaf names.
THEOREM BeefyInvariant == Spec => []IInv
  BY InitInvariant, NextKeepsInvariant, PTL DEF Spec

\* Only commitments of the bridged chain are imported, whatever up to a third of the
\* validators sign (signatures_required, verify_commitment).
THEOREM OnlyGenuineCommitments == Spec => []OnlyGenuineImported
  <1>1. IInv => OnlyGenuineImported
    BY DEF IInv
  <1> QED
    BY <1>1, BeefyInvariant, PTL

\* The stored set is the one that signs the block after the best one if the leaf of
\* the commitment's own block is proved every time (submit_commitment).
THEOREM AuthoritySetIsRight == Spec => []AuthoritySetFollowsChain
  <1>1. IInv => AuthoritySetFollowsChain
    BY DEF IInv
  <1> QED
    BY <1>1, BeefyInvariant, PTL

\* The best block is in the map, which agrees with the ring buffer
\* (submit_commitment).
THEOREM BestIsStored == Spec => []BestCommitmentStored
  <1>1. IInv => BestCommitmentStored
    BY Zenon DEF IInv, RingInv, BestCommitmentStored, Info, Numbers, Held
  <1> QED
    BY <1>1, BeefyInvariant, PTL

\* No hand-off is jumped over, whatever leaves are proved (verify_commitment).
THEOREM HandoffsAreFollowed == Spec => NoHandoffSkipped
  <1> DEFINE Step ==
        imported_commitments_info # None =>
          \A m \in Blocks :
            chain[m] = "Handoff" => ~ (imported_commitments_info.best_block_number < m
                                       /\ m < imported_commitments_info'.best_block_number)
  <1>1. IInv /\ [Next]_vars => [Step]_vars
    <2> SUFFICES ASSUME IInv, Next
                 PROVE  Step
      OBVIOUS
    <2>1. CASE \E c \in SignedCommitment, leaf \in Blocks : SubmitCommitment(c, leaf)
      <3>1. PICK c \in SignedCommitment, leaf \in Blocks : SubmitCommitment(c, leaf)
        BY <2>1
      <3>2. imported_commitments_info'.best_block_number = c.block_number
        BY <3>1 DEF SubmitCommitment
      <3> QED
        BY <3>1, <3>2, AcceptedCommitment DEF Info
    <2>2. ASSUME UNCHANGED imported_commitments_info
          PROVE  Step
      <3> SUFFICES ASSUME Info # None, NEW m \in Blocks
                   PROVE  ~(Info.best_block_number < m /\ m < Info.best_block_number)
        BY <2>2 DEF Info
      <3>1. Len(chain) \in Nat
        BY DEF IInv, BeefyTypeOK
      <3>2. Info.best_block_number \in Int /\ m \in Int
        BY <3>1 DEF IInv, BeefyTypeOK, Blocks
      <3> QED
        BY <3>2
    <2>3. CASE \E origin \in Origins, n \in Blocks \cup {0}, m \in OperatingModes : Initialize(origin, n, m)
      BY <2>3 DEF Initialize
    <2> QED
      BY <2>1, <2>2, <2>3 DEF Next, AppendBlock, OnInitialize, SetOwnerOrMode, pallet
  <1> QED
    BY <1>1, BeefyInvariant, PTL DEF Spec, NoHandoffSkipped

\* The pallet implements LightClient: what it imports is newer than all it has, and
\* what it forgets is the oldest commitment once there are CommitmentsToKeep of them.
THEOREM BeefyImplementsLightClient == Spec => ClientSpec
  <1>1. Init => Client!Init
    BY DEF Init, Client!Init
  <1>2. IInv /\ [Next]_vars => [Client!Next]_Numbers
    <2> SUFFICES ASSUME IInv, [Next]_vars, Numbers' # Numbers
                 PROVE  Client!Next
      OBVIOUS
    <2>1. PICK c \in SignedCommitment, leaf \in Blocks : SubmitCommitment(c, leaf)
      <3>1. imported_commitments' # imported_commitments
        BY DEF Numbers
      <3> QED
        BY <3>1 DEF Next, AppendBlock, Initialize, OnInitialize, SetOwnerOrMode, vars, pallet
    <2>2. /\ \A x \in Numbers : x < c.block_number
          /\ Numbers' = (Numbers \ Oldest(Numbers, CommitmentsToKeep)) \cup {c.block_number}
      BY <2>1, SubmitKeepsRing
    <2>3. Client!Forgotten = Oldest(Numbers, CommitmentsToKeep)
      BY Zenon DEF Client!Forgotten, Oldest, Numbers, Client!Cardinality, Cardinality,
                   Client!IsFiniteSet, IsFiniteSet
    <2>4. Client!Import(c.block_number)
      BY <2>2, <2>3, Zenon DEF Client!Import, Numbers
    <2>5. c.block_number \in 1..MaxNumber
      BY DEF SignedCommitment
    <2> QED
      BY <2>4, <2>5, Zenon DEF Client!Next
  <1> QED
    BY <1>1, <1>2, BeefyInvariant, PTL DEF Spec, ClientSpec, Client!Spec, Numbers
=============================================================================
