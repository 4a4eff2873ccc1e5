----------------------------- MODULE BridgeBeefy -----------------------------
(***************************************************************************)
(* The BEEFY light client (modules/beefy): the pallet that imports signed  *)
(* commitments of a bridged chain, together with that chain.               *)
(*                                                                         *)
(* A commitment signs the root of the Merkle mountain range of all leaves  *)
(* up to its block.  A leaf holds the parent of its block and the next     *)
(* authority set, which hand-off blocks change.  Up to a third of the      *)
(* validators may also sign commitments that are not of the chain.         *)
(***************************************************************************)
EXTENDS OwnedBridgeModule, Sequences, FiniteSets

CONSTANTS
  Validators,         \* members of each authority set
  Faulty,             \* validators that sign anything
  MaxRequests,
  CommitmentsToKeep,  \* size of the ring buffer of imported commitments
  MaxNumber           \* bound: length of the bridged chain

ASSUME BeefyAssumption ==
  /\ IsFiniteSet(Validators) /\ Validators # {}
  /\ Faulty \subseteq Validators
  /\ 3 * Cardinality(Faulty) < Cardinality(Validators)
  /\ MaxRequests \in Nat
  /\ CommitmentsToKeep \in Nat \ {0}
  /\ MaxNumber \in Nat
  /\ None \notin Int \cup [best_block_number : Int, next_block_number_index : Int]

VARIABLES
  chain,                          \* what BEEFY does with each block
  \* the pallet's storage
  request_count,
  imported_commitments_info,
  current_authority_set_id,       \* id in CurrentAuthoritySetInfo
  imported_block_numbers,         \* the ring buffer
  imported_commitments,
  \* history
  initial_block_number,
  own_leaves                      \* each proved leaf was that of the commitment's block

history == <<initial_block_number, own_leaves>>
pallet == <<owner, mode, request_count, imported_commitments_info, current_authority_set_id,
            imported_block_numbers, imported_commitments, history>>
vars == <<chain, pallet>>

-----------------------------------------------------------------------------
(* The bridged chain: BEEFY finalizes a block or not, and always one that  *)
(* hands off to the next authority set.                                    *)

Blocks == 1..Len(chain)
Finalized == {n \in Blocks : chain[n] # "Default"}
Handoffs(n) == {m \in Blocks : m <= n /\ chain[m] = "Handoff"}

\* The set that signs block n, and the one that its leaf names as the next.
ValidatorSetId(n) == Cardinality(Handoffs(n - 1))
NextAuthoritySetId(n) == Cardinality(Handoffs(n))

AppendBlock(kind) ==
  /\ Len(chain) < MaxNumber
  /\ chain' = Append(chain, kind)
  /\ UNCHANGED pallet

\* A commitment for block n: genuine ones may carry the signature of any
\* validator, others only those of faulty ones.
SignedCommitment ==
  {c \in [block_number : 1..MaxNumber, validator_set_id : 0..MaxNumber, genuine : BOOLEAN, signers : SUBSET Validators] :
     IF c.genuine
     THEN c.block_number \in Finalized /\ c.validator_set_id = ValidatorSetId(c.block_number)
     ELSE c.signers \subseteq Faulty}

-----------------------------------------------------------------------------
(* The pallet.                                                             *)

\* initialize, with what trusted origins know of the chain: block n is final, and
\* the set that finalizes its descendants.
Initialize(origin, n, operating_mode) ==
  /\ EnsureOwnerOrRoot(origin)
  /\ imported_commitments_info = None
  /\ current_authority_set_id' = NextAuthoritySetId(n)
  /\ mode' = operating_mode
  /\ imported_commitments_info' = [best_block_number |-> n, next_block_number_index |-> 0]
  /\ initial_block_number' = n
  /\ UNCHANGED <<chain, owner, request_count, imported_block_numbers, imported_commitments, own_leaves>>

\* Mutant: as many signatures as there may be faulty validators.
SignaturesOfThird(validators_len) == (validators_len - 1) \div 3

\* signatures_required.
SignaturesRequired(validators_len) ==
  validators_len - (IF validators_len = 0 THEN 0 ELSE validators_len - 1) \div 3

\* Mutant: the id of the signing set is not compared.
VerifySignaturesOnly(commitment) ==
  Cardinality(commitment.signers) >= SignaturesRequired(Cardinality(Validators))

\* verify_commitment.
VerifyCommitment(commitment) ==
  /\ commitment.validator_set_id = current_authority_set_id
  /\ Cardinality(commitment.signers) >= SignaturesRequired(Cardinality(Validators))

\* Mutant: the pruned number is looked up at the slot after the one that is taken.
PrunedNextSlot(index) == imported_block_numbers[(index + 1) % CommitmentsToKeep]

\* The block number whose commitment is pruned.
ToPrune(index) == imported_block_numbers[index]

\* Mutant: the set that signs the leaf's block is taken for the next one.
EnactSigningSet(commitment, leaf) ==
  IF commitment.genuine /\ ValidatorSetId(leaf) > current_authority_set_id
  THEN ValidatorSetId(leaf)
  ELSE current_authority_set_id

\* The set that is stored after a leaf is proved.
EnactAuthoritySet(commitment, leaf) ==
  IF commitment.genuine /\ NextAuthoritySetId(leaf) > current_authority_set_id
  THEN NextAuthoritySetId(leaf)
  ELSE current_authority_set_id

\* submit_commitment, with the proof of the leaf of some block in the mountain
\* range of the commitment's block.
SubmitCommitment(commitment, leaf) ==
  LET number == commitment.block_number
      info == imported_commitments_info
      index == info.next_block_number_index
  IN  /\ ~IsHalted
      /\ request_count < MaxRequests
      /\ info # None
      /\ number > info.best_block_number
      /\ VerifyCommitment(commitment)
      /\ leaf <= number
      /\ request_count' = request_count + 1
      /\ current_authority_set_id' = EnactAuthoritySet(commitment, leaf)
      /\ imported_commitments' =
           {c \in imported_commitments \cup {[block_number |-> number, genuine |-> commitment.genuine, parent |-> leaf - 1]} :
              c.block_number # ToPrune(index)}
      /\ imported_block_numbers' = [imported_block_numbers EXCEPT ![index] = number]
      /\ imported_commitments_info' =
           [best_block_number |-> number, next_block_number_index |-> (index + 1) % CommitmentsToKeep]
      /\ own_leaves' = (own_leaves /\ leaf = number)
      /\ UNCHANGED <<chain, owner, mode, initial_block_number>>

\* Mutant: no new block makes room for requests.
OnInitializeWithoutRelease == UNCHANGED vars

\* on_initialize.
OnInitialize ==
  /\ request_count' = IF request_count > 0 THEN request_count - 1 ELSE 0
  /\ UNCHANGED <<chain, owner, mode, imported_commitments_info, current_authority_set_id,
                 imported_block_numbers, imported_commitments, history>>

SetOwnerOrMode ==
  /\ OwnerStep
  /\ UNCHANGED <<chain, request_count, imported_commitments_info, current_authority_set_id,
                 imported_block_numbers, imported_commitments, history>>

-----------------------------------------------------------------------------
Init ==
  /\ chain = <<>>
  /\ owner \in Accounts \cup {None}
  /\ mode = "Halted"
  /\ request_count = 0
  /\ imported_commitments_info = None
  /\ current_authority_set_id = 0
  /\ imported_block_numbers = [i \in 0..(CommitmentsToKeep - 1) |-> None]
  /\ imported_commitments = {}
  /\ initial_block_number = None
  /\ own_leaves = TRUE

Next ==
  \/ \E c \in SignedCommitment, leaf \in Blocks : SubmitCommitment(c, leaf)
  \/ \E kind \in {"Default", "Finalized", "Handoff"} : AppendBlock(kind)
  \/ \E origin \in Origins, n \in Blocks \cup {0}, m \in OperatingModes : Initialize(origin, n, m)
  \/ OnInitialize
  \/ SetOwnerOrMode

Spec == Init /\ [][Next]_vars

\* A working relay submits the next hand-off block, or the best finalized one if
\* there is none, with all signatures.
Better == {n \in Finalized : imported_commitments_info # None /\ imported_commitments_info.best_block_number < n}
Mandatory == {n \in Better : chain[n] = "Handoff"}

SubmitNext ==
  \E n \in Better :
    /\ IF Mandatory = {} THEN \A m \in Better : n >= m ELSE n \in Mandatory /\ \A m \in Mandatory : n <= m
    /\ SubmitCommitment([block_number |-> n, validator_set_id |-> ValidatorSetId(n), genuine |-> TRUE,
                         signers |-> Validators], n)

FairSpec == Spec /\ WF_vars(SubmitNext) /\ WF_vars(OnInitialize)

-----------------------------------------------------------------------------
(* Correctness.                                                            *)

\* With less than a third of faulty validators, only commitments of the bridged
\* chain are imported, by the set that signs the block: two thirds of the
\* signatures plus one always include one of an honest validator
\* (signatures_required).
OnlyGenuineImported ==
  \A c \in imported_commitments : c.genuine /\ c.block_number \in Finalized

\* Whatever leaf is proved, no hand-off is jumped over: a commitment is accepted
\* only from the set that the last imported hand-off named (verify_commitment).
NoHandoffSkipped ==
  [][imported_commitments_info # None =>
       \A m \in Blocks :
         chain[m] = "Handoff" => ~ (imported_commitments_info.best_block_number < m
                                    /\ m < imported_commitments_info'.best_block_number)]_vars

\* The ring buffer and the map of commitments agree, and the best block that the
\* pallet reports can be looked up if it was imported (submit_commitment).
BestCommitmentStored ==
  LET numbers == {c.block_number : c \in imported_commitments}
  IN  /\ numbers = {imported_block_numbers[i] : i \in 0..(CommitmentsToKeep - 1)} \ {None}
      /\ \A c, d \in imported_commitments : c.block_number = d.block_number => c = d
      /\ imported_commitments_info # None /\ imported_commitments_info.best_block_number # initial_block_number =>
           imported_commitments_info.best_block_number \in numbers

\* The pallet's storage behaves as a light client.
Client == INSTANCE LightClient WITH
  HeadersToKeep <- CommitmentsToKeep,
  Numbers <- 1..MaxNumber,
  kept <- {c.block_number : c \in imported_commitments}

ClientSpec == Client!Spec

\* If all relays prove the leaf of the commitment's own block, as the tests do, the
\* stored set is the one that signs the block after the best one
\* (submit_commitment).  Another leaf may name an earlier set.
AuthoritySetFollowsChain ==
  own_leaves /\ imported_commitments_info # None =>
    current_authority_set_id = NextAuthoritySetId(imported_commitments_info.best_block_number)

\* Once initialized and not halted, the pallet catches up with BEEFY, if all relays
\* prove the leaf of the commitment's own block.
CatchesUp ==
  <>(imported_commitments_info # None) /\ <>[](mode = "Normal") =>
    \A n \in 1..MaxNumber :
      Len(chain) >= n /\ chain[n] # "Default"
        ~> \/ imported_commitments_info # None /\ imported_commitments_info.best_block_number >= n
           \/ ~own_leaves
=============================================================================
