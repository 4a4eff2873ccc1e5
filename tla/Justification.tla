---------------------------- MODULE Justification ----------------------------
(***************************************************************************)
(* GRANDPA justifications (primitives/header-chain/src/justification.rs):  *)
(* the loop of verify_justification_with_callbacks, one precommit at a     *)
(* time.  The relay runs it first, to drop the votes that the bridge       *)
(* pallet would reject (OptimizationCallbacks); the pallet runs it on what *)
(* is left (StrictVerificationCallbacks).  Justifications that nobody has  *)
(* optimized reach the pallet, too.                                        *)
(*                                                                         *)
(* A header's hash determines all of its ancestors.  A header is therefore *)
(* modelled by its path from the genesis header: its parent is the path    *)
(* without the last element, and its descendants extend it.                *)
(***************************************************************************)
EXTENDS Integers, Sequences, FiniteSets, FiniteSetsExt, Functions

CONSTANTS
  Authorities,    \* members of the VoterSet
  Weight,         \* their weights
  Strangers,      \* signers that are not in the VoterSet
  Headers,        \* headers that precommits and votes_ancestries may name
  Target,         \* the header to be finalized
  MaxPrecommits   \* bound: number of precommits in a justification

ASSUME JustificationAssumption ==
  /\ IsFiniteSet(Authorities) /\ Authorities # {}
  /\ Weight \in [Authorities -> Nat \ {0}]
  /\ Authorities \cap Strangers = {}
  /\ Headers \subseteq Seq(Nat)
  /\ Target \in Headers
  /\ MaxPrecommits \in Nat

VARIABLES
  callbacks,          \* "Optimization" or "StrictVerification"
  optimized,          \* the justification comes from the optimizer
  votes_ancestries,   \* headers in the justification
  precommits,         \* its precommits: the ones read so far, if callbacks are fresh
  precommit_idx,      \* number of precommits the loop is done with
  unvisited,          \* of the AncestryChain
  votes,              \* authorities that have voted
  cumulative_weight,
  invalid,            \* indices of precommits that the optimizer will remove
  result              \* "Pending", "Ok" or an error

vars == <<callbacks, optimized, votes_ancestries, precommits, precommit_idx,
          unvisited, votes, cumulative_weight, invalid, result>>

Precommit ==
  [id : Authorities \cup Strangers, target : Headers, signature_valid : BOOLEAN]

\* VoterSet::threshold.
TotalWeight == SumFunction(Weight)
Threshold == TotalWeight - (TotalWeight - 1) \div 3

\* required_justification_precommits.
RequiredJustificationPrecommits(authorities_set_length) ==
  authorities_set_length
    - (IF authorities_set_length = 0 THEN 0 ELSE authorities_set_length - 1) \div 3

-----------------------------------------------------------------------------
(* AncestryChain::ensure_descendant.                                       *)

Ancestor(header, k) == SubSeq(header, 1, k)

\* Where the walk from a header to its ancestors ends: at the target, at a header
\* without a known parent, or at one that was visited before.
Stops(header) ==
  {k \in 0..Len(header) :
     \/ Ancestor(header, k) = Target
     \/ Ancestor(header, k) \notin votes_ancestries
     \/ Ancestor(header, k) \notin unvisited}

\* The genesis header has no parent, so that the walk ends there at the latest.
EnsureDescendant(header) ==
  LET last == Ancestor(header, Max(Stops(header)))
  IN  Stops(header) # {} /\ (last = Target \/ last \in votes_ancestries)

Visited(header) ==
  {Ancestor(header, k) : k \in {j \in 0..Len(header) : \A s \in Stops(header) : j > s}}

-----------------------------------------------------------------------------
(* verify_justification_with_callbacks.                                    *)

\* Mutant: one vote more than necessary is not redundant.
RedundantAboveThreshold == cumulative_weight > Threshold

Redundant == cumulative_weight >= Threshold

\* Mutant: a second vote of an authority is as good as the first.
IgnoresUnknownOnly(signed) ==
  CASE Redundant -> "RedundantVotesInJustification"
    [] ~Redundant /\ signed.id \notin Authorities -> "UnknownAuthorityVote"
    [] OTHER -> "None"

\* Why a precommit does not count: the error that StrictVerificationCallbacks
\* returns, and that OptimizationCallbacks do not.
Ignored(signed) ==
  CASE Redundant -> "RedundantVotesInJustification"
    [] ~Redundant /\ signed.id \notin Authorities -> "UnknownAuthorityVote"
    [] ~Redundant /\ signed.id \in votes -> "DuplicateAuthorityVote"
    [] OTHER -> "None"

\* The error for a precommit that counts, or "Pending" if there is none.
CountedResult(signed) ==
  CASE Len(signed.target) < Len(Target) \/ ~EnsureDescendant(signed.target)
         -> "PrecommitIsNotCommitDescendant"
    [] ~signed.signature_valid -> "InvalidAuthoritySignature"
    [] OTHER -> "Pending"

\* Mutant: the optimizer is told of redundant votes, but does not remove them.
MarkedUnlessRedundant == IF Redundant THEN invalid ELSE invalid \cup {precommit_idx + 1}

\* on_redundant_authority_vote etc. of OptimizationCallbacks.
Marked == invalid \cup {precommit_idx + 1}

\* One turn of the loop.
Process(signed) ==
  /\ precommit_idx' = precommit_idx + 1
  /\ IF Ignored(signed) # "None"
     THEN /\ IF callbacks = "Optimization"
             THEN invalid' = Marked /\ UNCHANGED result
             ELSE result' = Ignored(signed) /\ UNCHANGED invalid
          /\ UNCHANGED <<unvisited, votes, cumulative_weight>>
     ELSE /\ votes' = votes \cup {signed.id}
          /\ result' = CountedResult(signed)
          /\ unvisited' = unvisited \ Visited(signed.target)
          /\ cumulative_weight' = cumulative_weight + Weight[signed.id]
          /\ UNCHANGED invalid
  /\ UNCHANGED <<callbacks, optimized, votes_ancestries>>

\* The loop reads a precommit of a justification that somebody has made: which one
\* it is does not matter before.
ReadPrecommit(signed) ==
  /\ result = "Pending"
  /\ ~optimized
  /\ precommit_idx < MaxPrecommits
  /\ precommits' = Append(precommits, signed)
  /\ Process(signed)

\* The loop reads a precommit of an optimized justification.
NextPrecommit ==
  /\ result = "Pending"
  /\ optimized
  /\ precommit_idx < Len(precommits)
  /\ Process(precommits[precommit_idx + 1])
  /\ UNCHANGED precommits

\* The checks after the loop.
FinalResult ==
  CASE unvisited # {} -> "ExtraHeadersInVotesAncestries"
    [] unvisited = {} /\ cumulative_weight >= Threshold -> "Ok"
    [] OTHER -> "TooLowCumulativeWeight"

Finish ==
  /\ result = "Pending"
  /\ optimized => precommit_idx = Len(precommits)
  /\ result' = FinalResult
  /\ UNCHANGED <<callbacks, optimized, votes_ancestries, precommits, precommit_idx,
                 unvisited, votes, cumulative_weight, invalid>>

\* OptimizationCallbacks::optimize.
Kept == SelectSeq([i \in 1..Len(precommits) |-> i], LAMBDA i : i \notin invalid)

Optimize == [i \in 1..Len(Kept) |-> precommits[Kept[i]]]

\* The pallet verifies what the relay has optimized.
SubmitOptimized ==
  /\ callbacks = "Optimization"
  /\ result = "Ok"
  /\ callbacks' = "StrictVerification"
  /\ optimized' = TRUE
  /\ precommits' = Optimize
  /\ precommit_idx' = 0
  /\ unvisited' = votes_ancestries
  /\ votes' = {}
  /\ cumulative_weight' = 0
  /\ invalid' = {}
  /\ result' = "Pending"
  /\ UNCHANGED votes_ancestries

-----------------------------------------------------------------------------
Init ==
  /\ callbacks \in {"Optimization", "StrictVerification"}
  /\ optimized = FALSE
  /\ votes_ancestries \in SUBSET Headers
  /\ precommits = <<>>
  /\ precommit_idx = 0
  /\ unvisited = votes_ancestries
  /\ votes = {}
  /\ cumulative_weight = 0
  /\ invalid = {}
  /\ result = "Pending"

Next ==
  \/ \E signed \in Precommit : ReadPrecommit(signed)
  \/ NextPrecommit
  \/ Finish
  \/ SubmitOptimized

Spec == Init /\ [][Next]_vars

-----------------------------------------------------------------------------
(* Correctness.                                                            *)

Indices == 1..Len(precommits)

Extends(header, base) == Len(base) <= Len(header) /\ SubSeq(header, 1, Len(base)) = base

\* The headers between the target and its descendant, with the descendant.
Route(header) == {Ancestor(header, k) : k \in (Len(Target) + 1)..Len(header)}

\* A vote that GRANDPA counts in favour of the target.
Supports(signed) ==
  signed.id \in Authorities /\ signed.signature_valid /\ Extends(signed.target, Target)

Supporters == {precommits[i].id : i \in {j \in Indices : Supports(precommits[j])}}

\* Whoever verifies a justification, it is only accepted if authorities with a
\* supermajority of the weight have signed for the target or its descendants, and
\* the routes to these are complete.  The walk of ensure_descendant may stop
\* early, where another vote came along before.
AcceptedMeansFinalized ==
  result = "Ok" =>
    /\ SumFunctionOnSet(Weight, Supporters) >= Threshold
    /\ votes_ancestries = UNION {Route(precommits[i].target) : i \in Indices \ invalid}

\* What the optimizer returns passes the strict checks of the pallet, so that a
\* transaction with it does not fail because of the votes in it.
OptimizedIsAccepted ==
  optimized => result \in {"Pending", "Ok"}

\* The pallet "will reject justifications with invalid, duplicate, unknown and
\* extra signatures" (submit_finality_proof_info_from_args): each vote in an
\* accepted justification is needed.  With equal weights there are as many as
\* required_justification_precommits says.
AcceptedIsMinimal ==
  callbacks = "StrictVerification" /\ result = "Ok" =>
    /\ \A i \in Indices : Supports(precommits[i])
    /\ SumFunctionOnSet(Weight, {precommits[i].id : i \in Indices \ {Len(precommits)}}) < Threshold
    /\ (\A a, b \in Authorities : Weight[a] = Weight[b]) =>
         Len(precommits) = RequiredJustificationPrecommits(Cardinality(Authorities))

\* A justification that GRANDPA voters make: one vote of each of some authorities
\* with a supermajority, and the ancestry of all of these votes.
Genuine ==
  /\ \A i \in Indices : Supports(precommits[i])
  /\ \A i, j \in Indices : i # j => precommits[i].id # precommits[j].id
  /\ SumFunctionOnSet(Weight, Supporters) >= Threshold
  /\ votes_ancestries = UNION {Route(precommits[i].target) : i \in Indices}

\* "redundant_authority_votes_are_removed_by_optimizer": a justification with more
\* votes than necessary is optimized.  This is not so if only a redundant vote needs
\* some of the headers in votes_ancestries: the vote goes, its headers stay.
RedundantVotesRemoved ==
  callbacks = "Optimization" /\ result # "Pending" /\ Genuine => result = "Ok"
=============================================================================
