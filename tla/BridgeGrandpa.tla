---------------------------- MODULE BridgeGrandpa ----------------------------
(***************************************************************************)
(* The GRANDPA light client (modules/grandpa): the pallet that imports     *)
(* finalized headers of a bridged chain, together with that chain.         *)
(*                                                                         *)
(* The bridged chain is the sequence of its finalized headers.  All that   *)
(* matters of a header is the change of GRANDPA authorities in its digest. *)
(* GRANDPA finalizes a single chain, so that a header's number stands for  *)
(* its hash, and the set in charge at a header has justified it: whoever   *)
(* submits a finality proof picks some finalized header.  How the pallet   *)
(* checks the justification itself is the subject of module Justification. *)
(***************************************************************************)
EXTENDS OwnedBridgeModule, Sequences, FiniteSets

CONSTANTS
  HeadersToKeep,   \* size of the ring buffer of imported headers
  MaxRequests,     \* limit on RequestCount
  Changes,         \* the digests that headers of the bridged chain may have
  MaxNumber        \* bound: length of the bridged chain

\* What a header's digest says of GRANDPA authorities: nothing, a change without
\* delay, one with more authorities than the pallet can store, one with a delay
\* (of one block, here), or a forced change.
AllChanges == {"None", "Scheduled", "TooManyAuthorities", "Delayed", "Forced"}

\* What try_enact_authority_change refuses.
Unsupported == {"TooManyAuthorities", "Delayed", "Forced"}

ASSUME GrandpaAssumption ==
  /\ HeadersToKeep \in Nat \ {0}
  /\ MaxRequests \in Nat
  /\ Changes \subseteq AllChanges
  /\ MaxNumber \in Nat
  /\ None \notin Accounts /\ None \notin Int

VARIABLES
  chain,                  \* digests of the bridged chain's finalized headers
  \* the pallet's storage
  request_count,          \* RequestCount
  best_finalized,         \* BestFinalized
  current_authority_set,  \* CurrentAuthoritySet
  imported_hashes,        \* ImportedHashes, the ring buffer
  imported_hashes_pointer,
  imported_headers,       \* keys of ImportedHeaders
  \* history
  imported                \* numbers of all headers ever imported, in order

ring == <<best_finalized, imported_hashes, imported_hashes_pointer, imported_headers, imported>>
vars == <<chain, owner, mode, request_count, current_authority_set, ring>>

-----------------------------------------------------------------------------
(* The bridged chain.                                                      *)

Headers == 1..Len(chain)

\* Header m's change applies to header n: header m is the last one that the old
\* authorities finalize, or the one before the last if the change is delayed.
AppliesTo(m, n) ==
  CASE chain[m] = "None" -> FALSE
    [] chain[m] = "Delayed" -> m + 1 < n
    [] OTHER -> m < n

\* The set that finalizes header n, named after the header that appoints it.
\* Each change increments the set's id.
AuthoritySetAt(n) ==
  LET appointing == {m \in Headers : AppliesTo(m, n)}
  IN  [authorities |-> CHOOSE m \in appointing \cup {0} : \A k \in appointing : k <= m,
       set_id |-> Cardinality(appointing)]

\* The chain's runtime signals no change while another one is pending.
FinalizeHeader(change) ==
  /\ Len(chain) < MaxNumber
  /\ chain # <<>> /\ chain[Len(chain)] = "Delayed" => change = "None"
  /\ chain' = Append(chain, change)
  /\ UNCHANGED <<owner, mode, request_count, current_authority_set, ring>>

-----------------------------------------------------------------------------
(* The pallet.                                                             *)

\* Mutant: pruning takes the slot that the pointer moves to, not the one it
\* leaves.
InsertHeaderPruneNext(number) ==
  LET index == imported_hashes_pointer
      next == (index + 1) % HeadersToKeep
  IN  /\ best_finalized' = number
      /\ imported_headers' = (imported_headers \cup {number}) \ {imported_hashes[next]}
      /\ imported_hashes' = [imported_hashes EXCEPT ![index] = number]
      /\ imported_hashes_pointer' = next
      /\ imported' = Append(imported, number)

\* Mutant: the pointer does not wrap around.
InsertHeaderUnbounded(number) ==
  LET index == imported_hashes_pointer
  IN  /\ best_finalized' = number
      /\ imported_headers' = imported_headers \cup {number}
      /\ imported_hashes' = [imported_hashes EXCEPT ![index % HeadersToKeep] = number]
      /\ imported_hashes_pointer' = index + 1
      /\ imported' = Append(imported, number)

\* insert_header.
InsertHeader(number) ==
  LET index == imported_hashes_pointer
      pruning == imported_hashes[index]
  IN  /\ best_finalized' = number
      /\ imported_headers' = (imported_headers \cup {number}) \ {pruning}
      /\ imported_hashes' = [imported_hashes EXCEPT ![index] = number]
      /\ imported_hashes_pointer' = (index + 1) % HeadersToKeep
      /\ imported' = Append(imported, number)

\* The authorities that the bridged chain's runtime reports at header n are those
\* that finalize the next header.
SourceAuthorities(n) == AuthoritySetAt(n + 1).authorities

SchedulesChange(n) == chain[n] \in {"Scheduled", "TooManyAuthorities", "Delayed"}

\* prepare_initialization_data of substrate-relay can find the id of the set that
\* has justified header n: no pending change makes it try the wrong authorities.
CanGuessSetId(n) ==
  /\ chain[n] # "Delayed"
  /\ (IF SchedulesChange(n) THEN SourceAuthorities(n - 1) ELSE SourceAuthorities(n))
       = AuthoritySetAt(n).authorities

\* prepare_initialization_data, if it can.
InitializationData(n) ==
  [authorities |-> SourceAuthorities(n),
   set_id |-> AuthoritySetAt(n).set_id + IF SchedulesChange(n) THEN 1 ELSE 0]

\* initialize: a trusted origin provides what substrate-relay has prepared.  The
\* pointer is zero already: nothing was imported before.
Initialize(origin, number, operating_mode) ==
  /\ EnsureOwnerOrRoot(origin)
  /\ best_finalized = None
  /\ CanGuessSetId(number)
  /\ SourceAuthorities(number) # 0 => chain[SourceAuthorities(number)] # "TooManyAuthorities"
  /\ InsertHeader(number)
  /\ current_authority_set' = InitializationData(number)
  /\ mode' = operating_mode
  /\ UNCHANGED <<chain, owner, request_count>>

\* Mutant: the authorities of a scheduled change are stored under the old id.
EnactWithOldSetId(number) ==
  IF chain[number] = "Scheduled"
  THEN [current_authority_set EXCEPT !.authorities = number]
  ELSE current_authority_set

\* try_enact_authority_change, if it does not fail.
EnactAuthorityChange(number) ==
  IF chain[number] = "Scheduled"
  THEN [authorities |-> number, set_id |-> current_authority_set.set_id + 1]
  ELSE current_authority_set

\* Mutant: the justification is not checked.
VerifyNothing(number) == TRUE

\* verify_justification: the set that the pallet knows has justified the header.
VerifyJustification(number) ==
  current_authority_set = AuthoritySetAt(number)

\* Mutant: the best header may be submitted again.
NotOlder(number) ==
  best_finalized # None /\ best_finalized <= number

\* SubmitFinalityProofHelper::check_obsolete.
NotObsolete(number) ==
  best_finalized # None /\ best_finalized < number

\* submit_finality_proof.
SubmitFinalityProof(number) ==
  /\ ~IsHalted
  /\ request_count < MaxRequests
  /\ NotObsolete(number)
  /\ VerifyJustification(number)
  /\ chain[number] \notin Unsupported
  /\ current_authority_set' = EnactAuthorityChange(number)
  /\ request_count' = request_count + 1
  /\ InsertHeader(number)
  /\ UNCHANGED <<chain, owner, mode>>

\* Mutant: no new block makes room for requests.
OnInitializeWithoutRelease ==
  UNCHANGED vars

\* on_initialize.
OnInitialize ==
  /\ request_count' = IF request_count > 0 THEN request_count - 1 ELSE 0
  /\ UNCHANGED <<chain, owner, mode, current_authority_set, ring>>

SetOwnerOrMode ==
  /\ OwnerStep
  /\ UNCHANGED <<chain, request_count, current_authority_set, ring>>

-----------------------------------------------------------------------------
Init ==
  /\ chain = <<>>
  /\ owner \in Accounts \cup {None}
  /\ mode = "Halted"
  /\ request_count = 0
  /\ best_finalized = None
  /\ current_authority_set = [authorities |-> 0, set_id |-> 0]
  /\ imported_hashes = [i \in 0..(HeadersToKeep - 1) |-> None]
  /\ imported_hashes_pointer = 0
  /\ imported_headers = {}
  /\ imported = <<>>

PalletNext ==
  \/ \E origin \in Origins, number \in Headers, m \in OperatingModes : Initialize(origin, number, m)
  \/ \E number \in Headers : SubmitFinalityProof(number)
  \/ OnInitialize
  \/ SetOwnerOrMode

Next ==
  \/ \E change \in Changes : FinalizeHeader(change)
  \/ PalletNext

Spec == Init /\ [][Next]_vars

\* What a working relay does: it submits the next header that changes authorities,
\* or the last finalized header if there is none.
Mandatory == {n \in Headers : best_finalized # None /\ best_finalized < n /\ chain[n] = "Scheduled"}

SubmitNext ==
  \E n \in Headers :
    /\ IF Mandatory = {} THEN n = Len(chain) ELSE n \in Mandatory /\ \A m \in Mandatory : n <= m
    /\ SubmitFinalityProof(n)

FairSpec == Spec /\ WF_vars(SubmitNext) /\ WF_vars(OnInitialize)

-----------------------------------------------------------------------------
(* Correctness.                                                            *)

TypeOK ==
  /\ chain \in Seq(AllChanges)
  /\ owner \in Accounts \cup {None}
  /\ mode \in OperatingModes
  /\ request_count \in 0..MaxRequests
  /\ best_finalized \in Headers \cup {None}
  /\ current_authority_set \in [authorities : Nat, set_id : Nat]
  /\ imported_hashes \in [0..(HeadersToKeep - 1) -> Headers \cup {None}]
  /\ imported_hashes_pointer \in 0..(HeadersToKeep - 1)
  /\ imported_headers \subseteq Headers
  /\ imported \in Seq(Headers)

\* The headers that the pallet has passed since it was initialized.
Passed == IF best_finalized = None THEN {} ELSE (imported[1] + 1)..best_finalized

\* No header that changes the authorities is ever skipped: "the pallet can't go
\* further without importing this header" (submit_finality_proof).
NoMandatoryHeaderSkipped ==
  \A n \in Passed : chain[n] = "Scheduled" => \E i \in 1..Len(imported) : imported[i] = n

\* Unless a change that the pallet does not support lies behind it, the stored
\* authority set, whose id the pallet computes itself, is the set that finalizes
\* the next header of the bridged chain.
AuthoritySetFollowsChain ==
  /\ best_finalized # None
  /\ \A n \in Passed : chain[n] \notin Unsupported
  => current_authority_set = AuthoritySetAt(best_finalized + 1)

\* The pallet stops at a change that it does not support, until governance
\* intervenes: it does not import the header of the change, nor any header that
\* the new authorities finalize (try_enact_authority_change).
StopsAtUnsupportedChange ==
  \A m \in Headers :
    /\ best_finalized # None
    /\ chain[m] \in Unsupported
    /\ imported[1] < m
    => m \notin imported_headers /\ ~AppliesTo(m, best_finalized)

\* The ring buffer and the map of headers agree, and hold the best header and the
\* most recently imported ones before it (insert_header).
Window(s) == {s[i] : i \in {j \in 1..Len(s) : j > Len(s) - HeadersToKeep}}

RecentHeadersKept ==
  /\ imported_headers = Window(imported)
  /\ imported_headers = {imported_hashes[i] : i \in 0..(HeadersToKeep - 1)} \ {None}
  /\ best_finalized # None => best_finalized \in imported_headers

\* The pallet's storage behaves as a light client: what falls out of the ring
\* buffer is the oldest header, and nothing else disappears.
Client == INSTANCE LightClient WITH
  Numbers <- 1..MaxNumber,
  kept <- imported_headers

ClientSpec == Client!Spec

\* Once initialized and not halted, the pallet catches up with the bridged chain,
\* however few requests a block allows, if the chain changes its authorities only
\* in ways that the pallet supports.
CatchesUp ==
  <>(best_finalized # None) /\ <>[](mode = "Normal") =>
    \A n \in 1..MaxNumber :
      Len(chain) >= n
        ~> \/ best_finalized # None /\ best_finalized >= n
           \/ \E m \in 1..Len(chain) : chain[m] \in Unsupported
=============================================================================
