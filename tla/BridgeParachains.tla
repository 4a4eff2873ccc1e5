-------------------------- MODULE BridgeParachains --------------------------
(***************************************************************************)
(* The parachains light client (modules/parachains) on top of the GRANDPA  *)
(* light client of the relay chain: BridgeGrandpa's chain is the relay     *)
(* chain, and every relay block stores the heads of its parachains.        *)
(*                                                                         *)
(* A parachain's head is modelled by its number, and so is its hash: heads *)
(* of a parachain only move forward.  The head is missing before the       *)
(* parachain is registered and after it is offboarded.  Whoever submits    *)
(* heads says at which relay block and which hashes they have, and proves  *)
(* what the block's storage holds: the claims and the proof need not agree.*)
(***************************************************************************)
EXTENDS BridgeGrandpa, Functions, SequencesExt

CONSTANTS
  Parachains,         \* all parachains of the relay chain
  TrackedParachains,  \* the ones for which ParaStoredHeaderDataBuilder has data
  LargeHeads,         \* <<parachain, head>> whose stored data exceeds MaxParaHeadDataSize
  HeadsToKeep,        \* size of a parachain's ring buffer
  ParaHeads,          \* bound: what relay blocks may store for each parachain
  MaxEntries          \* bound: entries of a call

ASSUME ParachainsAssumption ==
  /\ TrackedParachains \subseteq Parachains
  /\ HeadsToKeep \in Nat \ {0}
  /\ \A p \in Parachains : ParaHeads[p] \subseteq Nat \cup {None}
  /\ MaxEntries \in Nat

VARIABLES
  heads,                 \* heads[n][p]: what relay block n stores for parachain p
  best_heads,            \* the head that each parachain has reached
  \* the pallet's storage
  paras_owner,           \* PalletOwner
  paras_mode,            \* PalletOperatingMode
  paras_info,            \* ParasInfo
  imported_para_hashes,  \* ImportedParaHashes, a ring buffer per parachain
  imported_para_heads    \* ImportedParaHeads, per parachain: head data by hash

Paras == INSTANCE OwnedBridgeModule WITH owner <- paras_owner, mode <- paras_mode

relayVars == <<vars, heads, best_heads>>
storage == <<paras_info, imported_para_hashes, imported_para_heads>>
paraVars == <<relayVars, paras_owner, paras_mode, storage>>

-----------------------------------------------------------------------------
(* The relay chain.                                                        *)

\* A relay block in which some parachains have a new head, and some none.
FinalizeRelayBlock(change, stored) ==
  /\ FinalizeHeader(change)
  /\ heads' = Append(heads, stored)
  /\ best_heads' = [p \in Parachains |-> IF stored[p] = None THEN best_heads[p] ELSE stored[p]]
  /\ UNCHANGED <<paras_owner, paras_mode, storage>>

\* What the next relay block may store for parachain p.
NextHeads(p) == {h \in ParaHeads[p] : h # None => h >= best_heads[p]}

-----------------------------------------------------------------------------
(* The pallet.                                                             *)

\* Mutants of IsObsolete: the head is not compared with the best one ...
IsObsoleteByNumber(info, number, hash) ==
  info # None /\ info.at_relay_block_number >= number

\* ... only the head is, not the relay block ...
IsObsoleteByHead(info, number, hash) ==
  info # None /\ info.head_hash = hash

\* ... and the relay block after that of the best head is obsolete, too.
IsObsoleteNextBlock(info, number, hash) ==
  info # None /\ info.at_relay_block_number + 1 >= number

\* SubmitParachainHeadsHelper::is_obsolete.
IsObsolete(info, number, hash) ==
  /\ info # None
  /\ \/ info.at_relay_block_number >= number
     \/ info.head_hash = hash

\* Mutant: each head takes the first slot of the ring buffer.
FirstPosition(info) == 0

\* The slot of the ring buffer that update_parachain_head replaces.
Position(info) == IF info = None THEN 0 ELSE info.next_imported_hash_position

\* update_parachain_head, if the head is neither obsolete nor too large: s is the
\* pallet's storage, and the head of the slot is removed after the insertion.
UpdateParachainHead(s, para, number, head, hash) ==
  LET position == Position(s.info[para])
      heads_by_hash == [h \in DOMAIN s.heads[para] \cup {hash} |->
                          IF h = hash THEN head ELSE s.heads[para][h]]
  IN  [info |-> [s.info EXCEPT ![para] =
                   [at_relay_block_number |-> number,
                    head_hash |-> hash,
                    next_imported_hash_position |-> (position + 1) % HeadsToKeep]],
       hashes |-> [s.hashes EXCEPT ![para][position] = hash],
       heads |-> [s.heads EXCEPT ![para] =
                    Restrict(heads_by_hash, DOMAIN heads_by_hash \ {s.hashes[para][position]})]]

\* read_parachain_head: the proof holds the heads of some parachains at relay block
\* at.  A head that it does not hold is skipped as one that the block does not store.
ReadParachainHead(at, proved, para) == IF para \in proved THEN heads[at][para] ELSE None

\* One round of the loop of submit_parachain_heads: an entry that fails one of the
\* checks, those of update_parachain_head included, is skipped.
ApplyEntry(s, number, at, proved, entry) ==
  LET head == ReadParachainHead(at, proved, entry.para)
  IN  IF /\ head # None
         /\ entry.hash = head
         /\ entry.para \in TrackedParachains
         /\ ~IsObsolete(s.info[entry.para], number, entry.hash)
         /\ <<entry.para, head>> \notin LargeHeads
      THEN UpdateParachainHead(s, entry.para, number, head, entry.hash)
      ELSE s

ParaStorage == [info |-> paras_info, hashes |-> imported_para_hashes, heads |-> imported_para_heads]

\* Mutant: the first entry that is skipped ends the loop.
ApplyEntriesUntilSkipped(number, at, proved, entries) ==
  LET after[i \in 0..Len(entries)] ==
        IF i = 0 THEN ParaStorage
        ELSE IF i > 1 /\ after[i - 1] = ParaStorage THEN ParaStorage
        ELSE ApplyEntry(after[i - 1], number, at, proved, entries[i])
  IN  after[Len(entries)]

\* The loop of submit_parachain_heads: the storage after the first i entries.
ApplyEntries(number, at, proved, entries) ==
  LET after[i \in 0..Len(entries)] ==
        IF i = 0 THEN ParaStorage
        ELSE ApplyEntry(after[i - 1], number, at, proved, entries[i])
  IN  after[Len(entries)]

\* The parachains that the entries name.
Named(entries) == {entries[i].para : i \in 1..Len(entries)}

\* Mutant: the number of the relay block is not compared with that of the header.
AnyNumber(number, at) == TRUE

\* The imported header has the number that the submitter names.
IsNumberOf(number, at) == number = at

\* submit_parachain_heads: at names the relay block whose storage is proved.  A proof
\* with nodes that no entry has read fails the call.
SubmitParachainHeads(number, at, proved, entries) ==
  /\ ~Paras!IsHalted
  /\ at \in imported_headers
  /\ IsNumberOf(number, at)
  /\ proved \subseteq Named(entries)
  /\ LET after == ApplyEntries(number, at, proved, entries)
     IN  /\ paras_info' = after.info
         /\ imported_para_hashes' = after.hashes
         /\ imported_para_heads' = after.heads
  /\ UNCHANGED <<relayVars, paras_owner, paras_mode>>

SetParasOwnerOrMode ==
  /\ Paras!OwnerStep
  /\ UNCHANGED <<relayVars, storage>>

-----------------------------------------------------------------------------
ParaInit ==
  /\ Init
  /\ heads = <<>>
  /\ best_heads = [p \in Parachains |-> 0]
  /\ paras_owner \in Accounts \cup {None}
  /\ paras_mode \in OperatingModes
  /\ paras_info = [p \in Parachains |-> None]
  /\ imported_para_hashes = [p \in Parachains |-> [i \in 0..(HeadsToKeep - 1) |-> None]]
  /\ imported_para_heads = [p \in Parachains |-> <<>>]

StoredHeads ==
  {s \in [Parachains -> UNION {NextHeads(p) : p \in Parachains}] :
     \A p \in Parachains : s[p] \in NextHeads(p)}

\* What a submitter may claim: the heads that it has read at some relay blocks.
Entries == {e \in [para : Parachains, hash : UNION {Range(heads[n]) : n \in Headers} \ {None}] :
              \E n \in Headers : heads[n][e.para] = e.hash}
Calls == SeqOf(Entries, MaxEntries)

ParaNext ==
  \/ \E change \in Changes, stored \in StoredHeads : FinalizeRelayBlock(change, stored)
  \/ PalletNext /\ UNCHANGED <<heads, best_heads, paras_owner, paras_mode, storage>>
  \/ \E entries \in Calls, number \in Headers, at \in imported_headers, proved \in SUBSET Parachains :
       SubmitParachainHeads(number, at, proved, entries)
  \/ SetParasOwnerOrMode

ParaSpec == ParaInit /\ [][ParaNext]_paraVars

\* The relays at work: one for the relay chain's headers, and one that proves a
\* parachain's head at the best relay block that the GRANDPA pallet knows.
SubmitRelayHeader == SubmitNext /\ UNCHANGED <<heads, best_heads, paras_owner, paras_mode, storage>>
SubmitBestHead(p) ==
  /\ best_finalized # None
  /\ SubmitParachainHeads(best_finalized, best_finalized, {p},
       <<[para |-> p, hash |-> heads[best_finalized][p]]>>)
NewBlock == OnInitialize /\ UNCHANGED <<heads, best_heads, paras_owner, paras_mode, storage>>

ParaFairSpec ==
  /\ ParaSpec
  /\ WF_paraVars(SubmitRelayHeader)
  /\ WF_paraVars(NewBlock)
  /\ \A p \in Parachains : WF_paraVars(SubmitBestHead(p))

-----------------------------------------------------------------------------
(* Correctness.                                                            *)

\* However the claims, the proof and the imported relay headers disagree, what the
\* pallet believes is what the relay chain finalized: the relay block of ParasInfo,
\* whose number orders later updates, is one that the GRANDPA pallet has reached and
\* does store the best head, and the data under each hash are those of the head with
\* that hash (submit_parachain_heads).
HeadsAreFinalized ==
  \A p \in Parachains :
    /\ \A h \in DOMAIN imported_para_heads[p] : imported_para_heads[p][h] = h
    /\ paras_info[p] # None =>
         LET at == paras_info[p].at_relay_block_number
         IN  /\ at \in Headers /\ at <= best_finalized
             /\ heads[at][p] = paras_info[p].head_hash

\* Each parachain fares in a call as it would if it were alone in it: an entry that
\* is untracked, missing, too large, obsolete or wrong takes no other entry down,
\* wherever it stands (the loop of submit_parachain_heads).
EntriesAreIndependent ==
  \A entries \in Calls, at \in imported_headers :
    \A proved \in SUBSET Named(entries) :
      LET together == ApplyEntries(at, at, proved, entries)
      IN  \A p \in Named(entries) :
            LET alone == ApplyEntries(at, at, proved, SelectSeq(entries, LAMBDA e : e.para = p))
            IN  /\ together.info[p] = alone.info[p]
                /\ together.hashes[p] = alone.hashes[p]
                /\ together.heads[p] = alone.heads[p]

\* The ring buffer of a parachain and its map of heads agree, and the best head
\* is in the map, where finalized_header_state_root finds it.
BestHeadStored ==
  \A p \in Parachains :
    /\ DOMAIN imported_para_heads[p] = {imported_para_hashes[p][i] : i \in 0..(HeadsToKeep - 1)} \ {None}
    /\ paras_info[p] # None => paras_info[p].head_hash \in DOMAIN imported_para_heads[p]

\* A parachain's best head never goes back: without the check of is_obsolete, "we
\* may import heads in random order" (update_parachain_head), as the proofs may
\* come from any relay block that the GRANDPA pallet still knows.
BestHeadMovesForward ==
  [][\A p \in Parachains :
       paras_info[p] # None /\ paras_info'[p] # paras_info[p] =>
         /\ paras_info'[p] # None
         /\ paras_info'[p].head_hash > paras_info[p].head_hash]_paraVars

\* For each parachain, the pallet's storage behaves as a light client of its own.
ParaClient(p) == INSTANCE LightClient WITH
  HeadersToKeep <- HeadsToKeep,
  Numbers <- ParaHeads[p] \ {None},
  kept <- DOMAIN imported_para_heads[p]

ParaClientSpec ==
  /\ \A p \in Parachains : ParaClient(p)!Init
  /\ [][\A p \in Parachains :
         (DOMAIN imported_para_heads[p])' # DOMAIN imported_para_heads[p] => ParaClient(p)!Next]_paraVars

\* The pallet knows the head of parachain p in the last finalized relay block, if
\* that block has one that is not too large.
KnowsLastHead(p) ==
  LET n == Len(chain)
  IN  n > 0 /\ heads[n][p] # None /\ <<p, heads[n][p]>> \notin LargeHeads =>
        paras_info[p] # None /\ paras_info[p].head_hash = heads[n][p]

\* While the relay chain has nothing new, each tracked parachain catches up with it,
\* however the heads of the other parachains fare.
HeadsCatchUp ==
  <>(best_finalized # None) /\ <>[](mode = "Normal" /\ paras_mode = "Normal") =>
    \A p \in TrackedParachains : []<>KnowsLastHead(p)
=============================================================================
