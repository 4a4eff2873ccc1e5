# TLA+ models of the Parity bridge

This directory specifies the protocols of this repository in TLA+, model-checks
them with TLC on small instances, and proves the most important properties with
TLAPS for every value of the constants.

## 1. The system and its parts

Two chains cannot see each other. Each runs a *light client* of the other
(pallets `grandpa`, `parachains`, `beefy`), to which anyone may submit finality
proofs. The `messages` pallets of both chains exchange messages over *lanes*:
what one chain stores, the other learns through storage proofs at headers that
its light client has imported. *Relayers* are off-chain processes that carry
headers, messages and delivery confirmations; they are paid through the
`relayers` pallet and a transaction extension.

| part | state | operations | hard behaviour | what it must guarantee |
|---|---|---|---|---|
| `modules/messages` | outbound and inbound lane data, stored messages, operating mode | `send_message`, `receive_messages_proof`, `receive_messages_delivery_proof`, pruning in `on_idle`, mode changes | proofs that are stale, duplicated, reordered or contended; both lane limits; weight that runs out in the middle of a batch | messages are dispatched exactly once and in order, none is lost, each earns one reward |
| `modules/grandpa` | imported headers in a ring buffer, current authority set, request counter, owner, mode | `initialize`, `submit_finality_proof`, `set_owner`, `set_operating_mode`, `on_initialize` | anyone picks which header comes next; authority changes of all kinds; wrap-around; throttling | follows the finalized chain and its authorities, keeps the last headers |
| justifications (`primitives/header-chain`) | the loop over precommits, the ancestry chain | strict verification in the pallet, optimization in the relay | duplicate, unknown, redundant and stray votes, ancestry headers nobody needs | what is accepted has a supermajority; what the relay optimizes is accepted |
| `modules/parachains` | best head and ring buffer of heads per parachain | `submit_parachain_heads`, owner and mode | heads proved at older relay blocks; several parachains in one call; relay headers pruned meanwhile | best heads only move forward and can be looked up |
| `modules/beefy` | imported commitments in a ring buffer, next authority set | `initialize`, `submit_commitment`, owner and mode, `on_initialize` | skipped commitments, hand-offs, faulty validators, proofs of other leaves | only commitments of the chain; no hand-off is jumped over |
| `modules/relayers`, refund extension, filters (`bin/runtime-common`) | rewards per relayer and account | `validate`, `pre_dispatch`, `post_dispatch`, `register_relayer_reward`, `claim_rewards` | several relayers with the same headers and messages; batches that move only part of the bridge | one refund per message, no reward lost or doubled |
| relays (`relays/*`) | queues of nonces, tracked transactions, progress of loops | race loops, strategies, finality and parachains loops, on-demand relays | asynchronous results in any order, lost transactions, forks, reconnects | nothing is skipped, transactions in flight are not repeated, the lane is not blocked |

`PROJECT.json` lists all components, with the reason for each one that is left
out, and the hazards with the properties that cover them.

## 2. Modules

| module | models | corresponds to |
|---|---|---|
| `OutboundLane` | operators on `OutboundLaneData` | `modules/messages/src/outbound_lane.rs` |
| `InboundLane` | operators on `InboundLaneData` | `modules/messages/src/inbound_lane.rs` |
| `MessagesBridge` | both messages pallets, the light clients between them, any number of relayers | `modules/messages/src/lib.rs`, `bin/runtime-common/src/messages.rs` |
| `MessageChannel` | what a lane promises (abstract) | |
| `LightClient` | what the storage of a light client promises (abstract): numbers grow, the last `HeadersToKeep` are kept | |
| `OwnedBridgeModule` | owner and operating mode | `primitives/runtime/src/lib.rs` |
| `BridgeGrandpa` | the GRANDPA pallet and a bridged chain | `modules/grandpa`, `prepare_initialization_data` of the relay |
| `BridgeParachains` | the parachains pallet on top of `BridgeGrandpa` | `modules/parachains` |
| `BridgeBeefy` | the BEEFY pallet and a bridged chain | `modules/beefy` |
| `Justification` | verification and optimization of justifications | `primitives/header-chain/src/justification.rs` |
| `RelayerRewards` | refunds, rewards and claims | `refund_relayer_extension.rs`, `messages_call_ext.rs`, `modules/relayers` |
| `DeliveryStrategy` | what a messages relay knows of a lane and what it selects, as operators | `message_race_strategy.rs`, `message_race_delivery.rs`, `message_race_limits.rs` |
| `DeliveryRace` | the delivery race of a messages relay between two chains | `message_race_loop.rs`, `message_lane_loop.rs`, `relays/utils`, `messages_target.rs` |
| `MC*` | instances for TLC | |
| `RingBuffer` | facts about ring buffers of any size | |
| `InboundLane_proofs`, `MessagesBridge_proofs`, `BridgeGrandpa_proofs`, `BridgeBeefy_proofs` | theorems | |

Each call of a pallet is one atomic action, as it is in a block: a call that
returns an error changes nothing, so that the checks of a call are the guard of
its action. Hashes of headers stand for the headers themselves: GRANDPA and BEEFY
finalize one chain, so that a number determines a header. A storage proof at an
imported header shows what the other chain stored at that header.

**Messages.** `MessagesBridge` has the storage of both pallets, and for each
chain the set of states of the other one that its light client has imported.
`ImportSourceHeader` and `ImportTargetHeader` may happen at any time and relayers
may prove any imported state, however old, so that all delays, duplicates and reorderings
of relayers are behaviours of the model. The light clients are reduced to the
states that are still known; their own modules show that they deliver such
states, and the safety proofs hold for any number of them. `InboundLane` gives
the loop of `receive_messages_proof` in closed form (`ReceiveMessages`); theorem
`ReceiveMessagesIsLoop` shows that this is what calling `receive_message` for
each message does.

**GRANDPA.** The bridged chain is a sequence of header digests. An authority set
is named after the header that appoints it, and its id counts changes: the pallet
verifies a header if the set that it stores is the one that finalized the header.
Whoever submits a proof picks any finalized header. A chain's runtime does not
signal a change while another is pending.

**Parachains.** `BridgeParachains` extends `BridgeGrandpa`: heads are proved at
relay headers that the GRANDPA pallet holds at that moment. A call names the
number and the header of a relay block and a list of parachains with the hashes of
their heads, and comes with a proof of what that header's state holds for some
parachains. Number, header, hashes (read at any relay block) and proof are chosen
apart from each other, and the pallet compares them: the wrong number and a proof
with unused nodes fail the call, a wrong hash or a missing, untracked, obsolete or
oversized head skips the entry. `ApplyEntries` is the loop over the entries. Heads
of a parachain are numbered and do not repeat.

**BEEFY.** Up to a third of the validators may sign anything. A commitment is
proved with the leaf of any block under its root, as `verify_beefy_mmr_leaf`
allows. `AuthoritySetFollowsChain` and `CatchesUp` are stated for runs in which
each leaf was that of the commitment's own block, as in the pallet's tests (the
history variable `own_leaves`): after a hand-off block is imported with an older
leaf, the stored set is still the old one, which signs nothing any more.

**Justifications.** Headers are paths in a tree, a justification is a sequence of
precommits (of authorities or strangers, with good or bad signatures, for any
header) and a set of ancestry headers. One action reads one precommit.

**Rewards.** A step is a successful transaction with a batch of any calls; the
pallets are reduced to the values that the extension reads before and after. A
confirmation proves the queue of unrewarded relayers, which may still hold entries
that were rewarded before; `PayReward` clips it to the newly confirmed nonces, and
credits the relayer that sends the confirmation after all others, as the payment
adapter does. A claim takes the reward and may fail to pay it (`AfterClaim`). A
refund is one unit, a delivery `DeliveryReward` units; saturation is left out.

**Messages relay.** `relay` holds the local variables of the race loop. An action
is one arm of `select!` with the requests that the loop starts after it
(`Schedule`): the source is asked for a proof or for nonces, the target takes a
transaction, a required header or a read of nonces, in the order of the code. A
request remembers the block it is about and is answered with the state of that
block, however late. Whether the target has batch calls is fixed per relay. The
target chain is the sequence of its blocks from the last finalized one, each
reduced to the inbound lane and the best known source header; it forks, and
another relayer may deliver. Simplifications: the best and the finalized block
are read together, as `TargetClientState` is; blocks that do not touch the lane
are left out unless the relay learns something at them; known headers are not
pruned; an obsolete transaction is mined without effect; a transaction that is
retracted when nobody tracks it is gone; weight and size are one number.

## 3. Runs

| run | shows | states |
|---|---|---|
| `lane_safety` | exactly-once in-order dispatch, storage of unconfirmed messages, limits, rewards, the inductive invariants of the proofs, refinement of `MessageChannel` | two relayers, two known headers per chain |
| `lane_liveness` | accepted messages are delivered, confirmed and pruned; the queue limit | queue of one entry, halted pallets |
| `lane_queue_nonces` | a comment that the code does not keep to | violation |
| `grandpa` | mandatory headers, set ids, unsupported changes, ring buffer, refinement of `LightClient`, progress | all chains of 4 headers, 5 digests, ring of 2, 2 requests per block |
| `parachains` | what is imported is what the named block stores, entries of a call do not affect each other, best heads move forward and are stored, refinement of `LightClient` per parachain, progress | 3 relay blocks, 3 parachains (one untracked, one with a head too large), rings of 2, calls with 2 entries |
| `justification_safety` | accepted means finalized and minimal; optimized means accepted | 4 authorities and a stranger, 4 headers, 4 precommits |
| `justification_redundant` | the optimizer fails on a redundant vote with ancestry of its own | violation |
| `beefy` | genuine commitments only, hand-offs, ring buffer, refinement of `LightClient`, progress | 4 validators, one faulty, all chains of 4 blocks |
| `relayer_rewards` | one refund per message, only for progress, rewards add up | 2 relayers, 3 relay blocks, 2 messages each way, payments that fail |
| `delivery_race` | no nonce is skipped; undisturbed, the relay has one transaction in the pool at a time, which continues where the target left off and succeeds if there is room; the lane is not blocked but in the way of finding 4 | 2 or 3 messages, room for one unconfirmed, one disturbance |
| `race_reorg`, `race_blocked_lane` | findings 3 and 4 | violations |

*Bounds.* Rings of two entries wrap around twice in chains of four headers. Four
authorities are the least with a threshold (3) that differs from both one half
and all; one precommit more than the threshold makes redundant votes possible.
Four validators are the least that tolerate a faulty one. Two relayers and two
known headers make stale, competing and reordered proofs; queues of one or two
entries reach both limits. Two entries of a call suffice for one that is skipped
before or after one that is not, or for the same parachain twice. In the race, a disturbance is an error, a lost
transaction, a reconnect, a fork, a rival's delivery or a new message; one of them
at any point of any interleaving is enough for every hazard listed for the loop
but finding 3, which takes two. With room for one unconfirmed message each
message needs the confirmation of the one before. Deadlock checking is off only where the named bounds
end the run (`CHECK_DEADLOCK FALSE` in the cfg).

*Fairness.* Blocks keep coming (`OnInitialize`), and some relay keeps submitting
what is needed next: the next mandatory header before others, heads at the best
relay header, messages and confirmations at the newest header. Nothing is assumed
of a particular relayer, of owners (liveness of the light clients is conditional
on the pallet not staying halted) or of which proof wins a race. In `DeliveryRace`
each future of the loop completes, blocks are made and finalized, the on-demand
relay brings the header it was asked for and the confirmation race works (weak
fairness). A new block is reported to the race again and again
(`source_tick_stream`, `target_tick_stream`), hence strong fairness of
`SourceState` and `TargetState`: each block is different for the code, although
the model leaves out those that it need not tell apart.

## 4. Findings

1. `inbound_lane.rs:156`: an entry that begins at the newly confirmed nonce keeps
   it, against the comment on `InboundLaneData::relayers`. Harmless for rewards.
2. `justification.rs:323`: with the optimizing callbacks, a redundant vote is
   skipped before its ancestry is visited, so that optimization fails where the
   test's name promises that the vote is removed.
3. `message_race_strategy.rs:242`: a relay that starts while the best target block
   holds a delivery of another relayer queues only what comes after it. If that
   block is retracted, the earlier nonce is never read and nothing can be
   delivered until the relay restarts or another one delivers it.
4. `message_race_delivery.rs:413`: when nonces are finalized at the target, the
   relay drops what it knows of confirmed nonces below the best source header at the
   target, the last one included. It then takes all delivered messages for
   confirmed and repeats a delivery that the inbound lane has no room for, without
   end if each answer with the source's nonces arrives after the submission is
   completed.

Also seen, without a run: `runtime-common/messages.rs:223` accepts one more pending
message than the documented maximum.

## 5. Proofs

Proved with TLAPS, for any relayers, validators, chains, ring sizes, limits and bounds:

* `InboundLane_proofs`: the closed form of a batch is the loop of the code
  (`ReceiveMessagesIsLoop`), with lemmas on the queue of unrewarded relayers: what
  `receive_state_update` and `receive_message` keep of its shape.
* `MessagesBridge_proofs`: the inductive invariant of the lane (`LaneInvariant`)
  and its strengthening with credits (`RewardsInvariant`), from which follow
  `ExactlyOnceInOrder`, `UnconfirmedNeverPruned`, `NoLaneStateFromFuture`,
  `QueueLimits`, `RewardedOnce`, `GenuineProofsNeverRefused`, and that the lane
  implements the channel (`LaneImplementsChannel`).
* `BridgeGrandpa_proofs`: from `GrandpaInvariant`, `NoMandatorySkipped`,
  `AuthoritySetIsRight`, `RingKeepsRecentHeaders`, `StopsAtUnsupported`, type
  correctness, and that the pallet implements `LightClient`
  (`GrandpaImplementsLightClient`).
* `RingBuffer` and `BridgeBeefy_proofs`: from `BeefyInvariant`,
  `OnlyGenuineCommitments`, `AuthoritySetIsRight`, `BestIsStored`,
  `HandoffsAreFollowed`, and that the pallet implements `LightClient`
  (`BeefyImplementsLightClient`).

The argument for the lane: exactly-once dispatch needs that the queue of the inbound lane is a
contiguous cover of the nonces above `last_confirmed_nonce` (up to finding 1), and
that every imported state of either chain is a possible past of the other: source
states never confirm more than the target has delivered *now*, target states
never hold more than the source has generated. The invariant says so of all
imported states at once, because any of them may be proved next. For rewards it
is strengthened by who delivered each message, at the target and in every
imported state of it. The assumptions are those named in the modules (finite set
of relayers, positive limits). Both invariants are checked by `lane_safety` too.

For GRANDPA the history of imports carries the argument. Slot `i` of the ring
holds the import at place `SlotIndex(i)` of the history, so that the map of
headers is the last `HeadersToKeep` imports. The stored authorities come from an
imported header or from before the first one, and the set that finalizes a header
is a function of the changes that apply to it: a header past a change that was
not imported is finalized by another set than the stored one and is refused.

For BEEFY the ring is ordered by age (`Ordered`), so that what is overwritten is
the oldest. More signatures are required than there are faulty validators
(`FaultyAreTooFew`), for every size of the set: the run has only four validators
and would not notice a threshold of two. An accepted commitment is therefore
signed by the set in charge of its block. The id of that set grows at each
hand-off, and the stored id is at most that of the best block's successor
(`AuthorityInv`), so that no block past a hand-off is accepted. The last fact holds
for any proved leaf, which is why hand-offs are followed even where
`AuthoritySetIsRight` says nothing. The assumption is that less than a third of
the validators are faulty.

Only model-checked: liveness (fairness is out of the prover's reach), the
parachains pallet, justifications, rewards, and the messages relay.

## 6. Plan

1. The confirmation race on the same loop, composed with the delivery race.
2. Finality and parachains relay loops, on-demand relays, transaction tracker,
   resubmitter, shift session manager.
3. Proofs: `BestHeadStored` of `BridgeParachains`; `RewardsAddUp`; queue of
   `DeliveryStrategy`.

## 7. Not modelled

Storage tries, encodings and weights (libraries; verified proofs are taken to be
true), sizes of messages, XCM adapters, metrics, RPC clients, command line, test
runtimes and generated code. See `PROJECT.json` for each.
