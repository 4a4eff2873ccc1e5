---------------------------- MODULE RelayerRewards ----------------------------
(***************************************************************************)
(* Who pays for relaying: the signed extension that refunds transactions   *)
(* (bin/runtime-common, refund_relayer_extension.rs), the checks that keep *)
(* obsolete transactions out of blocks, and the relayers pallet that       *)
(* registers and pays rewards (modules/relayers).                          *)
(*                                                                         *)
(* Relayers act independently: a transaction may carry any headers and     *)
(* nonces, current or long outdated when it is included.  What the calls   *)
(* of the bridge pallets do is reduced to the values that the extension    *)
(* reads.                                                                  *)
(***************************************************************************)
EXTENDS Naturals, Sequences, FiniteSets

LOCAL INSTANCE SequencesExt
LOCAL INSTANCE FiniteSetsExt

CONSTANTS
  Relayers,
  ParaHead,     \* head of the parachain at each relay block
  Deliverer,      \* relayer that has delivered each outbound message
  DeliveryReward, \* reward for the delivery of a message
  MaxNonce        \* bound: inbound messages

RelayBlocks == 1..Len(ParaHead)
Delivered == 1..Len(Deliverer)
Owners == {"ThisChain", "BridgedChain"}    \* RewardsAccountOwner

ASSUME RewardsAssumption ==
  /\ IsFiniteSet(Relayers)
  /\ MaxNonce \in Nat
  /\ Deliverer \in Seq(Relayers)
  /\ DeliveryReward \in Nat \ {0}

VARIABLES
  bridge,           \* best_finalized, best_head (as at which relay block and which head),
                    \* last_delivered_nonce, latest_received_nonce
  relayer_rewards,  \* RelayerRewards, by relayer and rewards account; zero if there is none
  refunds,          \* history: refunded transactions
  wasted,           \* history: has a refunded transaction held a call that changed nothing?
  paid              \* history: rewards paid

vars == <<bridge, relayer_rewards, refunds, wasted, paid>>

-----------------------------------------------------------------------------
(* The calls that the extension knows, and what they do if they succeed.   *)

Calls ==
  [kind : {"submit_finality_proof"}, number : RelayBlocks]
    \cup [kind : {"submit_parachain_heads"}, number : RelayBlocks, one_entry : BOOLEAN]
    \cup {c \in [kind : {"receive_messages_proof"}, start : 1..MaxNonce, end : 1..MaxNonce] : c.start <= c.end}
    \cup {c \in [kind : {"receive_messages_delivery_proof"}, start : Delivered, end : Delivered] : c.start <= c.end}

BestHead(number) == [at_relay_block_number |-> number, head_hash |-> ParaHead[number]]

IsObsoleteHead(b, number) ==
  \/ b.best_head.at_relay_block_number >= number
  \/ b.best_head.head_hash = ParaHead[number]

Larger(a, b) == IF a > b THEN a ELSE b
Smaller(a, b) == IF a < b THEN a ELSE b

\* The states after each call if it succeeds; none if it must fail.

SubmitFinalityProof(call, b) ==
  IF call.number > b.best_finalized THEN {[b EXCEPT !.best_finalized = call.number]} ELSE {}

\* A head may be ignored without an error.
SubmitParachainHeads(call, b) ==
  IF call.number > b.best_finalized THEN {}
  ELSE {b} \cup (IF IsObsoleteHead(b, call.number) THEN {} ELSE {[b EXCEPT !.best_head = BestHead(call.number)]})

\* Limits of the lane and weights decide how many messages are delivered.
ReceiveMessagesProof(call, b) ==
  LET next == b.last_delivered_nonce + 1
  IN  {b} \cup {[b EXCEPT !.last_delivered_nonce = n] : n \in IF call.start <= next THEN next..call.end ELSE {}}

\* register_relayer_reward.
RegisterReward(old_reward, reward) == IF reward = 0 THEN old_reward ELSE old_reward + reward

\* The entries of the proved inbound lane, with the nonces from start to end: what a
\* relayer has delivered in a row is one entry.
UnrewardedRelayers(start, end) ==
  {e \in [begin : start..end, end : start..end, relayer : Relayers] :
     /\ e.begin <= e.end
     /\ \A n \in e.begin..e.end : Deliverer[n] = e.relayer
     /\ e.begin > start => Deliverer[e.begin - 1] # e.relayer
     /\ e.end < end => Deliverer[e.end + 1] # e.relayer}

\* calc_relayers_rewards: the messages of each relayer in the range that the call has
\* confirmed.
CalcRelayersRewards(messages_relayers, received_start, received_end) ==
  LET messages(e) ==
        LET nonce_begin == Larger(e.begin, received_start)
            nonce_end == Smaller(e.end, received_end)
        IN  IF nonce_end >= nonce_begin THEN nonce_end - nonce_begin + 1 ELSE 0
  IN  [r \in Relayers |-> MapThenSumSet(messages, {e \in messages_relayers : e.relayer = r})]

\* Mutant: the loop registers the reward of the confirmation relayer, too.
RegisterInLoopAndAfter(rewards, relayers_rewards, confirmation_relayer) ==
  LET reward(r) == relayers_rewards[r] * DeliveryReward
      others == [r \in Relayers |-> RegisterReward(rewards[r], reward(r))]
  IN  [others EXCEPT ![confirmation_relayer] = RegisterReward(@, reward(confirmation_relayer))]

\* register_relayers_rewards: the loop registers the rewards of the other relayers,
\* and what it has put aside for the confirmation relayer is registered after it.
RegisterRelayersRewards(rewards, relayers_rewards, confirmation_relayer) ==
  LET reward(r) == relayers_rewards[r] * DeliveryReward
      others == [r \in Relayers |->
                   IF r = confirmation_relayer THEN rewards[r] ELSE RegisterReward(rewards[r], reward(r))]
  IN  [others EXCEPT ![confirmation_relayer] = RegisterReward(@, reward(confirmation_relayer))]

\* pay_reward of DeliveryConfirmationPaymentsAdapter.
PayReward(rewards, messages_relayers, confirmation_relayer, received_start, received_end) ==
  LET registered ==
        RegisterRelayersRewards([r \in Relayers |-> rewards[r]["BridgedChain"]],
          CalcRelayersRewards(messages_relayers, received_start, received_end),
          confirmation_relayer)
  IN  [r \in Relayers |-> [rewards[r] EXCEPT !["BridgedChain"] = registered[r]]]

\* The lane at the bridged chain has forgotten nothing but what was confirmed here.
\* Only new confirmations are rewarded.
ReceiveMessagesDeliveryProof(relayer, call, s) ==
  LET latest == s.bridge.latest_received_nonce
  IN  IF call.start > latest + 1 THEN {}
      ELSE IF call.end <= latest THEN {s}
      ELSE {[bridge |-> [s.bridge EXCEPT !.latest_received_nonce = call.end],
             rewards |-> PayReward(s.rewards, UnrewardedRelayers(call.start, call.end), relayer,
                                   latest + 1, call.end)]}

\* What a call of the relayer makes of the bridge and the registered rewards.
Dispatch(relayer, call, s) ==
  LET bridges ==
        CASE call.kind = "submit_finality_proof" -> SubmitFinalityProof(call, s.bridge)
          [] call.kind = "submit_parachain_heads" -> SubmitParachainHeads(call, s.bridge)
          [] call.kind = "receive_messages_proof" -> ReceiveMessagesProof(call, s.bridge)
  IN  IF call.kind = "receive_messages_delivery_proof"
      THEN ReceiveMessagesDeliveryProof(relayer, call, s)
      ELSE {[s EXCEPT !.bridge = b] : b \in bridges}

\* utility.batch_all: all calls, in order.
BatchAll(relayer, calls) ==
  FoldLeft(LAMBDA states, call : UNION {Dispatch(relayer, call, s) : s \in states},
           {[bridge |-> bridge, rewards |-> relayer_rewards]}, calls)

-----------------------------------------------------------------------------
(* The extension.                                                          *)

\* check_obsolete_submit_finality_proof, check_obsolete_submit_parachain_heads and
\* check_obsolete_call.
IsObsolete(call) ==
  CASE call.kind = "submit_finality_proof" -> call.number <= bridge.best_finalized
    [] call.kind = "submit_parachain_heads" -> call.one_entry /\ IsObsoleteHead(bridge, call.number)
    [] call.kind = "receive_messages_proof" -> call.end <= bridge.last_delivered_nonce
    [] call.kind = "receive_messages_delivery_proof" -> call.end <= bridge.latest_received_nonce

Validate(calls) == \A i \in 1..Len(calls) : ~IsObsolete(calls[i])

IsMessagesCall(call) == call.kind \in {"receive_messages_proof", "receive_messages_delivery_proof"}
IsHeadsCall(call) == call.kind = "submit_parachain_heads" /\ call.one_entry

\* parse_call of pre_dispatch.
ParseCall(calls) ==
  LET n == Len(calls)
  IN  /\ IsMessagesCall(calls[n])
      /\ n > 1 => IsHeadsCall(calls[n - 1])
      /\ n > 2 => calls[1].kind = "submit_finality_proof"

\* Mutant: messages count as delivered without a new one.
NotLessSuccessful(call, before, after) ==
  IF call.kind = "receive_messages_proof"
  THEN after.last_delivered_nonce >= before.last_delivered_nonce
  ELSE after.latest_received_nonce >= before.latest_received_nonce

\* was_partially_successful.
WasPartiallySuccessful(call, before, after) ==
  IF call.kind = "receive_messages_proof"
  THEN after.last_delivered_nonce > before.last_delivered_nonce
  ELSE after.latest_received_nonce > before.latest_received_nonce

\* Mutant: headers do not have to be imported.
WasAccepted(call, before, after) == IsMessagesCall(call) => WasPartiallySuccessful(call, before, after)

\* What post_dispatch asks of each call.
WasSuccessful(call, before, after) ==
  CASE call.kind = "submit_finality_proof" -> after.best_finalized = call.number
    [] call.kind = "submit_parachain_heads" -> after.best_head = BestHead(call.number)
    [] OTHER -> WasPartiallySuccessful(call, before, after)

RewardsAccountOwner(calls) ==
  IF calls[Len(calls)].kind = "receive_messages_proof" THEN "ThisChain" ELSE "BridgedChain"

Refunded(calls, before, after) ==
  /\ ParseCall(calls)
  /\ \A i \in 1..Len(calls) : WasSuccessful(calls[i], before, after)

\* Has the call moved what it is about?
Moved(call) ==
  CASE call.kind = "submit_finality_proof" -> bridge'.best_finalized > bridge.best_finalized
    [] call.kind = "submit_parachain_heads" ->
         /\ bridge'.best_head.at_relay_block_number > bridge.best_head.at_relay_block_number
         /\ bridge'.best_head.head_hash # bridge.best_head.head_hash
    [] call.kind = "receive_messages_proof" -> bridge'.last_delivered_nonce > bridge.last_delivered_nonce
    [] call.kind = "receive_messages_delivery_proof" -> bridge'.latest_received_nonce > bridge.latest_received_nonce

\* A successful transaction: pre_dispatch, dispatch and post_dispatch, which registers
\* the refund.  Failed ones change nothing here.
Transaction(relayer, calls) ==
  /\ Validate(calls)
  /\ \E after \in BatchAll(relayer, calls) :
       LET owner == RewardsAccountOwner(calls)
           refund == IF Refunded(calls, bridge, after.bridge) THEN 1 ELSE 0
       IN  /\ bridge' = after.bridge
           /\ relayer_rewards' = [after.rewards EXCEPT ![relayer][owner] = RegisterReward(@, refund)]
           /\ refunds' = [refunds EXCEPT ![relayer][owner] = @ + refund]
           /\ wasted' = (wasted \/ (refund = 1 /\ \E i \in 1..Len(calls) : ~Moved(calls[i])))
  /\ UNCHANGED paid

\* What try_mutate_exists stores: the reward was taken, but an error of the payment
\* leaves the storage as it was.
AfterClaim(reward, payment) == IF payment = "Ok" THEN 0 ELSE reward

\* claim_rewards, with the outcome of the payment procedure.
ClaimRewards(relayer, owner, payment) ==
  /\ relayer_rewards[relayer][owner] > 0
  /\ relayer_rewards' = [relayer_rewards EXCEPT ![relayer][owner] = AfterClaim(@, payment)]
  /\ paid' = [paid EXCEPT ![relayer][owner] =
                IF payment = "Ok" THEN @ + relayer_rewards[relayer][owner] ELSE @]
  /\ UNCHANGED <<bridge, refunds, wasted>>

-----------------------------------------------------------------------------
Nothing == [r \in Relayers |-> [o \in Owners |-> 0]]

Init ==
  /\ bridge = [best_finalized |-> 0, best_head |-> [at_relay_block_number |-> 0, head_hash |-> 0],
               last_delivered_nonce |-> 0, latest_received_nonce |-> 0]
  /\ relayer_rewards = Nothing
  /\ refunds = Nothing
  /\ wasted = FALSE
  /\ paid = Nothing

\* Batches of at most three calls, one of each kind, in any order; a batch with an
\* obsolete call is not valid.
Batches ==
  LET calls == {c \in Calls : ~IsObsolete(c)}
  IN  UNION {{batch \in [1..n -> calls] : \A i, j \in 1..n : i # j => batch[i].kind # batch[j].kind} : n \in 1..3}

Next ==
  \/ \E calls \in Batches, relayer \in Relayers : Transaction(relayer, calls)
  \/ \E relayer \in Relayers, owner \in Owners, payment \in {"Ok", "Err"} :
       ClaimRewards(relayer, owner, payment)

Spec == Init /\ [][Next]_vars

-----------------------------------------------------------------------------
(* Correctness.                                                            *)

RefundsFrom(owner) ==
  LET total(sum, relayer) == sum + refunds[relayer][owner]
  IN  FoldLeft(total, 0, SetToSeq(Relayers))

\* However many relayers submit the same messages and confirmations, at most one
\* transaction is refunded for each message that is delivered or confirmed.
OneRefundPerMessage ==
  /\ RefundsFrom("ThisChain") <= bridge.last_delivered_nonce
  /\ RefundsFrom("BridgedChain") <= bridge.latest_received_nonce

\* "we only refund relayer if all calls have updated chain state" (post_dispatch):
\* each header of a refunded batch was new, and the lane has moved.
RefundMeansProgress == ~wasted

\* No reward is lost or paid twice: what is registered and what was paid add up to
\* one delivery reward for each confirmed message that the relayer has delivered, and
\* its refunds, whichever relayers send the confirmations, with entries that were
\* rewarded before among them, and however many claims fail (pay_reward,
\* register_relayers_rewards, claim_rewards).
RewardsAddUp ==
  \A relayer \in Relayers, owner \in Owners :
    relayer_rewards[relayer][owner] + paid[relayer][owner] =
      refunds[relayer][owner]
        + (IF owner = "BridgedChain"
           THEN DeliveryReward * Cardinality({n \in 1..bridge.latest_received_nonce : Deliverer[n] = relayer})
           ELSE 0)
=============================================================================
