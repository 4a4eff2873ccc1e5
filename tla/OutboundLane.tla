---------------------------- MODULE OutboundLane ----------------------------
(***************************************************************************)
(* The outbound end of a message lane (modules/messages/src/outbound_lane  *)
(* .rs): pure operators on the OutboundLaneData record that the source     *)
(* chain stores.  MessagesBridge turns them into actions.                  *)
(*                                                                         *)
(* Nonces are u64 in the code; the lane would need 2^64 messages to wrap,  *)
(* so they are plain naturals here.                                        *)
(***************************************************************************)
EXTENDS Integers, Sequences

OutboundLaneData ==
  [oldest_unpruned_nonce : Nat,
   latest_received_nonce : Nat,
   latest_generated_nonce : Nat]

DefaultOutboundLaneData ==
  [oldest_unpruned_nonce |-> 1,
   latest_received_nonce |-> 0,
   latest_generated_nonce |-> 0]

\* OutboundLane::send_message: the lane data once the next nonce is taken.
NonceTaken(data) ==
  [data EXCEPT !.latest_generated_nonce = data.latest_generated_nonce + 1]

\* Mutant: the range's length without its last message.
TotalUnrewardedMessagesOffByOne(relayers) ==
  IF relayers # <<>> /\ relayers[Len(relayers)].end >= relayers[1].begin
  THEN relayers[Len(relayers)].end - relayers[1].begin
  ELSE 0

\* total_unrewarded_messages: the size of the nonce range that an unrewarded
\* relayers queue spans.
TotalUnrewardedMessages(relayers) ==
  IF relayers # <<>> /\ relayers[Len(relayers)].end >= relayers[1].begin
  THEN relayers[Len(relayers)].end - relayers[1].begin + 1
  ELSE 0

\* ensure_unrewarded_relayers_are_correct: no entry is empty, every entry
\* starts where the previous one stops, and none claims an undelivered nonce.
\* The three error codes all become Error::InvalidUnrewardedRelayers.
UnrewardedRelayersAreCorrect(latest_received_nonce, relayers) ==
  \A i \in 1..Len(relayers) :
    /\ relayers[i].begin <= relayers[i].end
    /\ i > 1 => relayers[i].begin = relayers[i - 1].end + 1
    /\ relayers[i].end <= latest_received_nonce

\* OutboundLane::confirm_delivery: its verdict on a proved inbound lane state.
ConfirmDeliveryResult(data, max_allowed_messages, latest_delivered_nonce, relayers) ==
  IF latest_delivered_nonce <= data.latest_received_nonce
  THEN "NoNewConfirmations"
  ELSE IF latest_delivered_nonce > data.latest_generated_nonce
  THEN "FailedToConfirmFutureMessages"
  ELSE IF latest_delivered_nonce - data.latest_received_nonce > max_allowed_messages
  THEN "TryingToConfirmMoreMessagesThanExpected"
  ELSE IF ~UnrewardedRelayersAreCorrect(latest_delivered_nonce, relayers)
  THEN "InvalidUnrewardedRelayers"
  ELSE "ConfirmedMessages"

\* Mutant: everything that was sent counts as delivered.
AllDeliveryConfirmed(data, latest_delivered_nonce) ==
  [data EXCEPT !.latest_received_nonce = data.latest_generated_nonce]

\* OutboundLane::confirm_delivery: the lane data after ConfirmedMessages.
DeliveryConfirmed(data, latest_delivered_nonce) ==
  [data EXCEPT !.latest_received_nonce = latest_delivered_nonce]

\* Mutant: pruning up to the latest generated nonce.
PruneGeneratedTargets(data) ==
  data.oldest_unpruned_nonce .. data.latest_generated_nonce + 1

\* OutboundLane::prune_messages: the values that oldest_unpruned_nonce may have
\* after one call.  The loop stops at the latest received nonce or when the
\* block's remaining weight is used up, whichever is first.
PruneTargets(data) ==
  data.oldest_unpruned_nonce .. data.latest_received_nonce + 1
=============================================================================
