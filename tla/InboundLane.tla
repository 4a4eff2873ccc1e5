----------------------------- MODULE InboundLane -----------------------------
(***************************************************************************)
(* The inbound end of a message lane (modules/messages/src/inbound_lane.rs *)
(* and InboundLaneData of primitives/messages/src/lib.rs): pure operators  *)
(* on the InboundLaneData record that the target chain stores.  A relayer  *)
(* entry's `messages` range is flattened into its `begin` and `end`.       *)
(*                                                                         *)
(* ReceiveMessages is the closed form of the loop of receive_message calls *)
(* that the pallet makes for one delivery transaction.                     *)
(***************************************************************************)
EXTENDS Integers, Sequences

CONSTANTS
  Relayers,                     \* relayer accounts
  MaxUnrewardedRelayerEntries,  \* MaxUnrewardedRelayerEntriesAtInboundLane
  MaxUnconfirmedMessages        \* MaxUnconfirmedMessagesAtInboundLane

ASSUME LaneLimitsAssumption ==
  /\ MaxUnrewardedRelayerEntries \in Nat
  /\ MaxUnconfirmedMessages \in Nat

UnrewardedRelayer == [relayer : Relayers, begin : Nat, end : Nat]

InboundLaneData ==
  [relayers : Seq(UnrewardedRelayer), last_confirmed_nonce : Nat]

DefaultInboundLaneData ==
  [relayers |-> <<>>, last_confirmed_nonce |-> 0]

LastDeliveredNonce(data) ==
  IF data.relayers = <<>>
  THEN data.last_confirmed_nonce
  ELSE data.relayers[Len(data.relayers)].end

-----------------------------------------------------------------------------
\* Mutant: an entry is popped as soon as its first message is confirmed.
FirstUntouchedEntry(relayers, confirmed) ==
  CHOOSE i \in 1..(Len(relayers) + 1) :
    /\ \A j \in 1..(i - 1) : relayers[j].begin <= confirmed
    /\ i <= Len(relayers) => relayers[i].begin > confirmed

\* The first loop of receive_state_update: entries are popped from the front
\* while all their messages are confirmed.
FirstUnconfirmedEntry(relayers, confirmed) ==
  CHOOSE i \in 1..(Len(relayers) + 1) :
    /\ \A j \in 1..(i - 1) : relayers[j].end <= confirmed
    /\ i <= Len(relayers) => relayers[i].end > confirmed

PopConfirmed(relayers, confirmed) ==
  SubSeq(relayers, FirstUnconfirmedEntry(relayers, confirmed), Len(relayers))

\* The second part: the new front entry loses the nonces that are confirmed.
TrimFront(relayers, confirmed) ==
  IF relayers # <<>> /\ relayers[1].begin < confirmed
  THEN [relayers EXCEPT ![1] = [relayers[1] EXCEPT !.begin = confirmed + 1]]
  ELSE relayers

\* InboundLane::receive_state_update.
ReceiveStateUpdate(data, outbound_lane_data) ==
  LET confirmed == outbound_lane_data.latest_received_nonce
  IN  IF \/ confirmed > LastDeliveredNonce(data)
         \/ confirmed <= data.last_confirmed_nonce
      THEN data
      ELSE [relayers |-> TrimFront(PopConfirmed(data.relayers, confirmed), confirmed),
            last_confirmed_nonce |-> confirmed]

-----------------------------------------------------------------------------
ExtendsLastEntry(relayers, relayer) ==
  relayers # <<>> /\ relayers[Len(relayers)].relayer = relayer

\* InboundLane::receive_message: its verdict on one message ...
ReceivalResult(data, nonce) ==
  IF nonce # LastDeliveredNonce(data) + 1
  THEN "InvalidNonce"
  ELSE IF Len(data.relayers) >= MaxUnrewardedRelayerEntries
  THEN "TooManyUnrewardedRelayers"
  ELSE IF nonce - data.last_confirmed_nonce > MaxUnconfirmedMessages
  THEN "TooManyUnconfirmedMessages"
  ELSE "Dispatched"

\* Mutant: the message extends the last entry, whoever delivers it.
NoteDeliveredByAnyone(relayers, relayer, first, last) ==
  IF relayers # <<>>
  THEN [relayers EXCEPT ![Len(relayers)] = [relayers[Len(relayers)] EXCEPT !.end = last]]
  ELSE Append(relayers, [relayer |-> relayer, begin |-> first, end |-> last])

\* Mutant: the last entry of the same relayer is not extended.
NoteDeliveredWithoutExtending(relayers, relayer, first, last) ==
  IF ExtendsLastEntry(relayers, relayer)
  THEN relayers
  ELSE Append(relayers, [relayer |-> relayer, begin |-> first, end |-> last])

\* ... and the lane data it leaves: the message extends the last entry if the
\* same relayer delivers it, and opens a new entry otherwise.
NoteDelivered(relayers, relayer, first, last) ==
  IF ExtendsLastEntry(relayers, relayer)
  THEN [relayers EXCEPT ![Len(relayers)] = [relayers[Len(relayers)] EXCEPT !.end = last]]
  ELSE Append(relayers, [relayer |-> relayer, begin |-> first, end |-> last])

ReceiveMessage(data, relayer, nonce) ==
  IF ReceivalResult(data, nonce) = "Dispatched"
  THEN [data EXCEPT !.relayers = NoteDelivered(data.relayers, relayer, nonce, nonce)]
  ELSE data

-----------------------------------------------------------------------------
Lesser(a, b) == IF a <= b THEN a ELSE b

\* Mutants: the limit on unconfirmed messages is one too high ...
LastAcceptedOneMessageMore(data, relayer, begin, end) ==
  LET last == LastDeliveredNonce(data)
  IN  IF /\ begin <= last + 1 /\ last < end
         /\ last <= data.last_confirmed_nonce + MaxUnconfirmedMessages
         /\ Len(data.relayers) < MaxUnrewardedRelayerEntries
      THEN last + 1
      ELSE last

\* ... the limit on entries is one too high ...
LastAcceptedOneEntryMore(data, relayer, begin, end) ==
  LET last == LastDeliveredNonce(data)
  IN  IF /\ begin <= last + 1 /\ last < end
         /\ last < data.last_confirmed_nonce + MaxUnconfirmedMessages
         /\ Len(data.relayers) <= MaxUnrewardedRelayerEntries
      THEN last + 1
      ELSE last

\* ... or one too low.
LastAcceptedOneEntryLess(data, relayer, begin, end) ==
  LET last == LastDeliveredNonce(data)
  IN  IF /\ begin <= last + 1 /\ last < end
         /\ last < data.last_confirmed_nonce + MaxUnconfirmedMessages
         /\ Len(data.relayers) + 1 < MaxUnrewardedRelayerEntries
      THEN last + 1
      ELSE last

\* The last nonce that is delivered once messages begin..end were offered, in
\* order, by one relayer.  The first message that would open the last free
\* entry is accepted and fills the queue, so the rest of its batch is refused.
LastAccepted(data, relayer, begin, end) ==
  LET last == LastDeliveredNonce(data)
      room == data.last_confirmed_nonce + MaxUnconfirmedMessages
      queue == IF \/ ExtendsLastEntry(data.relayers, relayer)
                  \/ Len(data.relayers) + 1 < MaxUnrewardedRelayerEntries
               THEN end
               ELSE last + 1
  IN  IF /\ begin <= last + 1
         /\ last < end
         /\ last < room
         /\ Len(data.relayers) < MaxUnrewardedRelayerEntries
      THEN Lesser(Lesser(end, queue), room)
      ELSE last

ReceiveMessages(data, relayer, begin, end) ==
  LET last == LastDeliveredNonce(data)
      accepted == LastAccepted(data, relayer, begin, end)
  IN  IF accepted = last
      THEN data
      ELSE [data EXCEPT !.relayers =
              NoteDelivered(data.relayers, relayer, last + 1, accepted)]

-----------------------------------------------------------------------------
\* What InboundLane keeps true of its own data: the entries are nonempty ranges
\* in ascending order without gaps, the first of which reaches back no further
\* than to the last confirmed nonce.
QueueWellFormed(data) ==
  LET q == data.relayers
  IN  /\ \A i \in 1..Len(q) :
           /\ 1 <= q[i].begin /\ q[i].begin <= q[i].end
           /\ data.last_confirmed_nonce < q[i].end
           /\ q[i].end <= LastDeliveredNonce(data)
           /\ i > 1 => q[i].begin = q[i - 1].end + 1
           /\ \A j \in (i + 1)..Len(q) : q[i].end < q[j].begin
      /\ q # <<>> =>
           q[1].begin \in data.last_confirmed_nonce..(data.last_confirmed_nonce + 1)
      /\ Len(q) <= MaxUnrewardedRelayerEntries
      /\ LastDeliveredNonce(data) - data.last_confirmed_nonce <= MaxUnconfirmedMessages

\* The queue credits `relayer` with the delivery of the message with `nonce`.
Credits(data, nonce, relayer) ==
  \E i \in 1..Len(data.relayers) :
    /\ data.relayers[i].relayer = relayer
    /\ nonce \in data.relayers[i].begin..data.relayers[i].end

\* Every delivered message whose confirmation is unknown is credited to someone.
CreditsUnconfirmed(data) ==
  \A n \in (data.last_confirmed_nonce + 1)..LastDeliveredNonce(data) :
    \E r \in Relayers : Credits(data, n, r)
=============================================================================
