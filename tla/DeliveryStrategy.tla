-------------------------- MODULE DeliveryStrategy --------------------------
(***************************************************************************)
(* What a relay knows of a lane and how it selects the messages of its     *)
(* next delivery transaction: MessageDeliveryStrategy, BasicStrategy and   *)
(* MessageRaceLimits of relays/messages/src, as operators on the record of *)
(* their fields.                                                           *)
(*                                                                         *)
(* A range of nonces is a record with `begin` and `end`.  Dispatch weight  *)
(* and size of messages are one number, as the code treats them alike.     *)
(***************************************************************************)
EXTENDS InboundLane

LOCAL INSTANCE FiniteSetsExt
LOCAL INSTANCE SequencesExt

CONSTANTS
  None,
  MessageWeight(_),         \* weight (and size) of a message
  MaxMessagesInBatch,       \* max_messages_in_single_batch
  MaxMessagesWeightInBatch  \* max_messages_weight_in_single_batch

ASSUME StrategyAssumption ==
  /\ None \notin Int
  /\ MaxMessagesInBatch \in Nat \ {0}
  /\ MaxMessagesWeightInBatch \in Nat

NewStrategy ==
  [source_queue |-> <<>>,
   best_target_nonce |-> None,
   latest_confirmed_nonces_at_source |-> <<>>,
   target_nonces |-> None]

Larger(a, b) == IF a >= b THEN a ELSE b

-----------------------------------------------------------------------------
(* BasicStrategy.                                                          *)

BestAtSource(s) ==
  IF s.best_target_nonce = None \/ s.source_queue = <<>>
  THEN s.best_target_nonce
  ELSE Larger(Last(s.source_queue).end, s.best_target_nonce)

\* The nonce after which new source nonces are queued.
BestInQueue(s) ==
  IF s.source_queue # <<>> THEN Last(s.source_queue).end
  ELSE IF s.best_target_nonce # None THEN s.best_target_nonce
  ELSE 0

\* Mutant: an entry is removed as soon as its first nonce is delivered.
RemoveTouchedEntries(queue, nonce) == SelectSeq(queue, LAMBDA e : e.begin > nonce)

RemoveLeNonces(queue, nonce) ==
  LET left == SelectSeq(queue, LAMBDA e : e.end > nonce)
  IN  [i \in 1..Len(left) |-> [left[i] EXCEPT !.begin = Larger(left[i].begin, nonce + 1)]]

\* available_source_queue_indices, when nothing is selected or submitted: entries
\* that the target does not have and whose headers it knows.
AvailableIndices(s, header) ==
  {i \in 1..Len(s.source_queue) :
     /\ s.source_queue[i].end > s.best_target_nonce
     /\ \A j \in 1..i : s.source_queue[j].end > s.best_target_nonce => s.source_queue[j].at <= header}

-----------------------------------------------------------------------------
(* MessageDeliveryStrategy.                                                *)

\* What the target client reads at a target block with this lane data.
TargetNonces(lane) ==
  [latest_nonce |-> LastDeliveredNonce(lane),
   confirmed_nonce |-> lane.last_confirmed_nonce,
   unrewarded_relayer_entries |-> Len(lane.relayers),
   messages_in_oldest_entry |->
     IF lane.relayers = <<>> THEN 0 ELSE lane.relayers[1].end - lane.relayers[1].begin + 1]

\* source_nonces_updated, after nonces prev+1..generated were read at a block.
SourceNoncesUpdated(s, at, prev, generated, confirmed) ==
  LET known == s.latest_confirmed_nonces_at_source
      range == [at |-> at, begin |-> Larger(prev, BestInQueue(s)) + 1, end |-> generated]
  IN  [s EXCEPT
        !.latest_confirmed_nonces_at_source =
           IF known = <<>> \/ Last(known).nonce # confirmed
           THEN Append(known, [at |-> at, nonce |-> confirmed])
           ELSE known,
        !.source_queue = IF range.begin <= range.end THEN Append(@, range) ELSE @]

BestTargetNoncesUpdated(s, lane) ==
  [s EXCEPT !.target_nonces = TargetNonces(lane), !.best_target_nonce = LastDeliveredNonce(lane)]

\* finalized_target_nonces_updated, where `header` is the best source header at
\* the best target block.
FinalizedTargetNoncesUpdated(s, lane, header) ==
  LET nonce == LastDeliveredNonce(lane)
  IN  [s EXCEPT
        !.latest_confirmed_nonces_at_source =
           IF header = None THEN @ ELSE SelectSeq(@, LAMBDA c : c.at >= header),
        !.target_nonces =
           IF @ = None THEN None ELSE [@ EXCEPT !.latest_nonce = Larger(@, nonce)],
        !.source_queue = RemoveLeNonces(@, nonce),
        !.best_target_nonce = IF @ = None THEN nonce ELSE Larger(@, nonce)]

\* required_source_header_at_target, when nothing is submitted.
RequiredSourceHeader(s, header) ==
  LET known == s.latest_confirmed_nonces_at_source
      forMessages == {Last(s.source_queue).at}
      forConfirmations == IF known # <<>> /\ Last(known).nonce # 0 THEN {Last(known).at} ELSE {}
      missing == {h \in forMessages \cup forConfirmations : h > header}
  IN  IF s.source_queue = <<>> \/ missing = {} THEN None ELSE Max(missing)

-----------------------------------------------------------------------------
\* The confirmed nonce that the target can be shown with a proof at `header`.
LatestConfirmedNonce(s, header) ==
  LET known == SelectSeq(s.latest_confirmed_nonces_at_source, LAMBDA c : c.at <= header)
  IN  IF known = <<>> THEN s.best_target_nonce ELSE Last(known).nonce

\* The longest batch from `begin` that keeps to all limits; its first message may
\* exceed the weight limit (MessageRaceLimits::decide).
BatchEnd(begin, end, max_nonces) ==
  LET fits == {n \in begin..end :
                 /\ n - begin < max_nonces
                 /\ n = begin \/ MapThenSumSet(MessageWeight, begin..n) <= MaxMessagesWeightInBatch}
  IN  IF fits = {} THEN begin - 1 ELSE Max(fits)

\* select_nonces_to_deliver, when nothing is selected or submitted and the best
\* source header at the target is `header`: the range of nonces, and whether the
\* outbound lane state is to be proved with it.
SelectNoncesToDeliver(s, header) ==
  IF s.best_target_nonce = None \/ header = None \/ s.target_nonces = None
  THEN None
  ELSE
    LET t == s.target_nonces
        confirmed == LatestConfirmedNonce(s, header)
        withState == t.confirmed_nonce < confirmed
        future == IF withState THEN confirmed ELSE t.confirmed_nonce
        room == IF t.latest_nonce < future
                THEN 0
                ELSE Larger(0, MaxUnconfirmedMessages - (t.latest_nonce - future))
        indices == AvailableIndices(s, header)
        begin == Larger(s.best_target_nonce + 1, s.source_queue[Min(indices)].begin)
        end == BatchEnd(begin, s.source_queue[Max(indices)].end, Lesser(room, MaxMessagesInBatch))
    IN  IF \/ t.latest_nonce - confirmed >= MaxUnconfirmedMessages
           \/ /\ t.unrewarded_relayer_entries >= MaxUnrewardedRelayerEntries
              /\ Larger(0, confirmed - t.confirmed_nonce) < t.messages_in_oldest_entry
           \/ indices = {}
           \/ end < begin
        THEN None
        ELSE [begin |-> begin, end |-> end, withState |-> withState]
=============================================================================
