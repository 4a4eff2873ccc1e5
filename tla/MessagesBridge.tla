--------------------------- MODULE MessagesBridge ---------------------------
(***************************************************************************)
(* One message lane between two chains: the messages pallet of the source  *)
(* chain (outbound lane), the messages pallet of the target chain (inbound *)
(* lane), the light clients through which each chain sees the other, and   *)
(* any number of relayers.                                                 *)
(*                                                                         *)
(* A chain runs transactions one at a time, so each transaction is one     *)
(* action.  What makes the lane hard is that a chain sees the other only   *)
(* through storage proofs of imported headers.  Each light client keeps    *)
(* the last HeadersToKeep headers, and a relayer may submit a proof of any *)
(* of them: stale, duplicated, reordered, by several relayers at once, or  *)
(* never.  A transaction that the pallet rejects changes no state, so only *)
(* accepted ones are actions.                                              *)
(***************************************************************************)
EXTENDS OutboundLane, InboundLane, FiniteSets

CONSTANTS
  Payloads,            \* message payloads
  NoMessage,           \* what storage returns for a nonce without a message
  OperatingModes,      \* the operating modes that the pallets' owners may set
  MaxPendingMessages,  \* maximal_pending_messages_at_outbound_lane
  HeadersToKeep,       \* size of the light clients' header ring buffers
  MaxNonce             \* bound: messages sent over the lane

AllOperatingModes == {"Normal", "RejectingOutboundMessages", "Halted"}

ASSUME BridgeAssumption ==
  /\ OperatingModes \subseteq AllOperatingModes
  /\ MaxPendingMessages \in Nat
  /\ HeadersToKeep \in Nat \ {0}
  /\ MaxNonce \in Nat
  /\ NoMessage \notin Payloads

VARIABLES
  \* the source chain
  sourceMode,      \* PalletOperatingMode
  outbound,        \* OutboundLanes[lane]
  messages,        \* OutboundMessages: stored payloads by nonce
  rewards,         \* registered delivery rewards, in units of the delivery fee
  targetHeaders,   \* imported target headers: their inbound lane data
  \* the target chain
  targetMode,      \* PalletOperatingMode
  inbound,         \* InboundLanes[lane]
  sourceHeaders,   \* imported source headers: their outbound lane storage
  \* history
  sent,            \* every payload accepted by send_message, by nonce
  dispatched       \* every MessageDispatch::dispatch call: payload and relayer

sourceVars == <<sourceMode, outbound, messages, rewards, targetHeaders>>
targetVars == <<targetMode, inbound, sourceHeaders>>
historyVars == <<sent, dispatched>>
vars == <<sourceVars, targetVars, historyVars>>

\* The part of the source chain's storage that a messages proof may read.
SourceState == [lane |-> outbound, messages |-> messages]

Init ==
  /\ sourceMode = "Normal" /\ targetMode = "Normal"
  /\ outbound = DefaultOutboundLaneData
  /\ messages = [n \in 1..MaxNonce |-> NoMessage]
  /\ rewards = [r \in Relayers |-> 0]
  /\ inbound = DefaultInboundLaneData
  /\ sourceHeaders = <<>> /\ targetHeaders = <<>>
  /\ sent = <<>> /\ dispatched = <<>>

-----------------------------------------------------------------------------
(* Light clients.                                                          *)

\* Inserts a header into a ring buffer that evicts the oldest header.
ImportHeader(headers, header) ==
  IF Len(headers) < HeadersToKeep
  THEN Append(headers, header)
  ELSE Append(Tail(headers), header)

ImportSourceHeader ==
  /\ sourceHeaders' = ImportHeader(sourceHeaders, SourceState)
  /\ UNCHANGED <<sourceVars, targetMode, inbound, historyVars>>

ImportTargetHeader ==
  /\ targetHeaders' = ImportHeader(targetHeaders, inbound)
  /\ UNCHANGED <<sourceMode, outbound, messages, rewards, targetVars, historyVars>>

-----------------------------------------------------------------------------
(* The source chain.                                                       *)

\* FromThisChainMessageVerifier::verify_message.
AcceptsMessage(data) ==
  data.latest_generated_nonce - data.latest_received_nonce <= MaxPendingMessages

\* send_message of the pallet: the payload passes the chain's and the lane's
\* verifiers and is stored under the next nonce.
SendMessage(payload) ==
  LET nonce == outbound.latest_generated_nonce + 1
  IN  /\ sourceMode = "Normal"
      /\ AcceptsMessage(outbound)
      /\ nonce <= MaxNonce
      /\ outbound' = NonceTaken(outbound)
      /\ messages' = [messages EXCEPT ![nonce] = payload]
      /\ sent' = Append(sent, payload)
      /\ UNCHANGED <<sourceMode, rewards, targetHeaders, targetVars, dispatched>>

\* on_idle: the operating mode is not consulted.
PruneMessages ==
  \E oldest \in PruneTargets(outbound) :
    /\ outbound' = [outbound EXCEPT !.oldest_unpruned_nonce = oldest]
    /\ messages' = [n \in 1..MaxNonce |->
                      IF n \in outbound.oldest_unpruned_nonce..(oldest - 1)
                      THEN NoMessage
                      ELSE messages[n]]
    /\ UNCHANGED <<sourceMode, rewards, targetHeaders, targetVars, historyVars>>

Greater(a, b) == IF a >= b THEN a ELSE b

\* Mutant: an entry is counted whole, its confirmed messages included.
WholeEntriesRewards(relayers, first, last) ==
  [r \in Relayers |->
     Cardinality({p \in (1..Len(relayers)) \X (1..last) :
       LET entry == relayers[p[1]]
       IN  entry.relayer = r /\ p[2] \in entry.begin..entry.end})]

\* calc_relayers_rewards: the messages of received_range that each entry of the
\* proved queue covers, counted once per entry.
RelayersRewards(relayers, first, last) ==
  [r \in Relayers |->
     Cardinality({p \in (1..Len(relayers)) \X (first..last) :
       LET entry == relayers[p[1]]
       IN  /\ entry.relayer = r
           /\ p[2] \in Greater(entry.begin, first)..Lesser(entry.end, last)})]

\* receive_messages_delivery_proof with a proof of the inbound lane data of an
\* imported target header.  The confirmation relayer gets its own share like
\* everybody else (register_relayers_rewards), so it is not a parameter.
ReceiveMessagesDeliveryProof(proved) ==
  LET delivered == LastDeliveredNonce(proved)
      earned == RelayersRewards(proved.relayers, outbound.latest_received_nonce + 1, delivered)
  IN  /\ sourceMode # "Halted"
      /\ ConfirmDeliveryResult(outbound, TotalUnrewardedMessages(proved.relayers),
                               delivered, proved.relayers) = "ConfirmedMessages"
      /\ outbound' = DeliveryConfirmed(outbound, delivered)
      /\ rewards' = [r \in Relayers |-> rewards[r] + earned[r]]
      /\ UNCHANGED <<sourceMode, messages, targetHeaders, targetVars, historyVars>>

SetSourceOperatingMode(mode) ==
  /\ sourceMode' = mode
  /\ UNCHANGED <<outbound, messages, rewards, targetHeaders, targetVars, historyVars>>

-----------------------------------------------------------------------------
(* The target chain.                                                       *)

\* verify_messages_proof: what a proof with messages begin..end of an imported
\* header needs to pass.  A proof without messages is fine if it has the lane
\* state.
ValidMessagesProof(header, begin, end, withState) ==
  /\ end - begin + 1 <= MaxUnconfirmedMessages
  /\ \A n \in begin..end : header.messages[n] # NoMessage
  /\ withState \/ begin <= end

\* receive_messages_proof, where `end` is the last message of the batch that the
\* declared dispatch weight pays for: the messages after it are skipped, so the
\* proof that stops at `end` stands for all longer ones.
ReceiveMessagesProof(relayer, header, begin, end, withState) ==
  LET updated == IF withState THEN ReceiveStateUpdate(inbound, header.lane) ELSE inbound
      last == LastDeliveredNonce(updated)
      accepted == LastAccepted(updated, relayer, begin, end)
  IN  /\ targetMode # "Halted"
      /\ ValidMessagesProof(header, begin, end, withState)
      /\ inbound' = ReceiveMessages(updated, relayer, begin, end)
      /\ dispatched' = [n \in 1..accepted |->
                          IF n <= last
                          THEN dispatched[n]
                          ELSE [payload |-> header.messages[n], relayer |-> relayer]]
      /\ UNCHANGED <<targetMode, sourceHeaders, sourceVars, sent>>

SetTargetOperatingMode(mode) ==
  /\ targetMode' = mode
  /\ UNCHANGED <<inbound, sourceHeaders, sourceVars, historyVars>>

-----------------------------------------------------------------------------
DeliverMessages ==
  \E relayer \in Relayers, i \in 1..Len(sourceHeaders), begin \in 1..(MaxNonce + 1),
     withState \in BOOLEAN :
    \E end \in (begin - 1)..MaxNonce :
      ReceiveMessagesProof(relayer, sourceHeaders[i], begin, end, withState)

ConfirmMessages ==
  \E i \in 1..Len(targetHeaders) : ReceiveMessagesDeliveryProof(targetHeaders[i])

SetOperatingMode ==
  \E mode \in OperatingModes :
    SetSourceOperatingMode(mode) \/ SetTargetOperatingMode(mode)

Next ==
  \/ ImportSourceHeader
  \/ ImportTargetHeader
  \/ \E payload \in Payloads : SendMessage(payload)
  \/ PruneMessages
  \/ ConfirmMessages
  \/ DeliverMessages
  \/ SetOperatingMode

Spec == Init /\ [][Next]_vars

-----------------------------------------------------------------------------
(* What a working relay does: it offers every message of the best imported *)
(* source header that is not yet delivered, with the lane state, and hands *)
(* the best imported target header's lane state back.  Blocks keep having  *)
(* idle weight for pruning.                                                *)

RelayMessages ==
  /\ sourceHeaders # <<>>
  /\ LET header == sourceHeaders[Len(sourceHeaders)]
         begin == LastDeliveredNonce(inbound) + 1
         end == Lesser(header.lane.latest_generated_nonce, begin + MaxUnconfirmedMessages - 1)
     IN  /\ begin <= end
         /\ \E relayer \in Relayers :
              ReceiveMessagesProof(relayer, header, begin, end, TRUE)

RelayConfirmations ==
  /\ targetHeaders # <<>>
  /\ ReceiveMessagesDeliveryProof(targetHeaders[Len(targetHeaders)])

Fairness ==
  /\ WF_vars(ImportSourceHeader) /\ WF_vars(ImportTargetHeader)
  /\ WF_vars(RelayMessages) /\ WF_vars(RelayConfirmations)
  /\ WF_vars(PruneMessages)

FairSpec == Spec /\ Fairness

-----------------------------------------------------------------------------
(* Correctness.                                                            *)

SourceStates ==
  [lane : OutboundLaneData, messages : [1..MaxNonce -> Payloads \cup {NoMessage}]]

TypeOK ==
  /\ sourceMode \in AllOperatingModes /\ targetMode \in AllOperatingModes
  /\ SourceState \in SourceStates
  /\ rewards \in [Relayers -> Nat]
  /\ inbound \in InboundLaneData
  /\ targetHeaders \in Seq(InboundLaneData) /\ Len(targetHeaders) <= HeadersToKeep
  /\ sourceHeaders \in Seq(SourceStates) /\ Len(sourceHeaders) <= HeadersToKeep
  /\ sent \in Seq(Payloads)
  /\ dispatched \in Seq([payload : Payloads, relayer : Relayers])

\* Whatever proofs relayers submit, in whatever order, the target chain has
\* dispatched exactly the first last_delivered_nonce() messages of the lane,
\* each once and in the order of sending (receive_message).
DispatchedExactlyOnceInOrder ==
  /\ Len(dispatched) = LastDeliveredNonce(inbound)
  /\ Len(dispatched) <= Len(sent)
  /\ \A n \in 1..Len(dispatched) : dispatched[n].payload = sent[n]

\* prune_messages never drops a message whose delivery is not confirmed: it is
\* still in OutboundMessages, with the payload that was sent.
UnconfirmedMessagesStored ==
  \A n \in (outbound.latest_received_nonce + 1)..outbound.latest_generated_nonce :
    messages[n] = sent[n]

\* confirm_delivery accepts every proof of a genuine inbound lane state, however
\* stale: the errors that it reserves for a corrupted bridged chain storage
\* (FailedToConfirmFutureMessages, TryingToConfirmMoreMessagesThanExpected, and
\* those of ensure_unrewarded_relayers_are_correct) do not happen.
GenuineDeliveryProofsAccepted ==
  \A i \in 1..Len(targetHeaders) :
    LET proved == targetHeaders[i]
    IN  ConfirmDeliveryResult(outbound, TotalUnrewardedMessages(proved.relayers),
                              LastDeliveredNonce(proved), proved.relayers)
          \in {"NoNewConfirmations", "ConfirmedMessages"}

\* The early return of receive_state_update that "should never happen if proofs
\* are correct" never happens: the source chain cannot have confirmed a message
\* that the target chain has not delivered.
LaneStateNeverFromFuture ==
  \A i \in 1..Len(sourceHeaders) :
    sourceHeaders[i].lane.latest_received_nonce <= LastDeliveredNonce(inbound)

\* The queue of unrewarded relayers respects both limits of the pallet's
\* configuration: at most MaxUnrewardedRelayerEntries entries, and at most
\* MaxUnconfirmedMessages between the first nonce of its first entry and the
\* last nonce of its last entry.
QueueWithinLimits ==
  /\ Len(inbound.relayers) <= MaxUnrewardedRelayerEntries
  /\ LastDeliveredNonce(inbound) - inbound.last_confirmed_nonce <= MaxUnconfirmedMessages
  /\ inbound.relayers # <<>> =>
       LastDeliveredNonce(inbound) - inbound.relayers[1].begin <= MaxUnconfirmedMessages

\* Every confirmed message has earned one delivery reward, for the relayer that
\* delivered it and nobody else (calc_relayers_rewards), however often a message
\* was proved and however delivery proofs overlap.
RewardsMatchDeliveries ==
  \A r \in Relayers :
    rewards[r] =
      Cardinality({n \in 1..outbound.latest_received_nonce : dispatched[n].relayer = r})

\* Unless a pallet is halted for ever, every message that send_message accepted
\* is delivered, confirmed and pruned in the end: neither full queues nor
\* competing relayers nor stale proofs wedge the lane, and a lane that rejects
\* new outbound messages drains.
SentMessagesEventuallyPruned ==
  <>[](sourceMode # "Halted" /\ targetMode # "Halted") =>
    \A n \in 1..MaxNonce :
      outbound.latest_generated_nonce >= n ~> outbound.oldest_unpruned_nonce > n

\* The documentation of InboundLaneData: "all nonces in this queue are in range:
\* (self.last_confirmed_nonce; self.last_delivered_nonce()]".
QueueNoncesUnconfirmed ==
  \A i \in 1..Len(inbound.relayers) :
    /\ inbound.relayers[i].begin > inbound.last_confirmed_nonce
    /\ inbound.relayers[i].end <= LastDeliveredNonce(inbound)

\* The lane implements the abstract channel: the source chain's nonces, the
\* dispatched payloads and the pruned prefix move only as MessageChannel allows.
Channel == INSTANCE MessageChannel WITH
  received <- [n \in 1..Len(dispatched) |-> dispatched[n].payload],
  confirmed <- outbound.latest_received_nonce,
  forgotten <- outbound.oldest_unpruned_nonce - 1

ChannelSpec == Channel!Spec

-----------------------------------------------------------------------------
(* The inductive invariant behind the properties above.                    *)

\* What OutboundLane keeps true of its own data.
OutboundWellFormed ==
  /\ outbound.oldest_unpruned_nonce \in 1..(outbound.latest_received_nonce + 1)
  /\ outbound.latest_received_nonce <= outbound.latest_generated_nonce
  /\ outbound.latest_generated_nonce = Len(sent)
  /\ Len(sent) <= MaxNonce

\* Stored payloads are the ones that were sent, at the source chain now and in
\* every header that the target chain knows.
StoredMessagesGenuine ==
  /\ \A n \in 1..MaxNonce :
       messages[n] # NoMessage => n <= Len(sent) /\ messages[n] = sent[n]
  /\ \A n \in outbound.oldest_unpruned_nonce..Len(sent) : messages[n] # NoMessage
  /\ \A i \in 1..Len(sourceHeaders), n \in 1..MaxNonce :
       sourceHeaders[i].messages[n] # NoMessage =>
         n <= Len(sent) /\ sourceHeaders[i].messages[n] = sent[n]

\* What one chain believes of the other is never ahead of the truth.
ViewsLagBehind ==
  /\ inbound.last_confirmed_nonce <= outbound.latest_received_nonce
  /\ outbound.latest_received_nonce <= LastDeliveredNonce(inbound)
  /\ \A i \in 1..Len(sourceHeaders) :
       sourceHeaders[i].lane.latest_received_nonce <= outbound.latest_received_nonce
  /\ \A i \in 1..Len(targetHeaders) :
       /\ QueueWellFormed(targetHeaders[i])
       /\ LastDeliveredNonce(targetHeaders[i]) <= LastDeliveredNonce(inbound)
       /\ targetHeaders[i].last_confirmed_nonce <= outbound.latest_received_nonce

LaneInv ==
  /\ TypeOK
  /\ OutboundWellFormed
  /\ QueueWellFormed(inbound)
  /\ StoredMessagesGenuine
  /\ ViewsLagBehind
  /\ DispatchedExactlyOnceInOrder

\* A queue credits a message only to the relayer that delivered it.
CreditsGenuine(data) ==
  \A n \in 1..Len(dispatched), r \in Relayers :
    Credits(data, n, r) => dispatched[n].relayer = r

\* What RewardsMatchDeliveries needs to be inductive.
RewardsInv ==
  /\ LaneInv
  /\ CreditsGenuine(inbound) /\ CreditsUnconfirmed(inbound)
  /\ \A i \in 1..Len(targetHeaders) :
       CreditsGenuine(targetHeaders[i]) /\ CreditsUnconfirmed(targetHeaders[i])
  /\ RewardsMatchDeliveries
=============================================================================
