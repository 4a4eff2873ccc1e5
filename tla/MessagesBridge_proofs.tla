------------------------ MODULE MessagesBridge_proofs ------------------------
(***************************************************************************)
(* Proofs that the lane of MessagesBridge keeps its promises for all lane  *)
(* limits, numbers of relayers, payloads and messages.                     *)
(***************************************************************************)
EXTENDS MessagesBridge, InboundLane_proofs, FiniteSetTheorems

\* Every header of `new` is `header` or one of `headers`.
HeadersFrom(new, header, headers) ==
  \A i \in 1..Len(new) :
    new[i] = header \/ \E j \in 1..Len(headers) : new[i] = headers[j]

\* A light client's ring buffer holds the headers it held before and the one
\* that is imported.
LEMMA ImportHeaderProperties ==
  ASSUME NEW S, NEW headers \in Seq(S), NEW header \in S, Len(headers) <= HeadersToKeep,
         NEW new, new = ImportHeader(headers, header)
  PROVE  /\ new \in Seq(S)
         /\ Len(new) <= HeadersToKeep
         /\ HeadersFrom(new, header, headers)
  <1>1. CASE Len(headers) < HeadersToKeep
    BY <1>1, BridgeAssumption DEF ImportHeader, HeadersFrom
  <1>2. CASE Len(headers) = HeadersToKeep
    <2>1. headers # <<>> /\ new = Append(Tail(headers), header)
      BY <1>2, BridgeAssumption DEF ImportHeader
    <2>2. /\ Tail(headers) \in Seq(S) /\ Len(Tail(headers)) = Len(headers) - 1
          /\ \A i \in 1..(Len(headers) - 1) : Tail(headers)[i] = headers[i + 1]
      BY <2>1
    <2> QED
      BY <2>1, <2>2, <1>2, BridgeAssumption DEF HeadersFrom
  <1> QED
    BY <1>1, <1>2, BridgeAssumption

\* The types of the numbers that the invariant compares.
LEMMA LaneInvTypes ==
  ASSUME LaneInv
  PROVE  /\ outbound \in OutboundLaneData
         /\ outbound.oldest_unpruned_nonce \in Nat
         /\ outbound.latest_received_nonce \in Nat
         /\ outbound.latest_generated_nonce \in Nat
         /\ messages \in [1..MaxNonce -> Payloads \cup {NoMessage}]
         /\ inbound \in InboundLaneData
         /\ inbound.last_confirmed_nonce \in Nat
         /\ LastDeliveredNonce(inbound) \in Nat
         /\ \A i \in 1..Len(sourceHeaders) :
              /\ sourceHeaders[i] \in SourceStates
              /\ sourceHeaders[i].lane.latest_received_nonce \in Nat
         /\ \A i \in 1..Len(targetHeaders) :
              /\ targetHeaders[i] \in InboundLaneData
              /\ targetHeaders[i].last_confirmed_nonce \in Nat
              /\ LastDeliveredNonce(targetHeaders[i]) \in Nat
         /\ sent \in Seq(Payloads) /\ Len(sent) \in Nat
  <1>1. /\ SourceState \in SourceStates /\ inbound \in InboundLaneData
        /\ sourceHeaders \in Seq(SourceStates) /\ targetHeaders \in Seq(InboundLaneData)
        /\ sent \in Seq(Payloads)
    BY DEF LaneInv, TypeOK
  <1>2. \A s \in SourceStates :
          /\ s.lane \in OutboundLaneData
          /\ s.messages \in [1..MaxNonce -> Payloads \cup {NoMessage}]
    BY DEF SourceStates
  <1>3. \A d \in OutboundLaneData :
          /\ d.oldest_unpruned_nonce \in Nat
          /\ d.latest_received_nonce \in Nat
          /\ d.latest_generated_nonce \in Nat
    BY DEF OutboundLaneData
  <1>4. /\ outbound \in OutboundLaneData
        /\ messages \in [1..MaxNonce -> Payloads \cup {NoMessage}]
    BY <1>1, <1>2 DEF SourceState
  <1>5. \A i \in 1..Len(sourceHeaders) :
          /\ sourceHeaders[i] \in SourceStates
          /\ sourceHeaders[i].lane.latest_received_nonce \in Nat
    <2>1. \A i \in 1..Len(sourceHeaders) : sourceHeaders[i] \in SourceStates
      BY <1>1
    <2> QED  BY <2>1, <1>2, <1>3
  <1>6. \A i \in 1..Len(targetHeaders) : targetHeaders[i] \in InboundLaneData
    BY <1>1
  <1>7. Len(sent) \in Nat
    BY <1>1
  <1> QED
    BY <1>1, <1>3, <1>4, <1>5, <1>6, <1>7, LastDeliveredNonceType, SMTT(30)

\* The empty lane satisfies the invariant.
LEMMA InitLaneInv == Init => LaneInv
  <1> SUFFICES ASSUME Init PROVE LaneInv
    OBVIOUS
  <1> USE DEF Init
  <1>1. DefaultInboundLaneData \in InboundLaneData /\ DefaultOutboundLaneData \in OutboundLaneData
    BY DEF DefaultInboundLaneData, InboundLaneData, DefaultOutboundLaneData, OutboundLaneData
  <1>2. SourceState \in SourceStates
    BY <1>1 DEF SourceState, SourceStates
  <1>3. TypeOK
    BY <1>1, <1>2, BridgeAssumption DEF TypeOK, AllOperatingModes
  <1>4. OutboundWellFormed
    BY BridgeAssumption DEF OutboundWellFormed, DefaultOutboundLaneData
  <1>5. LastDeliveredNonce(inbound) = 0 /\ inbound.relayers = <<>> /\ inbound.last_confirmed_nonce = 0
    BY DEF LastDeliveredNonce, DefaultInboundLaneData
  <1>6. QueueWellFormed(inbound)
    BY <1>5, LaneLimitsAssumption, SMTT(30) DEF QueueWellFormed
  <1>7. StoredMessagesGenuine
    BY DEF StoredMessagesGenuine, DefaultOutboundLaneData
  <1>8. ViewsLagBehind
    BY <1>5 DEF ViewsLagBehind, DefaultOutboundLaneData
  <1>9. DispatchedExactlyOnceInOrder
    BY <1>5 DEF DispatchedExactlyOnceInOrder
  <1> QED
    BY <1>3, <1>4, <1>6, <1>7, <1>8, <1>9, SMTT(30) DEF LaneInv

-----------------------------------------------------------------------------
(* One lemma per action of Next.                                           *)

\* Importing a source header shows the target chain a state that is current.
LEMMA ImportSourceHeaderLaneInv == LaneInv /\ ImportSourceHeader => LaneInv'
  <1> SUFFICES ASSUME LaneInv, ImportSourceHeader PROVE LaneInv'
    OBVIOUS
  <1>0. sourceHeaders' = ImportHeader(sourceHeaders, SourceState)
    BY DEF ImportSourceHeader
  <1>1. /\ sourceHeaders' \in Seq(SourceStates)
        /\ Len(sourceHeaders') <= HeadersToKeep
        /\ HeadersFrom(sourceHeaders', SourceState, sourceHeaders)
    <2>1. /\ sourceHeaders \in Seq(SourceStates) /\ Len(sourceHeaders) <= HeadersToKeep
          /\ SourceState \in SourceStates
      BY DEF LaneInv, TypeOK
    <2> QED  BY <1>0, <2>1, ImportHeaderProperties, SMTT(30)
  <1> USE DEF ImportSourceHeader, sourceVars, historyVars
  <1>2. SourceState' = SourceState
    BY DEF SourceState
  <1>3. TypeOK'
    BY <1>1, <1>2 DEF LaneInv, TypeOK
  <1>4. StoredMessagesGenuine'
    BY <1>1, SMTT(30) DEF LaneInv, StoredMessagesGenuine, SourceState, HeadersFrom
  <1>5. ViewsLagBehind'
    <2>1. SourceState.lane = outbound /\ outbound.latest_received_nonce \in Nat
      BY LaneInvTypes DEF SourceState
    <2> QED  BY <1>1, <2>1, SMTT(30) DEF LaneInv, ViewsLagBehind, HeadersFrom
  <1>6. OutboundWellFormed' /\ QueueWellFormed(inbound)' /\ DispatchedExactlyOnceInOrder'
    BY DEF LaneInv, OutboundWellFormed, DispatchedExactlyOnceInOrder
  <1> QED
    BY <1>3, <1>4, <1>5, <1>6, SMTT(30) DEF LaneInv

\* Importing a target header shows the source chain a state that is current.
LEMMA ImportTargetHeaderLaneInv == LaneInv /\ ImportTargetHeader => LaneInv'
  <1> SUFFICES ASSUME LaneInv, ImportTargetHeader PROVE LaneInv'
    OBVIOUS
  <1>0. targetHeaders' = ImportHeader(targetHeaders, inbound)
    BY DEF ImportTargetHeader
  <1>1. /\ targetHeaders' \in Seq(InboundLaneData)
        /\ Len(targetHeaders') <= HeadersToKeep
        /\ HeadersFrom(targetHeaders', inbound, targetHeaders)
    <2>1. /\ targetHeaders \in Seq(InboundLaneData) /\ Len(targetHeaders) <= HeadersToKeep
          /\ inbound \in InboundLaneData
      BY DEF LaneInv, TypeOK
    <2> QED  BY <1>0, <2>1, ImportHeaderProperties
  <1> USE DEF ImportTargetHeader, targetVars, historyVars
  <1>2. SourceState' = SourceState
    BY DEF SourceState
  <1>3. TypeOK'
    BY <1>1, <1>2, SMTT(30) DEF LaneInv, TypeOK
  <1>4. ViewsLagBehind'
    <2>1. LastDeliveredNonce(inbound) \in Nat
      BY LastDeliveredNonceType DEF LaneInv, TypeOK
    <2> QED  BY <1>1, <2>1, SMTT(30) DEF LaneInv, ViewsLagBehind, HeadersFrom
  <1>5. /\ OutboundWellFormed' /\ QueueWellFormed(inbound)'
        /\ StoredMessagesGenuine' /\ DispatchedExactlyOnceInOrder'
    BY DEF LaneInv, OutboundWellFormed, StoredMessagesGenuine, DispatchedExactlyOnceInOrder
  <1> QED
    BY <1>3, <1>4, <1>5 DEF LaneInv

\* send_message stores the payload under the next nonce.
LEMMA SendMessageLaneInv ==
  ASSUME LaneInv, NEW payload \in Payloads, SendMessage(payload)
  PROVE  LaneInv'
  <1> DEFINE nonce == outbound.latest_generated_nonce + 1
  <1>1. /\ nonce <= MaxNonce /\ nonce = Len(sent) + 1
        /\ outbound' = [outbound EXCEPT !.latest_generated_nonce = nonce]
        /\ messages' = [messages EXCEPT ![nonce] = payload]
        /\ sent' = Append(sent, payload)
        /\ UNCHANGED <<sourceMode, rewards, targetHeaders, targetMode, inbound,
                       sourceHeaders, dispatched>>
    BY DEF SendMessage, NonceTaken, LaneInv, OutboundWellFormed, targetVars
  <1>2. /\ outbound' \in OutboundLaneData
        /\ outbound'.latest_generated_nonce = nonce
        /\ outbound'.latest_received_nonce = outbound.latest_received_nonce
        /\ outbound'.oldest_unpruned_nonce = outbound.oldest_unpruned_nonce
    BY <1>1, LaneInvTypes, SMTT(30) DEF OutboundLaneData
  <1>3. /\ sent' \in Seq(Payloads) /\ Len(sent') = Len(sent) + 1 /\ sent'[nonce] = payload
        /\ \A n \in 1..Len(sent) : sent'[n] = sent[n]
    BY <1>1, LaneInvTypes
  <1>4. /\ messages' \in [1..MaxNonce -> Payloads \cup {NoMessage}]
        /\ messages'[nonce] = payload
        /\ \A n \in 1..MaxNonce : n # nonce => messages'[n] = messages[n]
    BY <1>1, LaneInvTypes, BridgeAssumption, SMTT(30)
  <1>5. /\ nonce \in 1..MaxNonce /\ nonce \in Nat /\ Len(sent) \in Nat /\ MaxNonce \in Nat
        /\ payload # NoMessage
    BY <1>1, LaneInvTypes, BridgeAssumption, SMTT(30)
  <1> HIDE DEF nonce
  <1>6. TypeOK'
    <2>1. SourceState' \in SourceStates
      BY <1>2, <1>4 DEF SourceState, SourceStates
    <2> QED  BY <1>1, <1>3, <2>1 DEF LaneInv, TypeOK
  <1>7. OutboundWellFormed'
    BY <1>1, <1>2, <1>3, <1>5, LaneInvTypes, SMTT(30) DEF LaneInv, OutboundWellFormed
  <1>8. StoredMessagesGenuine'
    <2>1. \A n \in 1..MaxNonce :
            messages'[n] # NoMessage => n <= Len(sent') /\ messages'[n] = sent'[n]
      BY <1>1, <1>3, <1>4, <1>5, SMTT(30) DEF LaneInv, StoredMessagesGenuine
    <2>2. \A n \in outbound'.oldest_unpruned_nonce..Len(sent') : messages'[n] # NoMessage
      <3> SUFFICES ASSUME NEW n \in outbound.oldest_unpruned_nonce..(Len(sent) + 1)
                   PROVE  messages'[n] # NoMessage
        BY <1>2, <1>3
      <3>1. n \in 1..MaxNonce /\ (n = nonce \/ n \in outbound.oldest_unpruned_nonce..Len(sent))
        BY <1>1, <1>5, LaneInvTypes DEF LaneInv, OutboundWellFormed
      <3> QED  BY <3>1, <1>1, <1>4, <1>5, SMTT(30) DEF LaneInv, StoredMessagesGenuine
    <2>3. ASSUME NEW i \in 1..Len(sourceHeaders'), NEW n \in 1..MaxNonce,
                 sourceHeaders'[i].messages[n] # NoMessage
          PROVE  n <= Len(sent') /\ sourceHeaders'[i].messages[n] = sent'[n]
      <3>1. n <= Len(sent) /\ sourceHeaders[i].messages[n] = sent[n]
        BY <1>1, <2>3 DEF LaneInv, StoredMessagesGenuine
      <3> QED  BY <3>1, <1>1, <1>3, <1>5, SMTT(30)
    <2> QED  BY <2>1, <2>2, <2>3 DEF StoredMessagesGenuine
  <1>9. ViewsLagBehind' /\ QueueWellFormed(inbound)'
    BY <1>1, <1>2 DEF LaneInv, ViewsLagBehind
  <1>10. DispatchedExactlyOnceInOrder'
    <2>1. Len(dispatched) \in Nat
      BY DEF LaneInv, TypeOK
    <2> QED  BY <1>1, <1>3, <1>5, <2>1, SMTT(30) DEF LaneInv, DispatchedExactlyOnceInOrder
  <1> QED
    BY <1>6, <1>7, <1>8, <1>9, <1>10, SMTT(30) DEF LaneInv

\* on_idle prunes only messages whose delivery is confirmed.
LEMMA PruneMessagesLaneInv == LaneInv /\ PruneMessages => LaneInv'
  <1> SUFFICES ASSUME LaneInv, PruneMessages PROVE LaneInv'
    OBVIOUS
  <1>1. PICK oldest \in PruneTargets(outbound) :
          /\ outbound' = [outbound EXCEPT !.oldest_unpruned_nonce = oldest]
          /\ messages' = [n \in 1..MaxNonce |->
                            IF n \in outbound.oldest_unpruned_nonce..(oldest - 1)
                            THEN NoMessage
                            ELSE messages[n]]
    BY DEF PruneMessages
  <1>2. UNCHANGED <<sourceMode, rewards, targetHeaders, targetMode, inbound, sourceHeaders,
                    sent, dispatched>>
    BY DEF PruneMessages, targetVars, historyVars
  <1>3. /\ oldest \in Nat /\ outbound.oldest_unpruned_nonce <= oldest
        /\ oldest <= outbound.latest_received_nonce + 1
    BY LaneInvTypes DEF PruneTargets
  <1>4. /\ outbound' \in OutboundLaneData
        /\ outbound'.latest_generated_nonce = outbound.latest_generated_nonce
        /\ outbound'.latest_received_nonce = outbound.latest_received_nonce
        /\ outbound'.oldest_unpruned_nonce = oldest
    BY <1>1, <1>3, LaneInvTypes, SMTT(30) DEF OutboundLaneData
  <1>5. /\ messages' \in [1..MaxNonce -> Payloads \cup {NoMessage}]
        /\ \A n \in 1..MaxNonce : messages'[n] # NoMessage => messages'[n] = messages[n]
        /\ \A n \in 1..MaxNonce : n >= oldest => messages'[n] = messages[n]
    BY <1>1, <1>3, LaneInvTypes
  <1>6. TypeOK'
    <2>1. SourceState' \in SourceStates
      BY <1>4, <1>5, SMTT(30) DEF SourceState, SourceStates
    <2> QED  BY <1>2, <2>1, SMTT(30) DEF LaneInv, TypeOK
  <1>7. OutboundWellFormed'
    BY <1>2, <1>3, <1>4, LaneInvTypes, SMTT(30) DEF LaneInv, OutboundWellFormed
  <1>8. StoredMessagesGenuine'
    <2>1. \A n \in 1..MaxNonce :
            messages'[n] # NoMessage => n <= Len(sent') /\ messages'[n] = sent'[n]
      BY <1>2, <1>5, SMTT(30) DEF LaneInv, StoredMessagesGenuine
    <2>2. \A n \in outbound'.oldest_unpruned_nonce..Len(sent') : messages'[n] # NoMessage
      <3> SUFFICES ASSUME NEW n \in oldest..Len(sent) PROVE messages'[n] # NoMessage
        BY <1>2, <1>4, SMTT(30)
      <3>1. /\ n \in 1..MaxNonce /\ n >= oldest
            /\ n \in outbound.oldest_unpruned_nonce..Len(sent)
        BY <1>3, LaneInvTypes, BridgeAssumption, SMTT(30) DEF LaneInv, OutboundWellFormed
      <3> QED  BY <3>1, <1>5, SMTT(30) DEF LaneInv, StoredMessagesGenuine
    <2> QED  BY <1>2, <2>1, <2>2, SMTT(30) DEF LaneInv, StoredMessagesGenuine
  <1>9. ViewsLagBehind' /\ QueueWellFormed(inbound)' /\ DispatchedExactlyOnceInOrder'
    BY <1>2, <1>4, SMTT(30) DEF LaneInv, ViewsLagBehind, DispatchedExactlyOnceInOrder
  <1> QED
    BY <1>6, <1>7, <1>8, <1>9 DEF LaneInv

\* Ranges of nonces are finite.
LEMMA FiniteRange ==
  ASSUME NEW a \in Nat, NEW b \in Nat
  PROVE  IsFiniteSet(a..b)
  BY FS_Interval

\* calc_relayers_rewards counts finitely many messages.
LEMMA RelayersRewardsType ==
  ASSUME NEW relayers, Len(relayers) \in Nat, NEW first \in Nat, NEW last \in Nat,
         NEW r \in Relayers
  PROVE  RelayersRewards(relayers, first, last)[r] \in Nat
  <1> DEFINE pairs == (1..Len(relayers)) \X (first..last)
             counted == {p \in pairs :
                           LET entry == relayers[p[1]]
                           IN  /\ entry.relayer = r
                               /\ p[2] \in Greater(entry.begin, first)..Lesser(entry.end, last)}
  <1>1. IsFiniteSet(1..Len(relayers)) /\ IsFiniteSet(first..last)
    BY FS_Interval
  <1>2. IsFiniteSet(pairs)
    BY <1>1, FS_Product, SMTT(30)
  <1>3. counted \in SUBSET pairs
    OBVIOUS
  <1> HIDE DEF pairs
  <1>4. IsFiniteSet(counted)
    BY <1>2, <1>3, FS_Subset
  <1>5. Cardinality(counted) \in Nat
    BY <1>4, FS_CardinalityType
  <1>6. RelayersRewards(relayers, first, last)[r] = Cardinality(counted)
    BY DEF RelayersRewards, pairs
  <1> QED
    BY <1>5, <1>6

\* receive_messages_delivery_proof confirms only delivered messages.
LEMMA ConfirmMessagesLaneInv == LaneInv /\ ConfirmMessages => LaneInv'
  <1> SUFFICES ASSUME LaneInv, NEW i \in 1..Len(targetHeaders),
                      ReceiveMessagesDeliveryProof(targetHeaders[i])
               PROVE  LaneInv'
    BY DEF ConfirmMessages
  <1> DEFINE proved == targetHeaders[i]
             delivered == LastDeliveredNonce(proved)
             received == outbound.latest_received_nonce
  <1>1. /\ outbound' = [outbound EXCEPT !.latest_received_nonce = delivered]
        /\ rewards' = [r \in Relayers |->
                         rewards[r] + RelayersRewards(proved.relayers, received + 1, delivered)[r]]
        /\ UNCHANGED <<sourceMode, messages, targetHeaders, targetMode, inbound, sourceHeaders,
                       sent, dispatched>>
    BY DEF ReceiveMessagesDeliveryProof, DeliveryConfirmed, targetVars, historyVars
  <1>2. /\ proved \in InboundLaneData /\ delivered \in Nat /\ received \in Nat
        /\ Len(proved.relayers) \in Nat
    BY LaneInvTypes, LastDeliveredNonceType, EntryTypes, SMTT(30)
  <1>3. received < delivered /\ delivered <= outbound.latest_generated_nonce
    BY <1>2, LaneInvTypes DEF ReceiveMessagesDeliveryProof, ConfirmDeliveryResult
  <1>4. delivered <= LastDeliveredNonce(inbound)
    BY DEF LaneInv, ViewsLagBehind
  <1> HIDE DEF delivered, proved
  <1>5. /\ outbound' \in OutboundLaneData
        /\ outbound'.latest_generated_nonce = outbound.latest_generated_nonce
        /\ outbound'.latest_received_nonce = delivered
        /\ outbound'.oldest_unpruned_nonce = outbound.oldest_unpruned_nonce
    BY <1>1, <1>2, LaneInvTypes, SMTT(30) DEF OutboundLaneData
  <1>6. TypeOK'
    <2>1. SourceState' \in SourceStates
      BY <1>1, <1>5, LaneInvTypes DEF SourceState, SourceStates
    <2>2. ASSUME NEW r \in Relayers
          PROVE  RelayersRewards(proved.relayers, received + 1, delivered)[r] \in Nat
      BY <1>2, RelayersRewardsType
    <2>3. rewards \in [Relayers -> Nat]
      BY DEF LaneInv, TypeOK
    <2>4. rewards' \in [Relayers -> Nat]
      BY <1>1, <2>2, <2>3, SMTT(30)
    <2> QED  BY <1>1, <2>1, <2>4 DEF LaneInv, TypeOK
  <1>7. OutboundWellFormed'
    BY <1>1, <1>2, <1>3, <1>5, LaneInvTypes, SMTT(30) DEF LaneInv, OutboundWellFormed
  <1>8. StoredMessagesGenuine' /\ DispatchedExactlyOnceInOrder' /\ QueueWellFormed(inbound)'
    BY <1>1, <1>5 DEF LaneInv, StoredMessagesGenuine, DispatchedExactlyOnceInOrder
  <1>9. ViewsLagBehind'
    <2>1. /\ inbound.last_confirmed_nonce <= delivered
          /\ \A j \in 1..Len(sourceHeaders) :
               sourceHeaders[j].lane.latest_received_nonce <= delivered
          /\ \A j \in 1..Len(targetHeaders) :
               targetHeaders[j].last_confirmed_nonce <= delivered
      <3>1. /\ inbound.last_confirmed_nonce <= received
            /\ \A j \in 1..Len(sourceHeaders) :
                 sourceHeaders[j].lane.latest_received_nonce <= received
            /\ \A j \in 1..Len(targetHeaders) :
                 targetHeaders[j].last_confirmed_nonce <= received
        BY DEF LaneInv, ViewsLagBehind
      <3>2. \A n \in Nat : n <= received => n <= delivered
        BY <1>2, <1>3, SMTT(30)
      <3>3. /\ inbound.last_confirmed_nonce \in Nat
            /\ \A j \in 1..Len(sourceHeaders) :
                 sourceHeaders[j].lane.latest_received_nonce \in Nat
            /\ \A j \in 1..Len(targetHeaders) :
                 targetHeaders[j].last_confirmed_nonce \in Nat
        BY LaneInvTypes, SMTT(30)
      <3> QED  BY <3>1, <3>2, <3>3, SMTT(30)
    <2> QED  BY <1>1, <1>4, <1>5, <2>1, SMTT(30) DEF LaneInv, ViewsLagBehind
  <1> QED
    BY <1>6, <1>7, <1>8, <1>9, SMTT(30) DEF LaneInv

\* What one delivery transaction does to the target chain's lane.
LEMMA ReceiveMessagesProofEffect ==
  ASSUME LaneInv, NEW relayer \in Relayers, NEW i \in 1..Len(sourceHeaders),
         NEW begin \in 1..(MaxNonce + 1), NEW end \in (begin - 1)..MaxNonce,
         NEW withState \in BOOLEAN,
         ReceiveMessagesProof(relayer, sourceHeaders[i], begin, end, withState)
  PROVE  /\ inbound' \in InboundLaneData
         /\ QueueWellFormed(inbound')
         /\ inbound'.last_confirmed_nonce \in
              {inbound.last_confirmed_nonce, sourceHeaders[i].lane.latest_received_nonce}
         /\ LastDeliveredNonce(inbound') >= LastDeliveredNonce(inbound)
         /\ \A n \in (LastDeliveredNonce(inbound) + 1)..LastDeliveredNonce(inbound') :
              n \in begin..end
         /\ dispatched' = [n \in 1..LastDeliveredNonce(inbound') |->
                             IF n <= LastDeliveredNonce(inbound)
                             THEN dispatched[n]
                             ELSE [payload |-> sourceHeaders[i].messages[n], relayer |-> relayer]]
         /\ UNCHANGED <<targetMode, sourceHeaders, sourceMode, outbound, messages, rewards,
                        targetHeaders, sent>>
  <1> DEFINE header == sourceHeaders[i]
             updated == IF withState THEN ReceiveStateUpdate(inbound, header.lane) ELSE inbound
             last == LastDeliveredNonce(updated)
             accepted == LastAccepted(updated, relayer, begin, end)
  <1>1. /\ inbound' = ReceiveMessages(updated, relayer, begin, end)
        /\ dispatched' = [n \in 1..accepted |->
                            IF n <= last
                            THEN dispatched[n]
                            ELSE [payload |-> header.messages[n], relayer |-> relayer]]
        /\ UNCHANGED <<targetMode, sourceHeaders, sourceMode, outbound, messages, rewards,
                       targetHeaders, sent>>
    BY SMTT(30) DEF ReceiveMessagesProof, sourceVars
  <1>2. /\ inbound \in InboundLaneData /\ QueueWellFormed(inbound)
        /\ header.lane.latest_received_nonce \in Nat
        /\ begin \in Nat /\ end \in Nat
    BY LaneInvTypes, BridgeAssumption, SMTT(30) DEF LaneInv
  <1>3. /\ updated \in InboundLaneData /\ QueueWellFormed(updated)
        /\ last = LastDeliveredNonce(inbound)
        /\ updated.last_confirmed_nonce \in
             {inbound.last_confirmed_nonce, header.lane.latest_received_nonce}
    <2>1. CASE withState
      <3>1. updated = ReceiveStateUpdate(inbound, header.lane)
        BY <2>1, SMTT(30)
      <3> HIDE DEF updated
      <3> QED  BY <3>1, <1>2, ReceiveStateUpdateProperties
    <2>2. CASE ~withState
      <3>1. updated = inbound
        BY <2>2
      <3> HIDE DEF updated
      <3> QED  BY <3>1, <1>2, SMTT(30)
    <2> QED  BY <2>1, <2>2, SMTT(30)
  <1> HIDE DEF updated, header
  <1>4. /\ inbound' \in InboundLaneData
        /\ QueueWellFormed(inbound')
        /\ LastDeliveredNonce(inbound') = accepted
        /\ inbound'.last_confirmed_nonce = updated.last_confirmed_nonce
    BY <1>1, <1>2, <1>3, ReceiveMessagesProperties, ZenonT(30)
  <1>5. /\ accepted \in Nat /\ last \in Nat
        /\ accepted = last \/ (last < accepted /\ accepted <= end /\ begin <= last + 1)
    BY <1>2, <1>3, LastAcceptedProperties, LastDeliveredNonceType, SMTT(30)
  <1> HIDE DEF accepted, last
  <1>6. \A n \in (last + 1)..accepted : n \in begin..end
    BY <1>2, <1>5
  <1>7. accepted >= last
    BY <1>5, SMTT(30)
  <1> QED
    BY <1>1, <1>3, <1>4, <1>6, <1>7, SMTT(30) DEF header

\* receive_messages_proof dispatches the next messages of the lane, and no other.
LEMMA DeliverMessagesLaneInv == LaneInv /\ DeliverMessages => LaneInv'
  <1> SUFFICES ASSUME LaneInv, NEW relayer \in Relayers, NEW i \in 1..Len(sourceHeaders),
                      NEW begin \in 1..(MaxNonce + 1), NEW end \in (begin - 1)..MaxNonce,
                      NEW withState \in BOOLEAN,
                      ReceiveMessagesProof(relayer, sourceHeaders[i], begin, end, withState)
               PROVE  LaneInv'
    BY DEF DeliverMessages
  <1> DEFINE last == LastDeliveredNonce(inbound)
             accepted == LastDeliveredNonce(inbound')
             header == sourceHeaders[i]
  <1>1. /\ inbound' \in InboundLaneData /\ QueueWellFormed(inbound')
        /\ inbound'.last_confirmed_nonce \in
             {inbound.last_confirmed_nonce, header.lane.latest_received_nonce}
        /\ accepted >= last
        /\ \A n \in (last + 1)..accepted : n \in begin..end
        /\ dispatched' = [n \in 1..accepted |->
                            IF n <= last
                            THEN dispatched[n]
                            ELSE [payload |-> header.messages[n], relayer |-> relayer]]
    BY ReceiveMessagesProofEffect, SMTT(30)
  <1>2. UNCHANGED <<targetMode, sourceHeaders, sourceMode, outbound, messages, rewards,
                    targetHeaders, sent>>
    BY ReceiveMessagesProofEffect, SMTT(30)
  <1>3. last \in Nat /\ accepted \in Nat
    BY <1>1, LaneInvTypes, LastDeliveredNonceType, SMTT(30)
  <1>4. ASSUME NEW n \in (last + 1)..accepted
        PROVE  n <= Len(sent) /\ header.messages[n] = sent[n] /\ header.messages[n] \in Payloads
    <2>1. n \in begin..end /\ n \in 1..MaxNonce
      BY <1>1, BridgeAssumption, SMTT(30)
    <2>2. header.messages[n] # NoMessage
      BY <2>1, SMTT(30) DEF ReceiveMessagesProof, ValidMessagesProof
    <2>3. header \in SourceStates
      BY LaneInvTypes, SMTT(30)
    <2>4. header.messages[n] \in Payloads
      BY <2>1, <2>2, <2>3, Zenon DEF SourceStates
    <2> QED  BY <2>1, <2>2, <2>4, SMTT(30) DEF LaneInv, StoredMessagesGenuine
  <1>5. /\ dispatched \in Seq([payload : Payloads, relayer : Relayers])
        /\ Len(dispatched) = last /\ last <= Len(sent)
        /\ \A n \in 1..last : dispatched[n].payload = sent[n]
    BY DEF LaneInv, TypeOK, DispatchedExactlyOnceInOrder
  <1> HIDE DEF last, accepted, header
  <1>6. \A n \in 1..accepted :
          /\ dispatched'[n] \in [payload : Payloads, relayer : Relayers]
          /\ n <= Len(sent) /\ dispatched'[n].payload = sent[n]
    <2> TAKE n \in 1..accepted
    <2>1. CASE n <= last
      <3>1. n \in 1..last /\ dispatched'[n] = dispatched[n] /\ n <= Len(sent)
        BY <2>1, <1>1, <1>3, <1>5, LaneInvTypes, SMTT(30)
      <3>2. dispatched[n] \in [payload : Payloads, relayer : Relayers]
        <4> DEFINE T == [payload : Payloads, relayer : Relayers]
        <4>1. dispatched \in Seq(T) /\ n \in 1..Len(dispatched)
          BY <3>1, <1>5
        <4> HIDE DEF T
        <4>2. dispatched[n] \in T
          BY <4>1
        <4> QED  BY <4>2 DEF T
      <3> QED  BY <3>1, <3>2, <1>5, SMTT(30)
    <2>2. CASE n > last
      <3>1. n \in (last + 1)..accepted
        BY <2>2, <1>3, SMTT(30)
      <3>2. dispatched'[n] = [payload |-> header.messages[n], relayer |-> relayer]
        BY <2>2, <1>1, <1>3, SMTT(30)
      <3> QED  BY <3>1, <3>2, <1>4, SMTT(30)
    <2> QED  BY <2>1, <2>2, <1>3, SMTT(30)
  <1>7. /\ dispatched' \in Seq([payload : Payloads, relayer : Relayers])
        /\ Len(dispatched') = accepted
    <2> DEFINE T == [payload : Payloads, relayer : Relayers]
    <2>1. dispatched' \in [1..accepted -> T]
      <3>1. \A n \in 1..accepted : dispatched'[n] \in T
        BY <1>6
      <3> HIDE DEF T
      <3> QED  BY <1>1, <3>1, SMTT(30)
    <2> HIDE DEF T
    <2>2. dispatched' \in Seq(T) /\ Len(dispatched') = accepted
      BY <2>1, <1>3, SMTT(30)
    <2> QED  BY <2>2, SMTT(30) DEF T
  <1>8. accepted <= Len(sent)
    BY <1>3, <1>5, <1>6, LaneInvTypes, SMTT(30)
  <1>9. TypeOK'
    <2>1. SourceState' = SourceState
      BY <1>2, SMTT(30) DEF SourceState
    <2> QED  BY <1>1, <1>2, <1>7, <2>1, SMTT(30) DEF LaneInv, TypeOK
  <1>10. OutboundWellFormed' /\ StoredMessagesGenuine'
    BY <1>2, SMTT(30) DEF LaneInv, OutboundWellFormed, StoredMessagesGenuine
  <1>11. ViewsLagBehind'
    <2>1. inbound'.last_confirmed_nonce <= outbound.latest_received_nonce
      BY <1>1 DEF LaneInv, ViewsLagBehind, header
    <2>2. outbound.latest_received_nonce <= accepted
      BY <1>1, <1>3, LaneInvTypes, SMTT(30) DEF LaneInv, ViewsLagBehind, last
    <2>3. \A j \in 1..Len(targetHeaders) : LastDeliveredNonce(targetHeaders[j]) <= accepted
      <3>1. \A j \in 1..Len(targetHeaders) : LastDeliveredNonce(targetHeaders[j]) <= last
        BY DEF LaneInv, ViewsLagBehind, last
      <3> TAKE j \in 1..Len(targetHeaders)
      <3>2. LastDeliveredNonce(targetHeaders[j]) \in Nat /\ last \in Nat /\ accepted \in Nat
        BY <1>3, LaneInvTypes
      <3>3. LastDeliveredNonce(targetHeaders[j]) <= last
        BY <3>1, Zenon
      <3>4. last <= accepted
        BY <1>1, <3>2, SMTT(30)
      <3> QED  BY <3>2, <3>3, <3>4, SMTT(30)
    <2> QED  BY <1>2, <2>1, <2>2, <2>3, SMTT(30) DEF LaneInv, ViewsLagBehind, accepted
  <1>12. DispatchedExactlyOnceInOrder'
    BY <1>2, <1>6, <1>7, <1>8, SMTT(30) DEF DispatchedExactlyOnceInOrder, accepted
  <1> QED
    BY <1>1, <1>9, <1>10, <1>11, <1>12, SMTT(30) DEF LaneInv

\* set_operating_mode touches no lane.
LEMMA SetOperatingModeLaneInv == LaneInv /\ SetOperatingMode => LaneInv'
  <1> SUFFICES ASSUME LaneInv, SetOperatingMode PROVE LaneInv'
    OBVIOUS
  <1>1. /\ sourceMode' \in AllOperatingModes /\ targetMode' \in AllOperatingModes
        /\ UNCHANGED <<outbound, messages, rewards, targetHeaders, inbound, sourceHeaders,
                       sent, dispatched>>
    BY BridgeAssumption DEF SetOperatingMode, SetSourceOperatingMode, SetTargetOperatingMode,
         sourceVars, targetVars, historyVars, LaneInv, TypeOK
  <1>2. SourceState' = SourceState
    BY <1>1, SMTT(30) DEF SourceState
  <1> QED
    BY <1>1, <1>2, ZenonT(30) DEF LaneInv, TypeOK, OutboundWellFormed, StoredMessagesGenuine,
         ViewsLagBehind, DispatchedExactlyOnceInOrder

\* Steps of other parts of the chains touch no lane.
LEMMA StutterLaneInv == LaneInv /\ UNCHANGED vars => LaneInv'
  <1> SUFFICES ASSUME LaneInv, UNCHANGED vars PROVE LaneInv'
    OBVIOUS
  <1>1. UNCHANGED <<sourceMode, outbound, messages, rewards, targetHeaders, targetMode, inbound,
                    sourceHeaders, sent, dispatched>>
    BY DEF vars, sourceVars, targetVars, historyVars
  <1>2. SourceState' = SourceState
    BY <1>1 DEF SourceState
  <1> QED
    BY <1>1, <1>2, SMTT(30) DEF LaneInv, TypeOK, OutboundWellFormed, StoredMessagesGenuine,
         ViewsLagBehind, DispatchedExactlyOnceInOrder

\* The inductive invariant holds in every reachable state, whatever the
\* relayers do.
THEOREM LaneInvariant == Spec => []LaneInv
  <1>1. LaneInv /\ [Next]_vars => LaneInv'
    BY ImportSourceHeaderLaneInv, ImportTargetHeaderLaneInv, SendMessageLaneInv,
       PruneMessagesLaneInv, ConfirmMessagesLaneInv, DeliverMessagesLaneInv,
       SetOperatingModeLaneInv, StutterLaneInv, SMTT(30), SMTT(30), SMTT(30) DEF Next
  <1> QED
    BY InitLaneInv, <1>1, PTL DEF Spec

-----------------------------------------------------------------------------
(* Rewards.                                                                *)

\* calc_relayers_rewards counts every newly confirmed message once, for the
\* relayer that delivered it: each of them lies in exactly one entry.
LEMMA RewardsCounted ==
  ASSUME NEW proved \in InboundLaneData, QueueWellFormed(proved),
         CreditsGenuine(proved), CreditsUnconfirmed(proved),
         NEW received \in Nat, proved.last_confirmed_nonce <= received,
         LastDeliveredNonce(proved) <= Len(dispatched), Len(dispatched) \in Nat,
         NEW r \in Relayers
  PROVE  RelayersRewards(proved.relayers, received + 1, LastDeliveredNonce(proved))[r]
           = Cardinality({n \in (received + 1)..LastDeliveredNonce(proved) :
                            dispatched[n].relayer = r})
  <1> DEFINE q == proved.relayers
             first == received + 1
             last == LastDeliveredNonce(proved)
             counted == {p \in (1..Len(q)) \X (first..last) :
                           /\ q[p[1]].relayer = r
                           /\ p[2] \in Greater(q[p[1]].begin, first)..Lesser(q[p[1]].end, last)}
             earned == {n \in first..last : dispatched[n].relayer = r}
             f == [p \in counted |-> p[2]]
  <1>1. /\ Len(q) \in Nat /\ last \in Nat /\ first \in Nat
        /\ proved.last_confirmed_nonce \in Nat
        /\ \A i \in 1..Len(q) : q[i].begin \in Nat /\ q[i].end \in Nat
    BY LastDeliveredNonceType, EntryTypes, SMTT(30)
  <1>2. \A i \in 1..Len(q), n \in first..last :
          n \in Greater(q[i].begin, first)..Lesser(q[i].end, last) <=> n \in q[i].begin..q[i].end
    BY <1>1, SMTT(30) DEF Greater, Lesser
  <1>3. \A n \in first..last : n \in 1..Len(dispatched)
                              /\ n \in (proved.last_confirmed_nonce + 1)..last
    BY <1>1
  <1>4. \A i \in 1..Len(q), n \in first..last :
          n \in q[i].begin..q[i].end => dispatched[n].relayer = q[i].relayer
    <2> SUFFICES ASSUME NEW i \in 1..Len(q), NEW n \in first..last, n \in q[i].begin..q[i].end
                 PROVE  dispatched[n].relayer = q[i].relayer
      OBVIOUS
    <2>1. q[i].relayer \in Relayers
      BY LastDeliveredNonceType, EntryTypes, SMTT(30)
    <2>2. Credits(proved, n, q[i].relayer)
      BY DEF Credits
    <2> QED  BY <1>3, <2>1, <2>2, SMTT(30) DEF CreditsGenuine
  <1>5. \A n \in first..last : \E i \in 1..Len(q) : n \in q[i].begin..q[i].end
    BY <1>3, SMTT(30) DEF CreditsUnconfirmed, Credits
  <1>6. \A i, j \in 1..Len(q), n \in first..last :
          n \in q[i].begin..q[i].end /\ n \in q[j].begin..q[j].end => i = j
    <2> SUFFICES ASSUME NEW i \in 1..Len(q), NEW j \in 1..Len(q), NEW n \in first..last,
                        n \in q[i].begin..q[i].end, n \in q[j].begin..q[j].end, i < j
                 PROVE  FALSE
      BY <1>1, SMTT(30)
    <2>1. j \in (i + 1)..Len(q)
      BY <1>1
    <2>2. q[i].end < q[j].begin
      BY <2>1, SMTT(30) DEF QueueWellFormed
    <2> QED  BY <2>2, <1>1, SMTT(30)
  <1>7. \A p : p \in counted <=>
               /\ p \in (1..Len(q)) \X (first..last)
               /\ q[p[1]].relayer = r /\ p[2] \in q[p[1]].begin..q[p[1]].end
    BY <1>2, SMTT(30)
  <1>8. IsFiniteSet(counted)
    <2>0. 1 \in Nat /\ Len(q) \in Nat /\ first \in Nat /\ last \in Nat
      BY <1>1
    <2> HIDE DEF q, first, last
    <2>1. IsFiniteSet(1..Len(q)) /\ IsFiniteSet(first..last)
      BY <2>0, FiniteRange
    <2>2. IsFiniteSet((1..Len(q)) \X (first..last))
      BY <2>1, FS_Product, Zenon
    <2>3. counted \in SUBSET ((1..Len(q)) \X (first..last))
      OBVIOUS
    <2> HIDE DEF counted
    <2> QED  BY <2>2, <2>3, FS_Subset
  <1> HIDE DEF q, first, last, counted
  <1>9. f \in [counted -> earned]
    <2> SUFFICES ASSUME NEW p \in counted PROVE p[2] \in earned
      OBVIOUS
    <2> QED  BY <1>4, <1>7, SMTT(30)
  <1>10. \A a, b \in counted : f[a] = f[b] => a = b
    <2> SUFFICES ASSUME NEW a \in counted, NEW b \in counted, a[2] = b[2] PROVE a = b
      OBVIOUS
    <2>1. a = <<a[1], a[2]>> /\ b = <<b[1], b[2]>>
      BY <1>7, SMTT(30)
    <2>2. a[1] = b[1]
      BY <1>6, <1>7, SMTT(30)
    <2> QED  BY <2>1, <2>2
  <1>11. \A n \in earned : \E p \in counted : f[p] = n
    <2> TAKE n \in earned
    <2>1. n \in first..last /\ dispatched[n].relayer = r
      OBVIOUS
    <2>2. PICK i \in 1..Len(q) : n \in q[i].begin..q[i].end
      BY <1>5, <2>1, SMTT(30)
    <2>3. q[i].relayer = r
      BY <1>4, <2>1, <2>2, SMTT(30)
    <2>4. <<i, n>> \in counted
      BY <1>7, <2>1, <2>2, <2>3, SMTT(30)
    <2> QED  BY <2>4
  <1>12. ExistsBijection(counted, earned)
    <2> HIDE DEF f, earned
    <2> QED  BY <1>9, <1>10, <1>11, SMTT(30) DEF ExistsBijection, Bijection, Injection, Surjection, IsInjective
  <1>13. Cardinality(earned) = Cardinality(counted)
    BY <1>8, <1>12, FS_Bijection, SMTT(30)
  <1>14. RelayersRewards(q, first, last)[r] = Cardinality(counted)
    BY SMTT(30) DEF RelayersRewards, counted
  <1> QED
    BY <1>13, <1>14, SMTT(30) DEF q, first, last

\* Steps that neither deliver, confirm nor import do not concern rewards.
LEMMA RewardsInvUnconcerned ==
  ASSUME RewardsInv, LaneInv', UNCHANGED <<inbound, targetHeaders, rewards, dispatched>>,
         outbound'.latest_received_nonce = outbound.latest_received_nonce
  PROVE  RewardsInv'
  BY SMTT(30) DEF RewardsInv, RewardsMatchDeliveries, CreditsGenuine

\* An imported target header credits what the target chain credits.
LEMMA ImportTargetHeaderRewardsInv == RewardsInv /\ ImportTargetHeader => RewardsInv'
  <1> SUFFICES ASSUME RewardsInv, ImportTargetHeader PROVE RewardsInv'
    OBVIOUS
  <1>1. LaneInv'
    BY ImportTargetHeaderLaneInv DEF RewardsInv
  <1>2. HeadersFrom(targetHeaders', inbound, targetHeaders)
    <2>1. /\ targetHeaders \in Seq(InboundLaneData) /\ Len(targetHeaders) <= HeadersToKeep
          /\ inbound \in InboundLaneData
      BY DEF RewardsInv, LaneInv, TypeOK
    <2>2. targetHeaders' = ImportHeader(targetHeaders, inbound)
      BY DEF ImportTargetHeader
    <2> QED  BY <2>1, <2>2, ImportHeaderProperties, SMTT(30)
  <1>3. UNCHANGED <<inbound, outbound, rewards, dispatched>>
    BY DEF ImportTargetHeader, targetVars, historyVars
  <1>4. \A i \in 1..Len(targetHeaders') :
          CreditsGenuine(targetHeaders'[i]) /\ CreditsUnconfirmed(targetHeaders'[i])
    BY <1>2 DEF RewardsInv, HeadersFrom
  <1> QED
    BY <1>1, <1>3, <1>4 DEF RewardsInv, RewardsMatchDeliveries, CreditsGenuine

\* receive_messages_delivery_proof rewards exactly the newly confirmed messages.
LEMMA ConfirmMessagesRewardsInv == RewardsInv /\ ConfirmMessages => RewardsInv'
  <1> SUFFICES ASSUME RewardsInv, NEW i \in 1..Len(targetHeaders),
                      ReceiveMessagesDeliveryProof(targetHeaders[i])
               PROVE  RewardsInv'
    BY DEF ConfirmMessages
  <1> DEFINE proved == targetHeaders[i]
             delivered == LastDeliveredNonce(proved)
             received == outbound.latest_received_nonce
  <1>1. LaneInv /\ LaneInv'
    BY ConfirmMessagesLaneInv DEF RewardsInv, ConfirmMessages
  <1>2. /\ outbound' = [outbound EXCEPT !.latest_received_nonce = delivered]
        /\ rewards' = [r \in Relayers |->
                         rewards[r] + RelayersRewards(proved.relayers, received + 1, delivered)[r]]
        /\ UNCHANGED <<targetHeaders, inbound, dispatched>>
    BY DEF ReceiveMessagesDeliveryProof, DeliveryConfirmed, targetVars, historyVars
  <1>3. /\ proved \in InboundLaneData /\ delivered \in Nat /\ received \in Nat
        /\ outbound'.latest_received_nonce = delivered
    BY <1>1, <1>2, LaneInvTypes, SMTT(30) DEF OutboundLaneData
  <1>4. /\ QueueWellFormed(proved) /\ proved.last_confirmed_nonce <= received
        /\ CreditsGenuine(proved) /\ CreditsUnconfirmed(proved)
        /\ delivered <= Len(dispatched) /\ Len(dispatched) \in Nat
    BY <1>1, LaneInvTypes, SMTT(30) DEF RewardsInv, LaneInv, ViewsLagBehind, DispatchedExactlyOnceInOrder
  <1>5. received < delivered
    <2>1. ConfirmDeliveryResult(outbound, TotalUnrewardedMessages(proved.relayers),
                                delivered, proved.relayers) = "ConfirmedMessages"
      BY Zenon DEF ReceiveMessagesDeliveryProof
    <2> HIDE DEF proved, delivered
    <2>2. ~(delivered <= received)
      BY <2>1 DEF ConfirmDeliveryResult
    <2> HIDE DEF received
    <2> QED  BY <2>2, <1>3
  <1> HIDE DEF proved, delivered, received
  <1>6. ASSUME NEW r \in Relayers
        PROVE  rewards'[r] = Cardinality({n \in 1..delivered : dispatched[n].relayer = r})
    <2> DEFINE old == {n \in 1..received : dispatched[n].relayer = r}
               new == {n \in (received + 1)..delivered : dispatched[n].relayer = r}
               all == {n \in 1..delivered : dispatched[n].relayer = r}
    <2>1. rewards[r] = Cardinality(old)
      BY Zenon DEF RewardsInv, RewardsMatchDeliveries, received
    <2>2. RelayersRewards(proved.relayers, received + 1, delivered)[r] = Cardinality(new)
      BY <1>3, <1>4, RewardsCounted, SMTT(30) DEF delivered
    <2>3. all = old \cup new /\ old \cap new = {}
      BY <1>3, <1>5
    <2>4. IsFiniteSet(old) /\ IsFiniteSet(new)
      <3>1. IsFiniteSet(1..received) /\ IsFiniteSet((received + 1)..delivered)
        <4>1. 1 \in Nat /\ received + 1 \in Nat
          BY <1>3
        <4> QED  BY <1>3, <4>1, FiniteRange, SMTT(30)
      <3>2. old \in SUBSET (1..received) /\ new \in SUBSET ((received + 1)..delivered)
        OBVIOUS
      <3> HIDE DEF old, new
      <3> QED  BY <3>1, <3>2, FS_Subset, Zenon
    <2> HIDE DEF old, new, all
    <2>5. /\ Cardinality(old) \in Nat /\ Cardinality(new) \in Nat
          /\ Cardinality(old \cap new) = 0
      BY <2>3, <2>4, FS_CardinalityType, FS_EmptySet, Zenon
    <2>6. Cardinality(all) = Cardinality(old) + Cardinality(new)
      <3>1. Cardinality(old \cup new) = Cardinality(old) + Cardinality(new) - Cardinality(old \cap new)
        BY <2>4, FS_Union
      <3> QED  BY <3>1, <2>3, <2>5, SMTT(30)
    <2>7. rewards'[r] = rewards[r] + RelayersRewards(proved.relayers, received + 1, delivered)[r]
      BY <1>2
    <2> QED  BY <2>1, <2>2, <2>6, <2>7, SMTT(30) DEF all
  <1>7. RewardsMatchDeliveries'
    BY <1>2, <1>3, <1>6, ZenonT(30) DEF RewardsMatchDeliveries
  <1> QED
    BY <1>1, <1>2, <1>7, SMTT(30) DEF RewardsInv, CreditsGenuine

\* receive_messages_proof credits the relayer with what it dispatches.
LEMMA DeliverMessagesRewardsInv == RewardsInv /\ DeliverMessages => RewardsInv'
  <1> SUFFICES ASSUME RewardsInv, NEW relayer \in Relayers, NEW i \in 1..Len(sourceHeaders),
                      NEW begin \in 1..(MaxNonce + 1), NEW end \in (begin - 1)..MaxNonce,
                      NEW withState \in BOOLEAN,
                      ReceiveMessagesProof(relayer, sourceHeaders[i], begin, end, withState)
               PROVE  RewardsInv'
    BY DEF DeliverMessages
  <1> DEFINE last == LastDeliveredNonce(inbound)
             accepted == LastDeliveredNonce(inbound')
             state == sourceHeaders[i].lane
             updated == IF withState THEN ReceiveStateUpdate(inbound, state) ELSE inbound
  <1>1. LaneInv /\ LaneInv'
    BY DeliverMessagesLaneInv DEF RewardsInv, DeliverMessages
  <1>2. /\ last \in Nat /\ accepted \in Nat /\ accepted >= last
        /\ Len(dispatched) = last /\ Len(dispatched') = accepted
        /\ UNCHANGED <<outbound, rewards, targetHeaders>>
    BY <1>1, LaneInvTypes, LastDeliveredNonceType, ReceiveMessagesProofEffect, ZenonT(30)
       DEF LaneInv, DispatchedExactlyOnceInOrder
  <1>3. dispatched' = [n \in 1..accepted |->
                         IF n <= last
                         THEN dispatched[n]
                         ELSE [payload |-> sourceHeaders[i].messages[n], relayer |-> relayer]]
    BY <1>1, ReceiveMessagesProofEffect, SMTT(30)
  <1>4. /\ \A n \in 1..last : n \in 1..accepted /\ dispatched'[n] = dispatched[n]
        /\ \A n \in (last + 1)..accepted : dispatched'[n].relayer = relayer
    <2> HIDE DEF last, accepted
    <2> QED  BY <1>2, <1>3, SMTT(30)
  <1>5. /\ inbound \in InboundLaneData /\ QueueWellFormed(inbound)
        /\ state.latest_received_nonce \in Nat
        /\ begin \in Nat /\ end \in Nat
    <2>1. inbound \in InboundLaneData /\ QueueWellFormed(inbound)
      BY <1>1, LaneInvTypes, Zenon DEF LaneInv
    <2>2. state.latest_received_nonce \in Nat
      BY <1>1, LaneInvTypes, Zenon DEF state
    <2>3. begin \in Nat /\ end \in Nat
      BY BridgeAssumption, SMTT(30)
    <2> QED  BY <2>1, <2>2, <2>3, Zenon
  <1>6. /\ updated \in InboundLaneData /\ QueueWellFormed(updated)
        /\ LastDeliveredNonce(updated) = last
        /\ updated.last_confirmed_nonce \in Nat
        /\ updated.last_confirmed_nonce >= inbound.last_confirmed_nonce
        /\ \A n \in Nat, r \in Relayers : Credits(updated, n, r) => Credits(inbound, n, r)
        /\ \A n \in Nat, r \in Relayers :
             n > updated.last_confirmed_nonce /\ Credits(inbound, n, r) => Credits(updated, n, r)
    <2>0. inbound.last_confirmed_nonce \in Nat
      BY <1>1, LaneInvTypes, Zenon
    <2>1. CASE withState
      <3>1. updated = ReceiveStateUpdate(inbound, state)
        BY <2>1, SMTT(30)
      <3> HIDE DEF updated, state
      <3>2. /\ updated \in InboundLaneData /\ QueueWellFormed(updated)
            /\ LastDeliveredNonce(updated) = last
            /\ \/ updated = inbound
               \/ updated.last_confirmed_nonce > inbound.last_confirmed_nonce
        BY <3>1, <1>5, ReceiveStateUpdateProperties, SMTT(30)
      <3>3. updated.last_confirmed_nonce \in Nat
        BY <3>2, LastDeliveredNonceType, SMTT(30)
      <3>4. updated.last_confirmed_nonce >= inbound.last_confirmed_nonce
        BY <3>2, <3>3, <2>0, SMTT(30)
      <3> QED  BY <3>1, <3>2, <3>3, <3>4, <1>5, ReceiveStateUpdateCredits, SMTT(30)
    <2>2. CASE ~withState
      <3>1. updated = inbound
        BY <2>2, SMTT(30)
      <3> HIDE DEF updated
      <3> QED  BY <3>1, <1>5, <2>0, SMTT(30)
    <2> QED  BY <2>1, <2>2, SMTT(30)
  <1>7. inbound' = ReceiveMessages(updated, relayer, begin, end)
    BY DEF ReceiveMessagesProof
  <1> HIDE DEF updated, state
  <1>8. /\ accepted = LastAccepted(updated, relayer, begin, end)
        /\ inbound'.last_confirmed_nonce = updated.last_confirmed_nonce
    BY <1>5, <1>6, <1>7, ReceiveMessagesProperties, ZenonT(30)
  <1>9. \A n \in Nat, r \in Relayers :
          Credits(inbound', n, r) <=>
            Credits(updated, n, r) \/ (r = relayer /\ n \in (last + 1)..accepted)
    BY <1>5, <1>6, <1>7, <1>8, ReceiveMessagesCredits, SMTT(30)
  <1> HIDE DEF last, accepted
  <1>10. \A n \in 1..accepted, r \in Relayers : Credits(inbound', n, r) => dispatched'[n].relayer = r
    <2> SUFFICES ASSUME NEW n \in 1..accepted, NEW r \in Relayers, Credits(inbound', n, r)
                 PROVE  dispatched'[n].relayer = r
      OBVIOUS
    <2>1. CASE n \in (last + 1)..accepted
      <3>1. ~Credits(updated, n, r)
        <4>1. n \in Nat /\ ~(n <= last)
          BY <2>1, <1>2, SMTT(30)
        <4> QED  BY <4>1, <1>6, CreditsBound, SMTT(30)
      <3> QED  BY <2>1, <3>1, <1>4, <1>9, SMTT(30)
    <2>2. CASE n \notin (last + 1)..accepted
      <3>1. n \in 1..last
        BY <2>2, <1>2, SMTT(30)
      <3>2. Credits(inbound, n, r)
        BY <2>2, <1>6, <1>9, SMTT(30)
      <3> QED  BY <3>1, <3>2, <1>2, <1>4, SMTT(30) DEF RewardsInv, CreditsGenuine
    <2> QED  BY <2>1, <2>2
  <1>11. CreditsUnconfirmed(inbound')
    <2> SUFFICES ASSUME NEW n \in (updated.last_confirmed_nonce + 1)..accepted
                 PROVE  \E r \in Relayers : Credits(inbound', n, r)
      BY <1>8 DEF CreditsUnconfirmed, accepted
    <2>1. CASE n \in (last + 1)..accepted
      BY <2>1, <1>6, <1>9, SMTT(30)
    <2>2. CASE n \notin (last + 1)..accepted
      <3>1. /\ n \in (inbound.last_confirmed_nonce + 1)..last /\ n \in Nat
            /\ n > updated.last_confirmed_nonce
        <4>1. /\ last \in Nat /\ accepted \in Nat
              /\ inbound.last_confirmed_nonce \in Nat
          BY <1>1, <1>2, LaneInvTypes, Zenon
        <4> HIDE DEF last, accepted, updated
        <4> QED  BY <4>1, <2>2, <1>6
      <3>2. PICK r \in Relayers : Credits(inbound, n, r)
        BY <3>1, SMTT(30) DEF RewardsInv, CreditsUnconfirmed, last
      <3> QED  BY <3>1, <3>2, <1>6, <1>9, SMTT(30)
    <2> QED  BY <2>1, <2>2, SMTT(30)
  <1>12. ASSUME NEW j \in 1..Len(targetHeaders), NEW n \in 1..accepted, NEW r \in Relayers,
                Credits(targetHeaders[j], n, r)
         PROVE  dispatched'[n].relayer = r
    <2>1. /\ targetHeaders[j] \in InboundLaneData /\ QueueWellFormed(targetHeaders[j])
          /\ LastDeliveredNonce(targetHeaders[j]) <= last
          /\ LastDeliveredNonce(targetHeaders[j]) \in Nat
      BY <1>1, LaneInvTypes, SMTT(30) DEF LaneInv, ViewsLagBehind, last
    <2>2. n <= LastDeliveredNonce(targetHeaders[j])
      <3>1. n \in Nat
        BY <1>2
      <3> QED  BY <3>1, <1>12, <2>1, CreditsBound, SMTT(30)
    <2>3. n \in 1..last
      BY <2>1, <2>2, <1>2, SMTT(30)
    <2> QED  BY <1>12, <2>3, <1>2, <1>4, SMTT(30) DEF RewardsInv, CreditsGenuine
  <1>13. RewardsMatchDeliveries'
    <2>1. outbound.latest_received_nonce <= last /\ outbound.latest_received_nonce \in Nat
      BY <1>1, LaneInvTypes, Zenon DEF LaneInv, ViewsLagBehind, last
    <2>2. \A n \in 1..outbound.latest_received_nonce : dispatched'[n] = dispatched[n]
      BY <2>1, <1>2, <1>4, SMTT(30)
    <2>3. ASSUME NEW r \in Relayers
          PROVE  {n \in 1..outbound.latest_received_nonce : dispatched'[n].relayer = r}
                   = {n \in 1..outbound.latest_received_nonce : dispatched[n].relayer = r}
      BY <2>2
    <2> QED  BY <1>2, <2>3, SMTT(30) DEF RewardsInv, RewardsMatchDeliveries
  <1> QED
    BY <1>1, <1>2, <1>10, <1>11, <1>12, <1>13, SMTT(30) DEF RewardsInv, CreditsGenuine

\* Initially nothing is delivered, credited or rewarded.
LEMMA InitRewardsInv == Init => RewardsInv
  <1> SUFFICES ASSUME Init PROVE RewardsInv
    OBVIOUS
  <1>1. /\ inbound.relayers = <<>> /\ inbound.last_confirmed_nonce = 0
        /\ LastDeliveredNonce(inbound) = 0 /\ dispatched = <<>> /\ targetHeaders = <<>>
        /\ outbound.latest_received_nonce = 0
        /\ \A r \in Relayers : rewards[r] = 0
    BY DEF Init, LastDeliveredNonce, DefaultInboundLaneData, DefaultOutboundLaneData
  <1>2. CreditsGenuine(inbound) /\ CreditsUnconfirmed(inbound)
    BY <1>1 DEF CreditsGenuine, CreditsUnconfirmed
  <1>3. RewardsMatchDeliveries
    <2>1. ASSUME NEW r \in Relayers
          PROVE  {n \in 1..outbound.latest_received_nonce : dispatched[n].relayer = r} = {}
      BY <1>1, SMTT(30)
    <2> QED  BY <1>1, <2>1, FS_EmptySet, SMTT(30) DEF RewardsMatchDeliveries
  <1> QED
    BY <1>1, <1>2, <1>3, InitLaneInv, SMTT(30) DEF RewardsInv

\* Rewards and credits match deliveries in every reachable state.
THEOREM RewardsInvariant == Spec => []RewardsInv
  <1>1. RewardsInv /\ [Next]_vars => RewardsInv'
    <2> SUFFICES ASSUME RewardsInv, [Next]_vars PROVE RewardsInv'
      OBVIOUS
    <2>1. LaneInv
      BY DEF RewardsInv
    <2>2. CASE ImportSourceHeader
      <3>1. UNCHANGED <<inbound, targetHeaders, rewards, dispatched, outbound>>
        BY <2>2 DEF ImportSourceHeader, sourceVars, historyVars
      <3> QED  BY <2>1, <2>2, <3>1, ImportSourceHeaderLaneInv, RewardsInvUnconcerned, SMTT(30)
    <2>3. CASE ImportTargetHeader
      BY <2>3, ImportTargetHeaderRewardsInv
    <2>4. ASSUME NEW payload \in Payloads, SendMessage(payload) PROVE RewardsInv'
      <3>1. /\ UNCHANGED <<inbound, targetHeaders, rewards, dispatched>>
            /\ outbound'.latest_received_nonce = outbound.latest_received_nonce
        BY <2>1, <2>4, LaneInvTypes, SMTT(30) DEF SendMessage, NonceTaken, OutboundLaneData, targetVars
      <3> QED  BY <2>1, <2>4, <3>1, SendMessageLaneInv, RewardsInvUnconcerned, SMTT(30)
    <2>5. CASE PruneMessages
      <3>1. /\ UNCHANGED <<inbound, targetHeaders, rewards, dispatched>>
            /\ outbound'.latest_received_nonce = outbound.latest_received_nonce
        BY <2>1, <2>5, LaneInvTypes, SMTT(30) DEF PruneMessages, OutboundLaneData, targetVars, historyVars
      <3> QED  BY <2>1, <2>5, <3>1, PruneMessagesLaneInv, RewardsInvUnconcerned, SMTT(30)
    <2>6. CASE ConfirmMessages
      BY <2>6, ConfirmMessagesRewardsInv
    <2>7. CASE DeliverMessages
      BY <2>7, DeliverMessagesRewardsInv
    <2>8. CASE SetOperatingMode
      <3>1. UNCHANGED <<inbound, targetHeaders, rewards, dispatched, outbound>>
        BY <2>8 DEF SetOperatingMode, SetSourceOperatingMode, SetTargetOperatingMode,
             sourceVars, targetVars, historyVars
      <3> QED  BY <2>1, <2>8, <3>1, SetOperatingModeLaneInv, RewardsInvUnconcerned
    <2>9. CASE UNCHANGED vars
      <3>1. UNCHANGED <<inbound, targetHeaders, rewards, dispatched, outbound>>
        BY <2>9 DEF vars, sourceVars, targetVars, historyVars
      <3> QED  BY <2>1, <2>9, <3>1, StutterLaneInv, RewardsInvUnconcerned, SMTT(30)
    <2> QED
      BY <2>2, <2>3, <2>4, <2>5, <2>6, <2>7, <2>8, <2>9, SMTT(30) DEF Next
  <1> QED
    BY InitRewardsInv, <1>1, PTL DEF Spec

-----------------------------------------------------------------------------
(* What the invariants imply.                                              *)

\* Every delivered message is dispatched exactly once and in the order of
\* sending (receive_message), for all relayers, limits and message counts.
THEOREM ExactlyOnceInOrder == Spec => []DispatchedExactlyOnceInOrder
  <1>1. LaneInv => DispatchedExactlyOnceInOrder
    BY SMTT(30) DEF LaneInv
  <1> QED
    BY LaneInvariant, <1>1, PTL

\* prune_messages never drops an unconfirmed message.
THEOREM UnconfirmedNeverPruned == Spec => []UnconfirmedMessagesStored
  <1>1. LaneInv => UnconfirmedMessagesStored
    <2> SUFFICES ASSUME LaneInv,
                        NEW n \in (outbound.latest_received_nonce + 1)..outbound.latest_generated_nonce
                 PROVE  messages[n] = sent[n]
      BY SMTT(30) DEF UnconfirmedMessagesStored
    <2>1. n \in outbound.oldest_unpruned_nonce..Len(sent) /\ n \in 1..MaxNonce
      BY LaneInvTypes, BridgeAssumption, SMTT(30) DEF LaneInv, OutboundWellFormed
    <2> QED  BY <2>1, SMTT(30) DEF LaneInv, StoredMessagesGenuine
  <1> QED
    BY LaneInvariant, <1>1, PTL

\* The source chain cannot learn of a confirmation before the target chain has
\* delivered: the "should never happen" return of receive_state_update is dead.
THEOREM NoLaneStateFromFuture == Spec => []LaneStateNeverFromFuture
  <1>1. LaneInv => LaneStateNeverFromFuture
    <2> SUFFICES ASSUME LaneInv, NEW i \in 1..Len(sourceHeaders)
                 PROVE  sourceHeaders[i].lane.latest_received_nonce <= LastDeliveredNonce(inbound)
      BY SMTT(30) DEF LaneStateNeverFromFuture
    <2>1. /\ sourceHeaders[i].lane.latest_received_nonce <= outbound.latest_received_nonce
          /\ outbound.latest_received_nonce <= LastDeliveredNonce(inbound)
      BY DEF LaneInv, ViewsLagBehind
    <2>2. /\ sourceHeaders[i].lane.latest_received_nonce \in Nat
          /\ outbound.latest_received_nonce \in Nat /\ LastDeliveredNonce(inbound) \in Nat
      BY LaneInvTypes, SMTT(30)
    <2> QED  BY <2>1, <2>2, SMTT(30)
  <1> QED
    BY LaneInvariant, <1>1, PTL

\* The queue of unrewarded relayers stays within the pallet's limits.
THEOREM QueueLimits == Spec => []QueueWithinLimits
  <1>1. LaneInv => QueueWithinLimits
    <2> SUFFICES ASSUME LaneInv PROVE QueueWithinLimits
      OBVIOUS
    <2>1. /\ inbound \in InboundLaneData /\ QueueWellFormed(inbound)
          /\ LastDeliveredNonce(inbound) \in Nat /\ inbound.last_confirmed_nonce \in Nat
      BY LaneInvTypes DEF LaneInv
    <2>2. ASSUME inbound.relayers # <<>>
          PROVE  LastDeliveredNonce(inbound) - inbound.relayers[1].begin <= MaxUnconfirmedMessages
      <3>1. 1 \in 1..Len(inbound.relayers)
        BY <2>1, <2>2, LastDeliveredNonceType, SMTT(30)
      <3>2. inbound.relayers[1].begin \in Nat
        BY <3>1, <2>1, LastDeliveredNonceType, EntryTypes, SMTT(30)
      <3>3. /\ inbound.relayers[1].begin >= inbound.last_confirmed_nonce
            /\ LastDeliveredNonce(inbound) - inbound.last_confirmed_nonce <= MaxUnconfirmedMessages
        BY <2>1, <2>2, SMTT(30) DEF QueueWellFormed
      <3> QED  BY <3>2, <3>3, <2>1, LaneLimitsAssumption, SMTT(30)
    <2> QED  BY <2>1, <2>2 DEF QueueWithinLimits, QueueWellFormed
  <1> QED
    BY LaneInvariant, <1>1, PTL

\* Every confirmed message has earned its deliverer one reward, and nobody
\* else any (calc_relayers_rewards).
THEOREM RewardedOnce == Spec => []RewardsMatchDeliveries
  <1>1. RewardsInv => RewardsMatchDeliveries
    BY DEF RewardsInv
  <1> QED
    BY RewardsInvariant, <1>1, PTL

\* confirm_delivery never refuses a proof of a genuine inbound lane state.
THEOREM GenuineProofsNeverRefused == Spec => []GenuineDeliveryProofsAccepted
  <1>1. LaneInv => GenuineDeliveryProofsAccepted
    <2> SUFFICES ASSUME LaneInv, NEW i \in 1..Len(targetHeaders)
                 PROVE  ConfirmDeliveryResult(outbound,
                          TotalUnrewardedMessages(targetHeaders[i].relayers),
                          LastDeliveredNonce(targetHeaders[i]), targetHeaders[i].relayers)
                          \in {"NoNewConfirmations", "ConfirmedMessages"}
      BY SMTT(30) DEF GenuineDeliveryProofsAccepted
    <2> DEFINE proved == targetHeaders[i]
               q == proved.relayers
               delivered == LastDeliveredNonce(proved)
               received == outbound.latest_received_nonce
    <2>1. /\ proved \in InboundLaneData /\ QueueWellFormed(proved)
          /\ delivered \in Nat /\ received \in Nat
          /\ proved.last_confirmed_nonce \in Nat /\ proved.last_confirmed_nonce <= received
      BY LaneInvTypes, SMTT(30) DEF LaneInv, ViewsLagBehind
    <2>2. delivered <= outbound.latest_generated_nonce
      <3>1. /\ delivered <= LastDeliveredNonce(inbound)
            /\ LastDeliveredNonce(inbound) <= Len(sent)
            /\ outbound.latest_generated_nonce = Len(sent)
        BY DEF LaneInv, ViewsLagBehind, DispatchedExactlyOnceInOrder, OutboundWellFormed
      <3>2. LastDeliveredNonce(inbound) \in Nat /\ Len(sent) \in Nat
        BY LaneInvTypes, SMTT(30)
      <3> HIDE DEF delivered
      <3> QED  BY <3>1, <3>2, <2>1, SMTT(30)
    <2>3. UnrewardedRelayersAreCorrect(delivered, q)
      BY <2>1, Zenon DEF UnrewardedRelayersAreCorrect, QueueWellFormed
    <2>4. ASSUME delivered > received
          PROVE  delivered - received <= TotalUnrewardedMessages(q)
      <3>1. q # <<>> /\ q[Len(q)].end = delivered
        BY <2>1, <2>4, SMTT(30) DEF LastDeliveredNonce
      <3>2. q \in Seq(UnrewardedRelayer) /\ 1 \in 1..Len(q)
        BY <2>1, <3>1, LastDeliveredNonceType, SMTT(30)
      <3>3. q[1].begin \in Nat /\ q[1].end \in Nat
        BY <3>2, EntryTypes, SMTT(30)
      <3>4. q[1].begin <= proved.last_confirmed_nonce + 1
        <4>1. q[1].begin \in proved.last_confirmed_nonce..(proved.last_confirmed_nonce + 1)
          BY <2>1, <3>1, ZenonT(30) DEF QueueWellFormed
        <4> HIDE DEF q, proved
        <4> QED  BY <4>1, <2>1, SMTT(30)
      <3> HIDE DEF q, delivered, received, proved
      <3>5. q[1].begin <= received + 1
        BY <3>3, <3>4, <2>1, SMTT(30)
      <3> QED  BY <3>1, <3>3, <3>5, <2>1, <2>4, SMTT(30) DEF TotalUnrewardedMessages
    <2> HIDE DEF q, delivered
    <2>5. ConfirmDeliveryResult(outbound, TotalUnrewardedMessages(q), delivered, q)
            \in {"NoNewConfirmations", "ConfirmedMessages"}
      <3>1. TotalUnrewardedMessages(q) \in Int
        BY <2>1, EntryTypes, LastDeliveredNonceType, SMTT(30) DEF TotalUnrewardedMessages, q
      <3> QED  BY <3>1, <2>1, <2>2, <2>3, <2>4, LaneInvTypes, SMTT(30) DEF ConfirmDeliveryResult
    <2> QED  BY <2>5 DEF q, delivered
  <1> QED
    BY LaneInvariant, <1>1, PTL

-----------------------------------------------------------------------------
(* Refinement.                                                             *)

\* Every step of the lane is a step of the abstract channel or leaves it alone.
LEMMA ChannelStep == LaneInv /\ LaneInv' /\ [Next]_vars => [Channel!Next]_(Channel!channelVars)
  <1> SUFFICES ASSUME LaneInv, LaneInv', [Next]_vars
               PROVE  Channel!Next \/ UNCHANGED Channel!channelVars
    BY SMTT(30)
  <1> DEFINE received == [n \in 1..Len(dispatched) |-> dispatched[n].payload]
  <1>0. /\ Len(dispatched) \in Nat /\ Len(received) = Len(dispatched)
        /\ outbound.latest_received_nonce <= Len(dispatched)
    BY LaneInvTypes DEF LaneInv, DispatchedExactlyOnceInOrder, ViewsLagBehind
  <1>1. ASSUME UNCHANGED <<outbound, sent, dispatched>>
        PROVE  UNCHANGED Channel!channelVars
    BY <1>1, SMTT(30) DEF Channel!channelVars
  <1>2. CASE ImportSourceHeader \/ ImportTargetHeader \/ SetOperatingMode \/ UNCHANGED vars
    BY <1>1, <1>2, SMTT(30) DEF ImportSourceHeader, ImportTargetHeader, SetOperatingMode,
         SetSourceOperatingMode, SetTargetOperatingMode, vars, sourceVars, targetVars, historyVars
  <1>3. ASSUME NEW payload \in Payloads, SendMessage(payload) PROVE Channel!Next
    <2>1. /\ sent' = Append(sent, payload) /\ UNCHANGED dispatched
          /\ outbound'.latest_received_nonce = outbound.latest_received_nonce
          /\ outbound'.oldest_unpruned_nonce = outbound.oldest_unpruned_nonce
      BY <1>3, LaneInvTypes DEF SendMessage, NonceTaken, OutboundLaneData
    <2> QED  BY <2>1 DEF Channel!Next, Channel!Send
  <1>4. CASE PruneMessages
    <2>1. PICK oldest \in PruneTargets(outbound) :
            outbound' = [outbound EXCEPT !.oldest_unpruned_nonce = oldest]
      BY <1>4 DEF PruneMessages
    <2>2. UNCHANGED <<sent, dispatched>>
      BY <1>4 DEF PruneMessages, historyVars
    <2>3. /\ outbound'.latest_received_nonce = outbound.latest_received_nonce
          /\ outbound'.oldest_unpruned_nonce = oldest
          /\ oldest \in outbound.oldest_unpruned_nonce..(outbound.latest_received_nonce + 1)
      BY <2>1, LaneInvTypes, SMTT(30) DEF OutboundLaneData, PruneTargets
    <2>4. CASE oldest = outbound.oldest_unpruned_nonce
      BY <2>2, <2>3, <2>4, SMTT(30) DEF Channel!channelVars
    <2>5. CASE oldest # outbound.oldest_unpruned_nonce
      <3>1. oldest - 1 \in (outbound.oldest_unpruned_nonce - 1 + 1)..outbound.latest_received_nonce
        BY <2>3, <2>5, LaneInvTypes, SMTT(30)
      <3> QED  BY <2>2, <2>3, <3>1, SMTT(30) DEF Channel!Next, Channel!Forget
    <2> QED  BY <2>4, <2>5
  <1>5. CASE ConfirmMessages
    <2>1. PICK i \in 1..Len(targetHeaders) : ReceiveMessagesDeliveryProof(targetHeaders[i])
      BY <1>5 DEF ConfirmMessages
    <2> DEFINE delivered == LastDeliveredNonce(targetHeaders[i])
    <2>2. /\ outbound' = [outbound EXCEPT !.latest_received_nonce = delivered]
          /\ UNCHANGED <<sent, dispatched>>
          /\ delivered > outbound.latest_received_nonce
      BY <2>1, LaneInvTypes, SMTT(30) DEF ReceiveMessagesDeliveryProof, DeliveryConfirmed,
           ConfirmDeliveryResult, historyVars
    <2>3. delivered \in Nat /\ delivered <= Len(dispatched)
      BY LaneInvTypes DEF LaneInv, ViewsLagBehind, DispatchedExactlyOnceInOrder
    <2> HIDE DEF delivered
    <2>4. /\ outbound'.latest_received_nonce = delivered
          /\ outbound'.oldest_unpruned_nonce = outbound.oldest_unpruned_nonce
      BY <2>2, LaneInvTypes DEF OutboundLaneData
    <2>5. delivered \in (outbound.latest_received_nonce + 1)..Len(received)
      BY <1>0, <2>2, <2>3, LaneInvTypes, SMTT(30)
    <2> QED  BY <2>2, <2>4, <2>5, SMTT(30) DEF Channel!Next, Channel!Confirm
  <1>6. CASE DeliverMessages
    <2>1. /\ UNCHANGED <<sent, outbound>>
          /\ LastDeliveredNonce(inbound') >= LastDeliveredNonce(inbound)
          /\ \A n \in 1..Len(dispatched) : dispatched'[n] = dispatched[n]
      <3>1. PICK relayer \in Relayers, i \in 1..Len(sourceHeaders), begin \in 1..(MaxNonce + 1),
                 withState \in BOOLEAN :
              \E end \in (begin - 1)..MaxNonce :
                ReceiveMessagesProof(relayer, sourceHeaders[i], begin, end, withState)
        BY <1>6 DEF DeliverMessages
      <3>2. PICK end \in (begin - 1)..MaxNonce :
              ReceiveMessagesProof(relayer, sourceHeaders[i], begin, end, withState)
        BY <3>1, SMTT(30)
      <3>3. /\ UNCHANGED <<sent, outbound>>
            /\ LastDeliveredNonce(inbound') >= LastDeliveredNonce(inbound)
            /\ dispatched' = [n \in 1..LastDeliveredNonce(inbound') |->
                  IF n <= LastDeliveredNonce(inbound)
                  THEN dispatched[n]
                  ELSE [payload |-> sourceHeaders[i].messages[n], relayer |-> relayer]]
        BY <3>2, ReceiveMessagesProofEffect, SMTT(30)
      <3>4. /\ Len(dispatched) = LastDeliveredNonce(inbound)
            /\ Len(dispatched') = LastDeliveredNonce(inbound')
            /\ LastDeliveredNonce(inbound) \in Nat /\ LastDeliveredNonce(inbound') \in Nat
        BY LaneInvTypes, LastDeliveredNonceType, SMTT(30) DEF LaneInv, TypeOK, DispatchedExactlyOnceInOrder
      <3> QED  BY <3>3, <3>4, SMTT(30)
    <2>2. /\ Len(dispatched') \in Nat /\ Len(dispatched') >= Len(dispatched)
          /\ Len(dispatched') <= Len(sent)
          /\ \A n \in 1..Len(dispatched') : dispatched'[n].payload = sent[n]
      <3>1. DispatchedExactlyOnceInOrder /\ DispatchedExactlyOnceInOrder' /\ inbound' \in InboundLaneData
        BY DEF LaneInv, TypeOK
      <3> QED  BY <3>1, <2>1, LastDeliveredNonceType, SMTT(30) DEF DispatchedExactlyOnceInOrder
    <2>3. CASE Len(dispatched') = Len(dispatched)
      <3>1. received' = received
        BY <2>1, <2>3, SMTT(30)
      <3> QED  BY <3>1, <2>1, SMTT(30) DEF Channel!channelVars
    <2>4. CASE Len(dispatched') # Len(dispatched)
      <3>1. Len(dispatched') \in (Len(received) + 1)..Len(sent)
        BY <1>0, <2>2, <2>4, LaneInvTypes, SMTT(30)
      <3>2. received' = [n \in 1..Len(dispatched') |-> sent[n]]
        BY <2>2
      <3> QED  BY <2>1, <3>1, <3>2, SMTT(30) DEF Channel!Next, Channel!Receive
    <2> QED  BY <2>3, <2>4, SMTT(30)
  <1> QED
    BY <1>2, <1>3, <1>4, <1>5, <1>6 DEF Next

\* The lane implements the abstract channel: payloads are received at most once
\* and in order, confirmed after reception and dropped after confirmation.
THEOREM LaneImplementsChannel == Spec => ChannelSpec
  <1>1. Init => Channel!Init
    <2> SUFFICES ASSUME Init PROVE Channel!Init
      OBVIOUS
    <2>1. [n \in 1..Len(dispatched) |-> dispatched[n].payload] = <<>>
      BY DEF Init
    <2> QED  BY <2>1 DEF Init, Channel!Init, DefaultOutboundLaneData
  <1> QED
    BY <1>1, ChannelStep, LaneInvariant, PTL DEF Spec, ChannelSpec, Channel!Spec
=============================================================================
