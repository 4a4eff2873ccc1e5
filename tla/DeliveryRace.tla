---------------------------- MODULE DeliveryRace ----------------------------
(***************************************************************************)
(* The message delivery race of a relay (relays/messages/src): the loop of *)
(* message_race_loop.rs with the strategy of DeliveryStrategy, between a   *)
(* source chain, a target chain with forks, a pool of transactions and     *)
(* other relayers.                                                         *)
(*                                                                         *)
(* The loop waits for the first of several futures, handles its result and *)
(* then starts new requests, so an action is one arm of `select!` followed *)
(* by Schedule.  At most one request to each client is in flight.  A       *)
(* request is answered with the state of the block it is about, which is   *)
(* why the id of a target block is modelled by what the block stores.      *)
(* Source blocks that do not touch the lane are not numbered.              *)
(***************************************************************************)
EXTENDS DeliveryStrategy

CONSTANTS
  Self,           \* this relay's account
  SentBefore,     \* messages sent before the relay starts
  MaxNonce,       \* bound: messages sent over the lane
  MaxUnfinalized, \* bound: target blocks that are not finalized
  MaxDisturbances \* bound: messages sent, errors, lost transactions, rival deliveries, forks

ASSUME RaceAssumption ==
  /\ Self \in Relayers
  /\ MaxNonce \in Nat
  /\ MaxUnfinalized \in Nat \ {0}
  /\ SentBefore \in 0..MaxNonce
  /\ MaxDisturbances \in Nat

VARIABLES
  source,   \* finalized source blocks: [generated, confirmed]
  target,   \* target blocks [lane, header], from the last finalized to the best one
  pool,     \* the relay's transactions that wait for inclusion
  tracked,  \* the transaction that is tracked: where it was mined
  demand,   \* the source header that on-demand relays were asked for
  relay,    \* the local variables of the loop
  disturbances  \* how many of MaxDisturbances happened

vars == <<source, target, pool, tracked, demand, relay, disturbances>>

Best == target[Len(target)]

NewRelay(batching) ==
  [batching |-> batching, \* whether the target chain has batch calls
   strategy |-> NewStrategy,
   \* RaceStateImpl
   source_header |-> None, best_target |-> None, finalized_target |-> None,
   nonces_to_submit |-> None, nonces_submitted |-> None,
   \* what to ask for
   source_nonces_required |-> FALSE, source_required_header |-> None,
   target_best_nonces_required |-> FALSE, target_finalized_nonces_required |-> FALSE,
   target_batch_transaction |-> None,
   \* requests in flight
   source_request |-> None, target_request |-> None]

\* best_finalized_source_header_id_at_best_target
HeaderAtTarget(r) == IF r.best_target = None THEN None ELSE r.best_target.header

-----------------------------------------------------------------------------
(* What the loop does after each event.                                    *)

\* Mutant: nonces are proved at the best source header, known to the target or not.
ExpectedLatestHeader(r) == IF HeaderAtTarget(r) = None THEN None ELSE r.source_header

\* The header at which nonces are proved: that of a batch transaction counts as
\* known to the target.
ExpectedHeader(r) ==
  IF r.target_batch_transaction = None THEN HeaderAtTarget(r) ELSE r.target_batch_transaction

\* Mutant: nonces are selected though others are submitted.
SelectWhileSubmitted(r) ==
  IF r.source_request # None \/ r.nonces_to_submit # None
  THEN None
  ELSE SelectNoncesToDeliver(r.strategy, ExpectedHeader(r))

Select(r) ==
  IF r.source_request # None \/ r.nonces_to_submit # None \/ r.nonces_submitted # None
  THEN None
  ELSE SelectNoncesToDeliver(r.strategy, ExpectedHeader(r))

\* The source is asked for a proof of the selected nonces, or for new nonces.
ScheduleSource(r, selected) ==
  LET batch == r.target_batch_transaction
      taken == [r EXCEPT !.target_batch_transaction = None]
  IN  IF r.source_request # None THEN r
      ELSE IF selected # None
      THEN [taken EXCEPT !.source_request =
              [kind |-> "proof", at |-> ExpectedHeader(r), nonces |-> selected, batch |-> batch]]
      ELSE IF r.source_nonces_required /\ BestAtSource(r.strategy) # None
      THEN [taken EXCEPT !.source_request =
              [kind |-> "nonces", at |-> r.source_header, prev |-> BestAtSource(r.strategy)]]
      ELSE taken

ScheduleTarget(r) ==
  LET Ask(request) == [r EXCEPT !.target_request = request]
  IN  IF r.target_request # None THEN r
      ELSE IF r.nonces_to_submit # None THEN Ask([kind |-> "submit"])
      ELSE IF r.source_required_header # None
      THEN Ask([kind |-> "header", header |-> r.source_required_header])
      ELSE IF r.target_best_nonces_required THEN Ask([kind |-> "best", at |-> r.best_target])
      ELSE IF r.target_finalized_nonces_required
      THEN Ask([kind |-> "finalized", at |-> r.finalized_target])
      ELSE r

\* The rest of an iteration of the loop, after an event is handled.
Schedule(handled) ==
  \E r \in {handled} : \E selected \in {Select(r)} :
    \E s \in {ScheduleSource(r, selected)} : relay' = ScheduleTarget(s)

-----------------------------------------------------------------------------
(* Events.                                                                 *)

chains == <<source, target, pool>>

Disturb == disturbances < MaxDisturbances /\ disturbances' = disturbances + 1

\* The header to ask for after source nonces were read, with or without success.
RequiredHeader(r, strategy) ==
  IF HeaderAtTarget(r) = None \/ r.nonces_submitted # None
  THEN None
  ELSE RequiredSourceHeader(strategy, HeaderAtTarget(r))

\* The strategy after nonces above `prev` were read at a source block.
SourceRead(r, at, prev) ==
  SourceNoncesUpdated(r.strategy, at, prev, source[at].generated, source[at].confirmed)

\* BasicStrategy::best_target_nonces_updated forgets what is delivered.
ResetDelivered(r, nonce) ==
  [r EXCEPT
    !.nonces_to_submit = IF @ # None /\ @.nonces.end <= nonce THEN None ELSE @,
    !.nonces_submitted = IF @ # None /\ @.end <= nonce THEN None ELSE @]

BestNoncesRead(r, block) ==
  ResetDelivered([r EXCEPT
    !.target_best_nonces_required = FALSE,
    !.target_request = None,
    !.strategy = BestTargetNoncesUpdated(@, block.lane)], LastDeliveredNonce(block.lane))

FinalizedNoncesRead(r, block) ==
  [r EXCEPT
    !.target_finalized_nonces_required = FALSE,
    !.target_request = None,
    !.strategy = FinalizedTargetNoncesUpdated(@, block.lane, HeaderAtTarget(r))]

\* Blocks come all the time.  One that does not touch the lane is left out unless
\* the relay would learn something by reading nonces again.
Knowledge(r) == <<r.strategy, r.nonces_to_submit, r.nonces_submitted>>

NewSourceBlock ==
  \/ relay.source_header # Len(source)
  \/ LET prev == BestAtSource(relay.strategy)
     IN  /\ prev # None /\ ~relay.source_nonces_required
         /\ \E strategy \in {SourceRead(relay, Len(source), prev)} :
              \/ strategy # relay.strategy
              \/ RequiredHeader(relay, strategy) # relay.source_required_header

NewBestBlock ==
  \/ relay.best_target # Best
  \/ /\ ~relay.target_best_nonces_required
     /\ Knowledge(BestNoncesRead(relay, Best)) # Knowledge(relay)

NewFinalizedBlock ==
  \/ relay.finalized_target # target[1]
  \/ /\ ~relay.target_finalized_nonces_required
     /\ Knowledge(FinalizedNoncesRead(relay, target[1])) # Knowledge(relay)

\* race_source_updated: the source has a new finalized block.
SourceState ==
  /\ NewSourceBlock
  /\ Schedule([relay EXCEPT !.source_nonces_required = TRUE, !.source_header = Len(source)])
  /\ UNCHANGED <<chains, tracked, demand, disturbances>>

\* race_target_updated: the target has a new best block, a new finalized one or both.
TargetState ==
  /\ NewBestBlock \/ NewFinalizedBlock
  /\ Schedule([relay EXCEPT
       !.target_best_nonces_required = @ \/ NewBestBlock,
       !.best_target = Best,
       !.target_finalized_nonces_required = @ \/ NewFinalizedBlock,
       !.finalized_target = target[1]])
  /\ UNCHANGED <<chains, tracked, demand, disturbances>>

SourceNonces ==
  LET request == relay.source_request
  IN  /\ request # None /\ request.kind = "nonces"
      /\ \E strategy \in {SourceRead(relay, request.at, request.prev)} :
           Schedule([relay EXCEPT
             !.source_nonces_required = FALSE,
             !.source_request = None,
             !.strategy = strategy,
             !.source_required_header = RequiredHeader(relay, strategy)])
      /\ UNCHANGED <<chains, tracked, demand, disturbances>>

SourceGenerateProof ==
  LET request == relay.source_request
  IN  /\ request # None /\ request.kind = "proof"
      /\ Schedule([relay EXCEPT
           !.source_request = None,
           !.nonces_to_submit = [at |-> request.at, nonces |-> request.nonces, batch |-> request.batch]])
      /\ UNCHANGED <<chains, tracked, demand, disturbances>>

TargetBestNonces ==
  LET request == relay.target_request
  IN  /\ request # None /\ request.kind = "best"
      /\ Schedule(BestNoncesRead(relay, request.at))
      /\ UNCHANGED <<chains, tracked, demand, disturbances>>

TargetFinalizedNonces ==
  LET request == relay.target_request
  IN  /\ request # None /\ request.kind = "finalized"
      /\ Schedule(FinalizedNoncesRead(relay, request.at))
      /\ UNCHANGED <<chains, tracked, demand, disturbances>>

\* target_require_source_header: the client answers with a batch transaction that
\* brings the header or a later one along, or has on-demand relays bring it.
TargetRequireSourceHeader ==
  LET request == relay.target_request
      Answered(batch) == Schedule([relay EXCEPT
                           !.source_required_header = None,
                           !.target_request = None,
                           !.target_batch_transaction = batch])
  IN  /\ request # None /\ request.kind = "header"
      /\ IF relay.batching
         THEN /\ \E header \in request.header..Len(source) : Answered(header)
              /\ UNCHANGED demand
         ELSE /\ Answered(None)
              /\ demand' = Larger(demand, request.header)
      /\ UNCHANGED <<chains, tracked, disturbances>>

TargetSubmitProof ==
  LET request == relay.target_request
  IN  /\ request # None /\ request.kind = "submit"
      /\ Schedule([relay EXCEPT
           !.target_request = None,
           !.nonces_to_submit = None,
           !.nonces_submitted = relay.nonces_to_submit.nonces])
      /\ pool' = pool \cup {relay.nonces_to_submit}
      /\ tracked' = [tx |-> relay.nonces_to_submit, block |-> None, nonce |-> None]
      /\ UNCHANGED <<source, target, demand, disturbances>>

\* Mutant: the nonces of a transaction that failed or got lost stay submitted.
KeepSubmitted(r) == r

\* The tracked transaction is finalized; or it counts as lost, though it may still
\* be mined, or its outcome cannot be read.
ResetSubmitted(r) == [r EXCEPT !.nonces_submitted = None]

TransactionFinalized ==
  /\ tracked # None /\ tracked.block = 1
  /\ Schedule(IF relay.nonces_submitted # None /\ tracked.nonce < relay.nonces_submitted.end
                       THEN ResetSubmitted(relay)
                       ELSE relay)
  /\ tracked' = None
  /\ UNCHANGED <<chains, demand, disturbances>>

TransactionLost(dropped) ==
  /\ tracked # None
  /\ dropped => tracked.block = None
  /\ Disturb
  /\ Schedule(ResetSubmitted(relay))
  /\ tracked' = None
  /\ pool' = IF dropped THEN pool \ {tracked.tx} ELSE pool
  /\ UNCHANGED <<source, target, demand>>

-----------------------------------------------------------------------------
(* Errors.                                                                 *)

\* A request for nonces fails with an error that is not a connection error: the
\* client is offline for a while.
Offline == [kind |-> "offline"]

SourceFails ==
  /\ relay.source_request # None /\ relay.source_request.kind = "nonces"
  /\ Disturb
  /\ Schedule([relay EXCEPT
       !.source_nonces_required = FALSE,
       !.source_request = Offline,
       !.source_required_header = RequiredHeader(relay, relay.strategy)])
  /\ UNCHANGED <<chains, tracked, demand>>

TargetFails ==
  LET request == relay.target_request
  IN  /\ request # None /\ request.kind \in {"best", "finalized", "header"}
      /\ Disturb
      /\ Schedule([relay EXCEPT
           !.target_request = Offline,
           !.target_best_nonces_required = @ /\ request.kind # "best",
           !.target_finalized_nonces_required = @ /\ request.kind # "finalized",
           !.source_required_header = IF request.kind = "header" THEN None ELSE @])
      /\ UNCHANGED <<chains, tracked, demand>>

SourceOnline ==
  /\ relay.source_request = Offline
  /\ Schedule([relay EXCEPT !.source_request = None])
  /\ UNCHANGED <<chains, tracked, demand, disturbances>>

TargetOnline ==
  /\ relay.target_request = Offline
  /\ Schedule([relay EXCEPT !.target_request = None])
  /\ UNCHANGED <<chains, tracked, demand, disturbances>>

\* A connection error in this race or in the other one, or a failure to prove or
\* submit messages, after which the transaction may be in the pool or not: the
\* loop is left, and the clients reconnect and start it anew.
Restart(submitted) ==
  /\ submitted => relay.target_request # None /\ relay.target_request.kind = "submit"
  /\ Disturb
  /\ relay' = NewRelay(relay.batching)
  /\ tracked' = None
  /\ pool' = IF submitted THEN pool \cup {relay.nonces_to_submit} ELSE pool
  /\ UNCHANGED <<source, target, demand>>

-----------------------------------------------------------------------------
(* The chains.                                                             *)

SendMessage ==
  LET last == source[Len(source)]
  IN  /\ last.generated < MaxNonce
      /\ Disturb
      /\ source' = Append(source, [last EXCEPT !.generated = @ + 1])
      /\ UNCHANGED <<target, pool, tracked, demand, relay>>

\* The confirmation race brings the last finalized delivery to the source chain.
ConfirmDelivery ==
  LET last == source[Len(source)]
      delivered == LastDeliveredNonce(target[1].lane)
  IN  /\ last.confirmed < delivered
      /\ source' = Append(source, [last EXCEPT !.confirmed = delivered])
      /\ UNCHANGED <<target, pool, tracked, demand, relay, disturbances>>

NewBlock(block) ==
  /\ Len(target) <= MaxUnfinalized
  /\ target' = Append(target, block)

\* On-demand relays bring the header that they were asked for.
ImportDemandedHeader ==
  /\ demand > Best.header
  /\ NewBlock([Best EXCEPT !.header = demand])
  /\ UNCHANGED <<source, pool, tracked, demand, relay, disturbances>>

\* The lane after a delivery transaction with a proof at a known header.
Delivered(lane, relayer, at, nonces) ==
  LET updated == IF nonces.withState
                 THEN ReceiveStateUpdate(lane, [latest_received_nonce |-> source[at].confirmed])
                 ELSE lane
  IN  ReceiveMessages(updated, relayer, nonces.begin, nonces.end)

\* The target block that a transaction leaves.  A batch fails if its header is not
\* new, and a proof of a header that is not known fails.
Executed(tx) ==
  IF tx.batch # None /\ tx.batch > Best.header
  THEN [header |-> tx.batch, lane |-> Delivered(Best.lane, Self, tx.at, tx.nonces)]
  ELSE IF tx.batch = None /\ tx.at <= Best.header
  THEN [Best EXCEPT !.lane = Delivered(@, Self, tx.at, tx.nonces)]
  ELSE Best

Mine(tx) ==
  /\ NewBlock(Executed(tx))
  /\ pool' = pool \ {tx}
  /\ tracked' = IF tracked # None /\ tracked.tx = tx
                THEN [tracked EXCEPT !.block = Len(target) + 1, !.nonce = LastDeliveredNonce(Executed(tx).lane)]
                ELSE tracked
  /\ UNCHANGED <<source, demand, relay, disturbances>>

\* Another relayer delivers the next message, and a header with it if need be.
RivalDelivers(relayer) ==
  \E header \in Best.header..Len(source) :
    LET next == LastDeliveredNonce(Best.lane) + 1
        lane == Delivered(Best.lane, relayer, header, [begin |-> next, end |-> next, withState |-> TRUE])
    IN  /\ next <= source[header].generated
        /\ lane # Best.lane
        /\ Disturb
        /\ NewBlock([header |-> header, lane |-> lane])
        /\ UNCHANGED <<source, pool, tracked, demand, relay>>

Finalize ==
  /\ Len(target) > 1
  /\ target' = Tail(target)
  /\ tracked' = IF tracked # None /\ tracked.block # None /\ tracked.block > 1
                THEN [tracked EXCEPT !.block = @ - 1]
                ELSE tracked
  /\ UNCHANGED <<source, pool, demand, relay, disturbances>>

\* The best chain is replaced by a shorter one; the tracked transaction returns
\* to the pool if its block is retracted.
Reorg ==
  \E k \in 1..(Len(target) - 1) :
    LET retracted == tracked # None /\ tracked.block # None /\ tracked.block > k
    IN  /\ Disturb
        /\ target' = SubSeq(target, 1, k)
        /\ pool' = IF retracted THEN pool \cup {tracked.tx} ELSE pool
        /\ tracked' = IF retracted THEN [tracked EXCEPT !.block = None, !.nonce = None] ELSE tracked
        /\ UNCHANGED <<source, demand, relay>>

-----------------------------------------------------------------------------
Init ==
  /\ source = <<[generated |-> 0, confirmed |-> 0], [generated |-> SentBefore, confirmed |-> 0]>>
  /\ target = <<[lane |-> DefaultInboundLaneData, header |-> 1]>>
  /\ pool = {}
  /\ tracked = None
  /\ demand = 0
  /\ relay \in {NewRelay(batching) : batching \in BOOLEAN}
  /\ disturbances = 0

RelayStep ==
  \/ SourceState \/ TargetState
  \/ SourceNonces \/ SourceGenerateProof
  \/ TargetBestNonces \/ TargetFinalizedNonces \/ TargetSubmitProof
  \/ TargetRequireSourceHeader
  \/ TransactionFinalized
  \/ SourceOnline \/ TargetOnline

DisturbingStep ==
  \/ \E dropped \in BOOLEAN : TransactionLost(dropped)
  \/ SourceFails \/ TargetFails
  \/ \E submitted \in BOOLEAN : Restart(submitted)
  \/ SendMessage
  \/ \E relayer \in Relayers \ {Self} : RivalDelivers(relayer)
  \/ Reorg

ChainStep ==
  \/ ConfirmDelivery \/ Finalize
  \/ ImportDemandedHeader
  \/ \E tx \in pool : Mine(tx)

Next == RelayStep \/ DisturbingStep \/ ChainStep

Spec == Init /\ [][Next]_vars

\* Blocks keep coming and are finalized, transactions in the pool are mined,
\* on-demand relays and the confirmation race work, and each future completes.
FairSpec ==
  /\ Spec
  /\ SF_vars(SourceState) /\ SF_vars(TargetState)
  /\ WF_vars(SourceNonces \/ SourceGenerateProof \/ SourceOnline)
  /\ WF_vars(TargetBestNonces \/ TargetFinalizedNonces \/ TargetSubmitProof \/ TargetOnline
             \/ TargetRequireSourceHeader)
  /\ WF_vars(TransactionFinalized)
  /\ WF_vars(ConfirmDelivery)
  /\ WF_vars(Finalize)
  /\ WF_vars(ImportDemandedHeader \/ \E tx \in pool : Mine(tx))

-----------------------------------------------------------------------------
(* Properties.                                                             *)

\* Between the best nonce at the target and the best one that the relay knows of at
\* the source, no nonce is missing in the queue: RaceSource::nonces is only asked for
\* nonces above best_at_source, so what is missing is never read again and the
\* messages after it are refused by the target.
NoNonceSkipped ==
  LET s == relay.strategy
  IN  s.best_target_nonce # None =>
        \A n \in (s.best_target_nonce + 1)..BestAtSource(s) :
          \E i \in 1..Len(s.source_queue) : n \in s.source_queue[i].begin..s.source_queue[i].end

\* Messages are sent, but nothing else disturbed the relay.
Undisturbed == disturbances = source[Len(source)].generated - SentBefore

\* As long as nobody interferes, the loop has one delivery transaction in the pool at
\* a time and it continues where the best block left off, though nonces are selected
\* from reads of several blocks: select_nonces_to_deliver waits for what is submitted.
NothingSentTwice ==
  Undisturbed =>
    /\ \A tx \in pool : tx.nonces.begin = LastDeliveredNonce(Best.lane) + 1
    /\ \A tx, other \in pool : tx = other

\* Whether the target has room for the messages of a transaction.
WithinLimits(tx) ==
  LET confirmed == IF tx.nonces.withState
                   THEN source[tx.at].confirmed
                   ELSE Best.lane.last_confirmed_nonce
  IN  tx.nonces.end <= confirmed + MaxUnconfirmedMessages

\* As long as nobody interferes, every transaction of the loop that the lane has room
\* for delivers all its messages: the header it proves them at is known to the
\* target or comes with the batch, holds the messages, and they are the next ones.
OwnDeliveriesAccepted ==
  [][\A tx \in pool :
       Mine(tx) /\ Undisturbed /\ WithinLimits(tx)
         => LastDeliveredNonce(target'[Len(target')].lane) = tx.nonces.end]_vars

\* All messages are delivered, in a finalized block of the target.
EverythingDelivered == LastDeliveredNonce(target[1].lane) = source[Len(source)].generated

\* Whatever fails, is lost, restarts or is delivered by others: all messages get
\* delivered, "we'll be sure that we won't block the lane"
\* (required_source_header_at_target).
LaneNotBlocked == []<>EverythingDelivered

\* The same with its one exception: the relay may go on and on proving more messages
\* than the lane has room for, because finalized_target_nonces_updated forgot the
\* confirmed nonce at the header that it proves them at.  Apart from this it never
\* waits for something that does not come.
LaneNotBlockedWithinLimits ==
  []<>(EverythingDelivered \/ \E tx \in pool : ~WithinLimits(tx))
=============================================================================
