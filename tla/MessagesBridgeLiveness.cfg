\* The narrowest lane: one queue entry, contended by two relayers.
CONSTANTS
  Relayers = {r1, r2}
  Payloads = {p1}
  NoMessage = NoMessage
  OperatingModes = {"Normal", "RejectingOutboundMessages", "Halted"}
  MaxUnrewardedRelayerEntries = 1
  MaxUnconfirmedMessages = 2
  MaxPendingMessages = 2
  HeadersToKeep = 1
  MaxNonce = 3
SPECIFICATION FairSpec
INVARIANT QueueWithinLimits
PROPERTY SentMessagesEventuallyPruned
