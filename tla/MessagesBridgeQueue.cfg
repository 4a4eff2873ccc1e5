\* The state update that leaves a confirmed nonce in the queue.
CONSTANTS
  Relayers = {r1}
  Payloads = {p1}
  NoMessage = NoMessage
  OperatingModes = {"Normal"}
  MaxUnrewardedRelayerEntries = 2
  MaxUnconfirmedMessages = 2
  MaxPendingMessages = 2
  HeadersToKeep = 1
  MaxNonce = 2
SPECIFICATION Spec
INVARIANT QueueNoncesUnconfirmed
