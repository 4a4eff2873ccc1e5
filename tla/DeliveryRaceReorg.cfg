SPECIFICATION Spec
CONSTANTS
  Relayers = {r1, r2}
  Self = r1
  None = None
  MaxUnrewardedRelayerEntries = 1
  MaxUnconfirmedMessages = 1
  MessageWeight <- UnitWeight
  MaxMessagesInBatch = 2
  MaxMessagesWeightInBatch = 2
  SentBefore = 2
  MaxNonce = 2
  MaxUnfinalized = 1
  MaxDisturbances = 2
\* Everything is delivered and the bounds are used up at the end.
CHECK_DEADLOCK FALSE
INVARIANT NoNonceSkipped
