\* Two relayers race for two queue entries over three messages and two imported headers.
CONSTANTS
  Relayers = {r1, r2}
  Payloads = {p1, p2}
  NoMessage = NoMessage
  OperatingModes = {"Normal"}
  MaxUnrewardedRelayerEntries = 2
  MaxUnconfirmedMessages = 2
  MaxPendingMessages = 2
  HeadersToKeep = 2
  MaxNonce = 3
SPECIFICATION Spec
SYMMETRY Symmetry
INVARIANTS
  DispatchedExactlyOnceInOrder
  UnconfirmedMessagesStored
  GenuineDeliveryProofsAccepted
  LaneStateNeverFromFuture
  QueueWithinLimits
  RewardsMatchDeliveries
  RewardsInv
PROPERTY ChannelSpec
