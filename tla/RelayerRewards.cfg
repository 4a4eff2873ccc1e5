\* Two relayers, three relay blocks, two messages in each direction.
CONSTANTS
  r1 = r1
  r2 = r2
  Relayers <- MCRelayers
  ParaHead <- MCParaHead
  Deliverer <- MCDeliverer
  DeliveryReward = 2
  MaxNonce = 2
SPECIFICATION Spec
INVARIANTS
  OneRefundPerMessage
  RefundMeansProgress
  RewardsAddUp
CHECK_DEADLOCK FALSE
