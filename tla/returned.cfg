\* A block of this node is replaced.
SPECIFICATION Spec
CONSTANTS
  self = self  rich = rich
  t1 = t1  t2 = t2  t3 = t3
  Tx = {t1, t2, t3}
  Address <- Addresses
  Self = self
  Sender <- SenderOf
  Cost <- CostOf
  FeePerByte <- RankedFees
  Timestamp <- Seconds
  Funds <- GenesisFunds
  Reward = 1
  PoolLimit = 3
  BlockLimit = 2
  None = None
  MaxTime = 2
  MaxForeign = 2
  MaxRestarts = 1
PROPERTY ReturnedToMempool
