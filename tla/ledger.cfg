\* Every call of the node's threads on its books.
SPECIFICATION LiveSpec
CONSTANTS
  self = self  rich = rich
  t1 = t1  t2 = t2  t3 = t3
  Tx = {t1, t2, t3}
  Address <- Addresses
  Self = self
  Sender <- SenderOf
  Cost <- CostOf
  FeePerByte <- EqualFees
  Timestamp <- LateSeconds
  Funds <- GenesisFunds
  Reward = 1
  PoolLimit = 2
  BlockLimit = 1
  None = None
  MaxTime = 2
  MaxForeign = 2
  MaxRestarts = 1
INVARIANTS TypeOK IndexedFunded
PROPERTIES NothingDropped DrainsAfterLoad
