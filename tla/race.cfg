\* Every call of both threads, and crashes anywhere.
SPECIFICATION LiveSpec
CONSTANTS
  Hash = {0, 1, 2, 3}
  GenesisHash = 0
  NoHash = NoHash
  GenesisMiner = GenesisMiner
  Self = Self
  Others = Others
  NoBlock = NoBlock
  Messages = {"NEW_BLOCK", "BLOCKS_RESPONSE"}
  MaxCrashes = 1
ACTION_CONSTRAINT LeastFresh
INVARIANTS TypeOK ChainLinked PaidForOwnBlocks OwnBlocksPaid LastBlockThere
PROPERTY JoinReturns
