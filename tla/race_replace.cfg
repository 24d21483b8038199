\* replaceLastBlock of one thread and addBlock of the other.
SPECIFICATION Spec
CONSTANTS
  Hash = {h0, h1, h2, h3}
  GenesisHash = h0
  NoHash = NoHash
  GenesisMiner = GenesisMiner
  Self = Self
  Others = Others
  NoBlock = NoBlock
  Messages = {"NEW_BLOCK"}
  MaxCrashes = 0
SYMMETRY HashSymmetry
INVARIANT LinkedAtRest
