\* Two nodes that dial each other.
SPECIFICATION Spec
CONSTANTS
  na = na  nb = nb  nc = nc
  ab = ab  ba = ba  cb = cb
  h0 = h0
  Node = {na, nb}
  Miners = {na}
  Link = {ab, ba}
  Dialer <- MutualDialer
  Acceptor <- MutualAcceptor
  Breakable = {}
  Lossy = {ab, ba}
  Restartable = {}
  Hash = {h0, h1, h2}
  GenesisHash = h0
  NoHash = NoHash
  GenesisMiner = GenesisMiner
  None = None
  MaxLost = 0
  MaxRestarts = 0
  MaxWire = 0
INVARIANT RewardsMatchChain
