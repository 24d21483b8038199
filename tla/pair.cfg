\* Two nodes, both mining, one link, with everything that can go wrong.
SPECIFICATION Spec
CONSTANTS
  na = na  nb = nb  nc = nc
  ab = ab  ba = ba  cb = cb
  h0 = h0
  Node = {na, nb}
  Miners = {na, nb}
  Link = {ba}
  Dialer <- PairDialer
  Acceptor <- PairAcceptor
  Breakable = {ba}
  Lossy = {ba}
  Restartable = {na, nb}
  Hash = {h0, h1, h2, h3}
  GenesisHash = h0
  NoHash = NoHash
  GenesisMiner = GenesisMiner
  None = None
  MaxLost = 1
  MaxRestarts = 1
  MaxWire = 2
SYMMETRY HashSymmetry
INVARIANTS TypeOK ChainIntact PrefixAgreement RewardsMatchChain MinerOnTip OwnBlocksDoNotReturn
PROPERTIES OnlyTipChanges ImplementsReplicas ImplementsLinks
