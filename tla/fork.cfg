\* Both nodes mine: they may part.
SPECIFICATION LiveSpec
CONSTANTS
  na = na  nb = nb  nc = nc
  ab = ab  ba = ba  cb = cb
  h0 = h0
  Node = {na, nb}
  Miners = {na, nb}
  Link = {ba}
  Dialer <- PairDialer
  Acceptor <- PairAcceptor
  Breakable = {}
  Lossy = {ba}
  Restartable = {}
  Hash = {h0, h1, h2, h3}
  GenesisHash = h0
  NoHash = NoHash
  GenesisMiner = GenesisMiner
  None = None
  MaxLost = 0
  MaxRestarts = 0
  MaxWire = 1
PROPERTY Convergence
