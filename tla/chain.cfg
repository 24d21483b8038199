\* Only the node in the middle mines: na asks for its blocks, over a link that
\* loses messages, nc hears of them, and may be restarted.
SPECIFICATION LiveSpec
CONSTANTS
  na = na  nb = nb  nc = nc
  ab = ab  ba = ba  cb = cb
  h0 = h0
  Node = {na, nb, nc}
  Miners = {nb}
  Link = {ba, cb}
  Dialer <- ChainDialer
  Acceptor <- ChainAcceptor
  Breakable = {}
  Lossy = {ba}
  Restartable = {nc}
  Hash = {h0, h1, h2}
  GenesisHash = h0
  NoHash = NoHash
  GenesisMiner = GenesisMiner
  None = None
  MaxLost = 2
  MaxRestarts = 1
  MaxWire = 1
PROPERTY Convergence
