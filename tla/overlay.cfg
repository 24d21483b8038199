\* Two nodes that start, dial each other, lose connections and are started again.
SPECIFICATION LiveSpec
CONSTANTS
  na = na  nb = nb
  here = here
  Node = {na, nb}
  Host <- Hosts
  PeerPort <- PeerPorts
  Seeds = {na, nb}
  Argument <- Arguments
  Port = {1, 2}
  None = None
  MaxStops = 3
  MaxWire = 1
INVARIANTS TypeOK NoListTravels EachLinkOnce
CHECK_DEADLOCK FALSE
PROPERTIES OnlyGhostsRefuse HandshakeArrives ImplementsLinks
