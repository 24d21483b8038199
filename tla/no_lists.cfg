\* Is a list of peers ever sent?
SPECIFICATION LiveSpec
CONSTANTS
  na = na  nb = nb
  here = here
  Node = {na, nb}
  Host <- Hosts
  PeerPort <- PeerPorts
  Seeds = {na, nb}
  Argument <- Arguments
  Port = {1, 2}
  None = None
  MaxStops = 0
  MaxWire = 1
CHECK_DEADLOCK FALSE
PROPERTY PeersAreSent
