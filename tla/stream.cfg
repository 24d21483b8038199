\* Four messages of three lengths through a small socket, in any segments.
SPECIFICATION LiveSpec
CONSTANTS
  ping = ping  block = block  chain = chain
  Message = {ping, block, chain}
  Length <- Lengths
  Room = 4
  MaxSends = 4
  MaxStale = 1
CHECK_DEADLOCK FALSE
INVARIANTS TypeOK InOrder Healed
PROPERTY AloneIsHeard
