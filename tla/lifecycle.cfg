\* One node, started, stopped and started again, with blocks coming in at any time.
SPECIFICATION LiveSpec
CONSTANTS
  Background = {sync}
  Cleaner = Cleaner
  Ping = Ping
  Slot = {m1, m2}
  None = None
INVARIANTS TypeOK OneMiner StopWaits ApiUp
PROPERTIES ServingSurvives StopReturns HandlerReturns
