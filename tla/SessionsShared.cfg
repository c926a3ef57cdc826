SPECIFICATION FairSpec
CONSTANTS
  Procs = {h1, h2}
  Home = h1
  Calls = {r1, r2}
  NONE = NONE
  Crashes = TRUE
  Fails = TRUE
  Closing = {h1}
  MaxQueue = 0
  MaxPipe = 1
INVARIANT Durable
PROPERTY SuspendedEnds
CHECK_DEADLOCK FALSE
