SPECIFICATION FairSpec
CONSTANTS
  Procs = {h1}
  Home = h1
  Calls = {r1, r2, r3}
  NONE = NONE
  Crashes = FALSE
  Fails = FALSE
  Closing = {h1}
  MaxQueue = 2
  MaxPipe = 2
INVARIANT SessionsHold
PROPERTY RedisDrains
CHECK_DEADLOCK FALSE
