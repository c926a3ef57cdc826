SPECIFICATION UndisturbedSpec
CONSTANTS
  Processes = {h1}
  Hashes = {e1, e2, e3, e4}
  Capacity = 2
  MaxLoads = 0
  IDLE = IDLE
INVARIANT RedisKeepsLog
CHECK_DEADLOCK FALSE
