SPECIFICATION Spec
CONSTANTS
  Peers = {c1, c2}
  Rooms = {r1}
  MaxPeers = 2
  QueueMax = 0
  Meta = {m0}
  NoMeta = m0
  NONE = NONE
  GONE = GONE
  Ttl = TRUE
  Hook = FALSE
  AutoCreate = TRUE
  AutoDestroy = TRUE
  Forget = TRUE
  Closes = FALSE
INVARIANT DroppedCanResume
CHECK_DEADLOCK FALSE
