SPECIFICATION Spec
CONSTANTS
  Peers = {c1, c2, c3}
  Rooms = {r1}
  MaxPeers = 2
  QueueMax = 1
  Meta = {m0, m1}
  NoMeta = m0
  NONE = NONE
  GONE = GONE
  Ttl = TRUE
  Hook = FALSE
  AutoCreate = TRUE
  AutoDestroy = FALSE
  Forget = TRUE
  Closes = FALSE
SYMMETRY Symmetry
INVARIANT ViewExact
CHECK_DEADLOCK FALSE
