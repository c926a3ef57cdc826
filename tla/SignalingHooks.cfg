SPECIFICATION Spec
CONSTANTS
  Peers = {c1, c2, c3}
  Rooms = {r1}
  MaxPeers = 2
  QueueMax = 0
  Meta = {m0}
  NoMeta = m0
  NONE = NONE
  GONE = GONE
  Ttl = TRUE
  Hook = TRUE
  AutoCreate = TRUE
  AutoDestroy = TRUE
  Forget = TRUE
  Closes = TRUE
SYMMETRY Symmetry
INVARIANTS RosterAgrees CapacityRespected EventsTellMembership
PROPERTIES ImplementsMembership ImplementsRoomLife
CHECK_DEADLOCK FALSE
