SPECIFICATION FairSpec
CONSTANTS
  Peers = {c1, c2, c3}
  Rooms = {r1}
  MaxPeers = 2
  QueueMax = 0
  Meta = {m0}
  NoMeta = m0
  NONE = NONE
  GONE = GONE
  Ttl = TRUE
  Hook = FALSE
  AutoCreate = TRUE
  AutoDestroy = TRUE
  Forget = TRUE
  Closes = FALSE
INVARIANTS SlotIsHeld SocketExclusive FirstDropResumable
PROPERTIES TokenIsOneTime SlotIsReleased ImplementsFairMembership
CHECK_DEADLOCK FALSE
