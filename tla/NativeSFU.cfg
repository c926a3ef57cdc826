SPECIFICATION Spec
CONSTANTS
  Peers = {c1, c2, c3}
  MaxPeers = 3
  MaxProducers = 3
  NONE = NONE
SYMMETRY Symmetry
INVARIANTS ProducersExact ConsumersExact TrackedExact
PROPERTY NothingLeftBehind
CHECK_DEADLOCK FALSE
