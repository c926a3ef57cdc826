SPECIFICATION Spec
CONSTANTS
  Peers = {c1, c2, c3}
  MaxPeers = 2
  Keys = {k1}
  NONE = NONE
  MaxVersion = 2
  Require = TRUE
SYMMETRY Symmetry
INVARIANTS KeysHold Enforced
CHECK_DEADLOCK FALSE
