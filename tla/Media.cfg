SPECIFICATION MediaSpec
CONSTANTS
  Peers = {c1, c2}
  MaxPeers = 2
  Rooms = {m1, m2}
  Regions = {east, west}
  Default = abroad
  NOWHERE = NOWHERE
  DegradedAt = 3
  DownAt = 5
  RecoverAt = 2
  MaxLoad = 2
  Counts = {1, 3}
  Starts = {55, 75, 90}
  Reports = {0, 20, 50, 80, 100}
  Slos <- MCSlos
  Bad = {v1, v2}
  Others = {east}
  MaxQueue = 2
  MaxRouters = 3
  Places = {east, west}
  Local = home
  UNSET = UNSET
  Sessions = {s1, s2, s3}
  NONE = NONE
  NOBODY = NOBODY
  BufferSize = 2
  MaxEntries = 5
  MaxSize = 1
  MaxStarts = 1
SYMMETRY Symmetry
INVARIANTS
  OrchestratorSafe LayersSafe AlertsSafe TransportsSafe RoutingSafe
  RecordingsSafe TelemetrySafe
CHECK_DEADLOCK FALSE
