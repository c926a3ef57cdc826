SPECIFICATION GuardsSpec
CONSTANTS
  Peers = {c1, c2, c3}
  MaxPeers = 2
  PeersCap = 2
  Askers = {c1, c2, c3}
  Parts = {"lock", "load", "policy", "region"}
  AppHook = TRUE
  Answers = {"true", "false", "throws"}
  Second = 1
  Minute = 2
  BanTime = 1
  PerSecond = 1
  PerMinute = 2
  Connections = 2
  Types = {audio, video}
  Required = {audio}
  Ids = {i1, i2}
  Subjects = {s1}
  ANON = ANON
  Versions = 3
  Records = 3
  Clients = {w1, w2}
  Procs = {h1, h2}
  Failures = 1
  Meta = {m0, m1}
  NONE = NONE
  MaxRooms = 2
  MaxPipe = 2
  Processes = {q1}
  Hashes = {c1, c2, c3}
  Capacity = 2
  MaxLoads = 2
  IDLE = IDLE
  Events = {c1, c2, c3}
  Retries = 1
  MaxDead = 2
SYMMETRY Symmetry
INVARIANTS
  AdmissionSafe LimitsSafe ConsentSafe ModerationSafe ThreatsSafe SheddingSafe
  RetentionSafe RegistrySafe SnapshotsSafe ReplaySafe WebhooksSafe
CHECK_DEADLOCK FALSE
