SPECIFICATION Spec
CONSTANTS
  Clients = {c1, c2}
  Procs = {h1}
  Failures = 0
INVARIANT MembersRegistered
CHECK_DEADLOCK FALSE
