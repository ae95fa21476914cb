CONSTANTS
  sock1 = sock1
  sock2 = sock2
  bot1 = bot1
  Job = Job
  None = None
  Bots <- NoBots
  Sockets <- TwoSockets
  MaxDeltas = 2
  MaxRetries = 1
  MaxFaults = 1
SPECIFICATION Spec
SYMMETRY Symmetry2
INVARIANTS
  NoDeltaLost
  StoredIsComplete
PROPERTIES
  StoredOnlyGrows
CHECK_DEADLOCK FALSE
