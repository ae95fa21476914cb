CONSTANTS
  sock1 = sock1
  sock2 = sock2
  bot1 = bot1
  Job = Job
  None = None
  Sockets <- OneSocket
  Clients <- TwoSockets
  Bots <- OneBot
  MaxDeltas = 1
  MaxUpdates = 2
  MaxPieces = 3
  MaxRetries = 0
  MaxFaults = 1
SPECIFICATION EditorsFairSpec
INVARIANTS
  EditorsTypeOK
  EditsAreStored
  BoardIsWhole
  AckedIsStored
PROPERTIES
  EditorsEventuallyStored
CHECK_DEADLOCK FALSE
