CONSTANTS
  r1 = r1
  server1 = server1
  Requests <- OneRequest
  Servers <- OneServer
  MaxFaults = 1
SPECIFICATION FairSpec
INVARIANTS
  LogAgrees
  NobodyIsForgotten
PROPERTIES
  GoneEventuallyInactive
CHECK_DEADLOCK FALSE
