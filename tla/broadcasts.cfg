CONSTANTS
  s1 = s1
  s2 = s2
  r1 = r1
  r2 = r2
  NoSession = NoSession
  Sessions <- TwoSessions
  Requests <- TwoRequests
  MaxFaults = 1
SPECIFICATION Spec
SYMMETRY Symmetry
INVARIANTS
  TypeOK
  ExclusiveIsHidden
  ListIsCurrent
CHECK_DEADLOCK FALSE
