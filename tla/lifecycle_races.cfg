CONSTANTS
  stu1 = stu1
  stu2 = stu2
  vol1 = vol1
  vol2 = vol2
  s1 = s1
  s2 = s2
  r1 = r1
  r2 = r2
  w1 = w1
  None = None
  Students <- OneStudent
  Volunteers <- TwoVolunteers
  ShadowBanned <- Nobody
  Admins <- Nobody
  Sessions <- OneSession
  Requests <- TwoRequests
  Workers <- OneWorker
  MaxFaults = 1
SPECIFICATION Spec
SYMMETRY Symmetry
INVARIANTS
  EndedIsHandled
  ProcessedAtMostOnce
  ExclusiveIsOwned
  TextedIsPublic
PROPERTIES
  ImplementsRecord
