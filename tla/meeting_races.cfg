CONSTANTS
  student = student
  volunteer = volunteer
  r1 = r1
  r2 = r2
  r3 = r3
  m1 = m1
  m2 = m2
  m3 = m3
  None = None
  Users <- Pair
  Requests <- ThreeRequests
  Meetings <- ThreeMeetings
  MaxRecordings = 1
SPECIFICATION Spec
SYMMETRY Symmetry
INVARIANTS
  Together
  OneIsAlone
  ClosedStaysClosed
CHECK_DEADLOCK FALSE
