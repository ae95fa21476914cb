CONSTANTS
  ann = ann
  bob = bob
  Nobody = Nobody
  r1 = r1
  r2 = r2
  Users <- TwoUsers
  Requests <- TwoRequests
  MaxChapters = 2
  MaxSubmitted = 5
  MaxFaults = 1
SPECIFICATION Spec
SYMMETRY Symmetry
INVARIANTS
  OneChapter
  GraduatesHaveLeft
  ChapterHasAdmin
  FoundingIsPossible
PROPERTY LeftIsLeft
CHECK_DEADLOCK FALSE
