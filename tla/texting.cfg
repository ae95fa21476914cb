CONSTANTS
  s1 = s1
  s2 = s2
  ann = ann
  bob = bob
  w1 = w1
  w2 = w2
  Nobody = Nobody
  NoJob = NoJob
  Sessions <- TwoSessions
  Volunteers <- TwoVolunteers
  Workers <- TwoWorkers
  Eligible <- AnnAndBob
  Favorites <- Ann
  Partners <- None
  Askable <- Ann
  Texts = 1
  MaxRounds = 2
  Delay = 1
  Window = 3
  MaxFaults = 1
SPECIFICATION Spec
SYMMETRY Symmetry
INVARIANTS
  TypeOK
  OncePerSession
  OnceAMoment
  SearchGoesOn
CHECK_DEADLOCK FALSE
