CONSTANTS
  r1 = r1
  r2 = r2
  safety = safety
  algebra = algebra
  upchieve101 = upchieve101
  Legacy = upchieve101
  Requests <- TwoRequests
  TrainingCerts <- Training
  SubjectCerts <- Subjects
  Grants <- QuizGrants
  MaxClients = 2
  MaxFaults = 1
SPECIFICATION FairSpec
INVARIANTS
  TypeOK
  QualifiedIsOnboarded
  ApprovedIsVetted
  ApprovalIsRecorded
PROPERTIES
  RequestsAreAnswered
CHECK_DEADLOCK FALSE
