SPECIFICATION MCSpec
CONSTANTS
  Peer = {p1}
  MaxAudit = 5
  MaxLife = 2
  MaxReport = 2
  Node = {n1, n2}
  MaxConn = 2
  MaxRuns = 2
  MaxFaults = 1
INVARIANTS
  AuditIsFaithful
  RevocationHolds
  BookIsSound
  SessionsAreSound
PROPERTIES
  EnrolledStaysDenied
  SessionsAreSeen
CHECK_DEADLOCK FALSE
