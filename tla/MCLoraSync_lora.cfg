CONSTANTS
  n1 = n1
  n2 = n2
  n3 = n3
  Node = {n1, n2, n3}
  InRange <- MCAroundAuthor
  Transmits = {n1, n2}
  Author = {n1}
  Operator = {n2}
  Oversized = {2}
  MaxSeq = 5
  MaxIncarnation = 1
  MaxBatch = 5
  Window = 1
  MaxAnswer = 1
  TickLimit = 2
  QueueLimit = 1
  OutboxLimit = 1
  MaxFaults = 2
SPECIFICATION MCSpec
INVARIANTS
  RadioIsRationed
  NothingWithheld
PROPERTIES
  ImplementsReplication
  GapCloses
CHECK_DEADLOCK FALSE
