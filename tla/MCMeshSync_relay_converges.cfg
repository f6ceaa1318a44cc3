CONSTANTS
  n1 = n1
  n2 = n2
  n3 = n3
  Node = {n1, n2, n3}
  InRange <- MCLine
  Operator = {}
  InitTrust <- MCTrusted
  MaxAuthored <- MCFirstWritesOne
  MaxSeq = 1
  MaxIncarnation = 1
  MaxBatch = 1
  Losable = {}
  Redelivers = FALSE
  Sweeps = FALSE
  Overlaps = FALSE
  MaxInFlight = 6
  MaxFaults = 0
SPECIFICATION FairSpec
PROPERTIES
  ImplementsReplication
  Converges
  FallsSilent
CHECK_DEADLOCK FALSE
