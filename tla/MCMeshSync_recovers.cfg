CONSTANTS
  n1 = n1
  n2 = n2
  n3 = n3
  Node = {n1, n2}
  InRange <- MCPair
  Operator = {n1}
  InitTrust <- MCTrusted
  MaxAuthored <- MCFirstWritesOne
  MaxSeq = 1
  MaxIncarnation = 2
  MaxBatch = 1
  Losable <- MCAllKinds
  Redelivers = FALSE
  Sweeps = TRUE
  Overlaps = TRUE
  MaxInFlight = 3
  MaxFaults = 1
SPECIFICATION FairSpec
CONSTRAINT MCOneTrouble
PROPERTIES
  Recovers
  NothingOverwritten
