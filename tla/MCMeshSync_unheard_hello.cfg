CONSTANTS
  n1 = n1
  n2 = n2
  n3 = n3
  Node = {n1, n2}
  InRange <- MCPair
  Operator = {}
  InitTrust <- MCTrusted
  MaxAuthored <- MCFirstWritesOne
  MaxSeq = 1
  MaxIncarnation = 1
  MaxBatch = 1
  Losable <- MCHello
  Redelivers = FALSE
  Sweeps = TRUE
  Overlaps = FALSE
  MaxInFlight = 5
  MaxFaults = 1
SPECIFICATION FairSpec
PROPERTIES
  Converges
