CONSTANTS
  n1 = n1
  n2 = n2
  n3 = n3
  Node = {n1, n2}
  InRange <- MCPair
  Operator = {n1, n2}
  InitTrust <- MCTrusted
  MaxAuthored <- MCFirstWritesOne
  MaxSeq = 1
  MaxIncarnation = 2
  MaxBatch = 1
  Losable = {}
  Redelivers = FALSE
  Sweeps = TRUE
  Overlaps = FALSE
  MaxInFlight = 2
  MaxFaults = 0
SPECIFICATION Spec
INVARIANTS
  SyncedMeansReplicated
