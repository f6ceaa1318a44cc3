CONSTANTS
  n1 = n1
  n2 = n2
  n3 = n3
  Node = {n1, n2}
  InRange <- MCPair
  Operator = {}
  InitTrust <- MCTrusted
  MaxAuthored <- MCFirstWritesTwo
  MaxSeq = 2
  MaxIncarnation = 1
  MaxBatch = 1
  Losable <- MCAllKinds
  Redelivers = TRUE
  Sweeps = TRUE
  Overlaps = TRUE
  MaxInFlight = 2
  MaxFaults = 2
SPECIFICATION Spec
INVARIANTS
  TypeOK
  AckedMeansHeld
  SyncedMeansReplicated
  LogsArePrefixes
PROPERTIES
  SyncedStays
