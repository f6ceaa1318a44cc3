CONSTANTS
  n1 = n1
  n2 = n2
  n3 = n3
  Node = {n1, n2}
  InRange <- MCPair
  Operator = {n2}
  InitTrust <- MCOneSided
  MaxAuthored <- MCFirstWritesTwo
  MaxSeq = 2
  MaxIncarnation = 1
  MaxBatch = 1
  Losable = {}
  Redelivers = FALSE
  Sweeps = FALSE
  Overlaps = FALSE
  MaxInFlight = 2
  MaxFaults = 0
SPECIFICATION FairSpec
INVARIANTS
  LinkFollowsTrust
PROPERTIES
  ImplementsReplication
  Converges
CHECK_DEADLOCK FALSE
