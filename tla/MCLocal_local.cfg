CONSTANTS
  d1 = d1
  d2 = d2
  l1 = l1
  f1 = f1
  r1 = r1
  w1 = w1
  w2 = w2
  a1 = a1
  a2 = a2
  a3 = a3
  t1 = t1
  Nothing = Nothing
  Writer = {w1, w2}
  Drafts = {d1, d2}
  Legacy = {l1}
  Foreign = {f1}
  Kept <- MCKept
  MaxOwn = 3
  MaxRows = 2
  MaxCrash = 1
  Unembeddable = {l1}
  IndexBatch = 2
  MaxOutage = 1
  Asker = {a1, a2, a3}
  Indexer = {t1}
  MaxWaiting = 2
  NoThread = NoThread
  MaxDeaths = 1
SPECIFICATION MCSpec
INVARIANTS
  OwnEventsAreSound
  ModelsAreShared
PROPERTIES
  GetsIndexed
  NodeComesUp
CHECK_DEADLOCK FALSE
