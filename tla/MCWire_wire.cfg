SPECIFICATION MCSpec
CONSTANTS
  MaxPayload = 2
  MaxByte = 3
  SyncQueue = 1
  Messages <- MCMessages
  Noise = {0, 3}
  Chunks = {1, 4, 30}
  MaxFrames = 3
  MaxFaults = 1
  Drafts <- MCDrafts
  Foreign <- MCForeign
  Slips <- MCSlips
  k1 = k1
  k2 = k2
  Keys = {k1, k2}
  ProtocolVersion = 1
  MaxWatermarks = 4
  MaxEventsPerBatch = 3
  MaxCapabilities = 4
  MaxName = 3
  OwnName = 2
  MaxMessage = 6
  Origins = {0, 1, 4, 5}
  Waiting = {1, 3, 4}
  Station = {o1, o2, o3}
  Origin = o1
  Half = 7
  Top = 15
  MaxOwn = 5
  HaveWindow = 2
  MaxAsk = 2
  OwnBatch = 4
  TooLarge = {2}
  Bodies <- MCBodies
  Split = {1, 2}
  MaxBody = 3
  MaxHeaders = 4
  Beat = beat
  Command = command
  Fine = 4
  MaxLat = 8
  MaxLon = 16
  MaxRadius = 40
  MaxWire = 4
  Milli = 5
  NotFinite = NotFinite
  Readings <- MCReadings
  MaxHeartbeats = 2
  Interval = 10
  MaxFix = 1
  CurrentFor = 10
  ExpiresAfter = 30
  MaxNumber = 4
  MaxEnds = 1
  Files <- MCFiles
  MaxBytes = 4
  MaxDepth = 4
  East = 3
  North = 2
  Margin = 1
  Wider <- MCWider
  Sites <- MCSites
  MaxReplaced = 1
INVARIANTS
  LineIsFaithful
  RecordIsFaithful
  SignedIsUnderstood
  ReplyIsWholeOrRefused
  PublishedIsFaithful
  MapIsHonest
PROPERTIES
  GrantReachesTheBeat
CHECK_DEADLOCK FALSE
