CONSTANTS
  Peers = {1, 2, 3}
  Originals = {1, 3}
  Leechers = {2}
  Paths = {a, b}
  Upload = a
  a = a
  b = b
  NChunks = 3
  Batch = 2
  MaxDownloads = 2
  MaxKills = 1
  MaxStarts = 1
  MaxStops = 1
SPECIFICATION Spec
INVARIANTS
  TypeOK
  GivesUpOnlyIfNoneReachable
  SeedersAreChosenFairly
  OriginalsChunksMatch
PROPERTIES
  CompleteUnlessGivenUp
  OriginalsDownloadsEnd
CHECK_DEADLOCK FALSE
