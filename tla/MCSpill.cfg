CONSTANTS
  Peers = {1, 2, 3}
  Originals = {2}
  Leechers = {1, 3}
  Paths = {a}
  Upload = a
  a = a
  b = b
  NChunks = 2
  Batch = 2
  MaxDownloads = 2
  MaxKills = 0
  MaxStarts = 0
  MaxStops = 0
SPECIFICATION Spec
INVARIANT RecordedChunksMatch
CHECK_DEADLOCK FALSE
