CONSTANTS
  Peers = {1, 2}
  Originals = {1}
  Leechers = {2}
  Paths = {a}
  Upload = a
  a = a
  b = b
  NChunks = 2
  Batch = 2
  MaxDownloads = 2
  MaxKills = 0
  MaxStarts = 0
  MaxStops = 1
SPECIFICATION Spec
PROPERTY DownloadsEnd
CHECK_DEADLOCK FALSE
