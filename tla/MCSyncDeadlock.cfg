CONSTANTS
  Trackers = {t1, t2}
  Writers = {t1, t2}
  Slots = {k1}
  Files = {f1}
  NoFile = NoFile
  Batch = 2
  MaxWrites = 2
  Width <- MCWidth
  Deletes = FALSE
  MaxCrashes = 0
SPECIFICATION SpecServing
PROPERTY KeepsAccepting
CHECK_DEADLOCK FALSE
