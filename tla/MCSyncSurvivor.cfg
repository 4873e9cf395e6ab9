CONSTANTS
  Trackers = {t1, t2}
  Writers = {t1}
  Slots = {k1}
  Files = {f1}
  NoFile = NoFile
  Batch = 3
  MaxWrites = 2
  Width <- MCWidth
  Deletes = FALSE
  MaxCrashes = 1
SPECIFICATION SpecServing
INVARIANT SurvivorHasEverything
CHECK_DEADLOCK FALSE
