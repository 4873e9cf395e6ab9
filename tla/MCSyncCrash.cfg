CONSTANTS
  Trackers = {t1, t2}
  Writers = {t1}
  Slots = {k1}
  Files = {f1, f2}
  NoFile = NoFile
  Batch = 3
  MaxWrites = 3
  Width <- MCWidth
  Deletes = FALSE
  MaxCrashes = 1
SPECIFICATION Spec
SYMMETRY Symmetry
INVARIANT BytesKeepTheirPlace
CHECK_DEADLOCK FALSE
