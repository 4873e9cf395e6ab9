CONSTANTS
  Trackers = {t1, t2}
  Writers = {t1}
  Slots = {k1, k2}
  Files = {f1}
  NoFile = NoFile
  Batch = 2
  MaxWrites = 2
  Width <- MCWidth
  Deletes = TRUE
  MaxCrashes = 0
SPECIFICATION SpecServing
INVARIANTS
  TypeOK
  ReplicasAgree
PROPERTY RequestsAreAnswered
