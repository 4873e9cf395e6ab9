CONSTANTS
  Threads = {k1, k2}
  Users <- MCUsers
  Groups <- MCGroups
  Names <- MCNames
  Stored <- MCStored
  Requests <- MCRequests
  None = None
  MaxRequests = 2
  MaxKills = 1
SPECIFICATION Spec
INVARIANTS
  TypeOK
  FilesDoNotMix
  MapsCatchUp
PROPERTIES
  NothingElseIsLost
  HandlersEnd
CHECK_DEADLOCK FALSE
