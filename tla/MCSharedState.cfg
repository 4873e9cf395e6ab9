CONSTANTS
  Threads = {k1, k2}
  Users <- MCUsers
  Groups <- MCGroups
  Names <- MCNames
  Stored <- MCStored
  Requests <- MCRequests
  None = None
  MaxRequests = 2
  MaxKills = 0
SPECIFICATION Spec
PROPERTY SharedStateIsKept
CHECK_DEADLOCK FALSE
