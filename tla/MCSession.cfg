CONSTANTS
  Peers = {p1}
  Groups = {g1}
  MaxFds = 5
  TrackerFds = 5
  ServedBefore = {0, 4}
  MaxEvents = 4
  MaxKills = 2
SPECIFICATION Spec
CHECK_DEADLOCK FALSE
INVARIANTS
  TypeOK
  MapsFollowFiles
  DescriptorsAreReturned
PROPERTIES
  AnswersAreTrue
  NoTrackerMeansNone
  ExitsOnlyOnFailure
  CommandsEnd
