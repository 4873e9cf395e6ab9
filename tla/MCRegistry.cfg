CONSTANTS
  Users = {u1, u2}
  Peers = {p1, p2}
  Groups = {g1}
  Names = {n1, n2}
  Hashes = {h1, h2}
  Passwords = {w1}
  None = None
  NoHash = NoHash
SPECIFICATION Spec
SYMMETRY Symmetry
CONSTRAINT FewDownloads
INVARIANTS
  TypeOK
  MapsAgreeWithFiles
  RequestsAreOpen
  OneHashPerName
  SeedersHavePath
  SharersWereAdmitted
PROPERTIES
  DownloadsAreKept
  ImplementsMembership
