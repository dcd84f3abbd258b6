SPECIFICATION MCSpec
CONSTANTS
  Ids = {1, 2}
  Releases = {}
  NoRelease = NoRelease
  Users = {u1}
  Contents <- Scheduled
  Audience <- NoAudience
  Admins = {p1}
  MaxTime = 1
  Limit = 1
  Acks = {"dismiss"}
  Clients = {c1}
  Catalogue <- Releasable
  Target <- Desktop
  Shipped <- First
  DownloadTTL = 1
  FeedTTL = 2
  ArtifactTTL = 2
  LeastTTL = 1
  MaxClock = 7
INVARIANTS
  WalkShowsEachOnce
  NobodyIsStranded
PROPERTIES
  ReceiptsAreTrue
  AccessEndsInTime
  PolledIsDelivered
