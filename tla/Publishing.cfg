SPECIFICATION MCSpec
CONSTANTS
  Ids = {1, 2}
  Releases = {r1}
  NoRelease = NoRelease
  Users = {u1}
  Contents <- Forms
  Audience <- Everybody
  Admins = {p1, p2}
  MaxTime = 0
  Requests = {p1, p2}
  Bodies = {b1, b2}
  NoBody = NoBody
  MaxVersion = 2
SYMMETRY Symmetry
INVARIANTS
  AnnTypeOK
  VersionsKeepTheirBodies
  OneAnnouncementPerRelease
PROPERTIES
  PublicPageIsKept
  PublicIsFinal
CHECK_DEADLOCK FALSE
