CONSTANTS
  FirstSeq = 0
  Other = Other
  ShortFrames = TRUE
  NoTick = NoTick
  Reorders = TRUE
  Duplicates = TRUE
  QueueLen = 2
  MaxSeq = 3
  MaxArrivals = 4
SPECIFICATION FairSpec
INVARIANTS
  HolesAreCounted
  GapsAreHoles
  SetupReleases
PROPERTIES
  Terminates
  StopEnds
