CONSTANTS
  FirstSeq = 2
  Other = Other
  ShortFrames = TRUE
  Reorders = TRUE
  Duplicates = FALSE
  QueueLen = 2
  MaxSeq = 6
  MaxArrivals = 4
  BurstSize = 2
  NumMbufs = 4
SPECIFICATION FairSpec
INVARIANTS
  LossesAreCounted
  GapsAreExact
  MbufsConserved
  RxNeverStarves
PROPERTIES
  Terminates
  TicksAreTracked
