CONSTANTS
  FirstSeq = 2
  Other = Other
  ShortFrames = TRUE
  Reorders = TRUE
  Duplicates = TRUE
  QueueLen = 2
  MaxSeq = 4
  MaxArrivals = 4
  Batch = 2
SPECIFICATION FairSpec
INVARIANTS
  RepeatsHideLosses
  BatchIsTracked
PROPERTIES
  Terminates
