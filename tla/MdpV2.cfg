SPECIFICATION FairSpec
CONSTANTS
  Capacity = 2
  FirstSeq = 1
  MaxSeq = 6
INVARIANT
  NoGapPrinted
PROPERTY
  Terminates
