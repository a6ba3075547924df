SPECIFICATION FairSpec
CONSTANTS
  Capacity = 2
  FirstSeq = 0
  MaxSeq = 6
INVARIANTS
  SentInOrder
  StrandedAtMostOne
PROPERTY
  Terminates
