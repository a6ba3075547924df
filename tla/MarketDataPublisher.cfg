SPECIFICATION FairSpec
CONSTANTS
  Capacity = 2
  BurstSize = 2
  NumMbufs = 5
  TxDesc = 3
  PktSize = 106
  DataRoom = 2048
  MaxSeq = 7
INVARIANTS
  TypeOK
  PathInOrder
  MbufsConserved
  PoolCoversBurst
  TicksAccounted
  GapsAreCounted
  StrandedAtMostOne
  PortOutlivesThreads
PROPERTIES
  Terminates
  TicksLeaveRing
