SPECIFICATION Spec
CONSTANTS
  Capacity = 2
  FirstSeq = 1
  MaxSeq = 6
INVARIANT
  RingDrained
