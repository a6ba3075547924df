SPECIFICATION FairSpec
CONSTANTS
  Capacity = 4
  CounterMod = 8
  MaxTicks = 11
INVARIANTS
  NoSlotRace
  PopsInOrder
PROPERTY
  TicksGetThrough
