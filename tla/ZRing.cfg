SPECIFICATION Spec
CONSTANTS
  Capacity = 2
  CounterMod = 8
  Values = {v1, v2}
  NoTick = NoTick
INVARIANTS
  TypeOK
  CachesInWindow
  NoSlotRace
  NonEmptyIsStable
PROPERTIES
  IsFifo
  CallsReturn
