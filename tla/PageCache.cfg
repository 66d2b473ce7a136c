CONSTANTS
  Page = {1, 2, 3}
  Val = {0, 1}
  Capacity = 2
  HeapFactor = 1
  HeapFloor = 3
  MaxTick = 8
  MaxWrites = 4
SPECIFICATION Spec
INVARIANT CacheCoherent
PROPERTY ImplementsLRU
