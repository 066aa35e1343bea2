CONSTANTS
  HEAP_NUM_BLOCK = 6
  HEAP_BLOCK_SIZE = 2
  HEAPADDR = 3
  Sizes = {0, 1, 2, 3, 4, 6, 11, 13}
SPECIFICATION Spec
INVARIANTS
  TypeOK
  AllocationsIntact
  UsedIsHeld
PROPERTY AllocatesFirstFit
