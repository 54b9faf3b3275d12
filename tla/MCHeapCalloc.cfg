SPECIFICATION Spec
CONSTANTS
  WORD = 2
  BLOCK_SIZE = 4
  PAGE_SIZE = 8
  HEAP_INITIAL_SIZE = 16
  Requests = {1, 5}
  CallocTotals = {3}
  TABLE = 2
  Frames = 12
  MaxLive = 3
  EnoughMemory = TRUE
INVARIANTS
  ContentsAsPromised
