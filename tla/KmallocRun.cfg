SPECIFICATION KmallocSpec
CONSTANTS
  NPages = 7
  Base = 3
  MaxOrder = 3
  PageSize = 8
  SlabMin = 2
  SlabMax = 2
  SlabPages = 1
  Sizes = {4, 5, 17}
INVARIANTS
  ChunksTilePool
  ListsExact
  FullyMerged
  
  
PROPERTIES
  ImplementsAllocator
CHECK_DEADLOCK FALSE
