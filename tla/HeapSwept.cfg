CONSTANTS
  heap_increment = 2
  BucketStep = 2
  id_offset = 1
  Sweeps = TRUE
  MaxHeapSize = 6
SPECIFICATION FairSpec
INVARIANTS
  TypeOK
  FreeListExact
  BucketsMatchHeap
  SweepLeavesNothing
PROPERTIES
  PoolSpec
  SweepEventuallyEnds
CHECK_DEADLOCK FALSE
