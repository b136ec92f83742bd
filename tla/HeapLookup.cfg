CONSTANTS
  heap_increment = 2
  BucketStep = 2
  id_offset = 4
  Sweeps = FALSE
  MaxHeapSize = 6
SPECIFICATION Spec
INVARIANT
  LookupSound
CHECK_DEADLOCK FALSE
