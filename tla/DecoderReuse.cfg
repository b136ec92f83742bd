CONSTANTS
  Surfaces = {s1, s2, s3}
  NoSurface = NoSurface
  INPUT_BUFFERS_NB = 4
  UINT_RANGE = 4
  Profile = "MPEG4"
  MaxPictures = 7
  Client = "orderly"
  Renders = TRUE
  MaxAhead = 3
  Patient = FALSE
  BufferFirst = FALSE
  Timely = TRUE
SPECIFICATION Spec
SYMMETRY Symmetry
INVARIANTS
  TypeOK
  SyncShowsOwnPicture
  ReadyMeansDecoded
  InOrder
PROPERTIES
  BusyInputUntouched
CHECK_DEADLOCK FALSE
