CONSTANTS
  Surfaces = {s1, s2}
  NoSurface = NoSurface
  INPUT_BUFFERS_NB = 3
  UINT_RANGE = 6
  Profile = "MPEG2"
  MaxPictures = 4
  Client = "orderly"
  Renders = TRUE
  MaxAhead = 3
  Patient = FALSE
  BufferFirst = TRUE
  Timely = FALSE
SPECIFICATION Spec
INVARIANT
  SyncShowsOwnPicture
CHECK_DEADLOCK FALSE
