CONSTANTS
  Surfaces = {s1, s2}
  NoSurface = NoSurface
  INPUT_BUFFERS_NB = 3
  UINT_RANGE = 6
  Profile = "MPEG2"
  MaxPictures = 3
  Client = "unordered"
  Renders = TRUE
  MaxAhead = 2
  Patient = TRUE
  BufferFirst = TRUE
  Timely = TRUE
SPECIFICATION Spec
INVARIANT
  SyncShowsOwnPicture
CHECK_DEADLOCK FALSE
