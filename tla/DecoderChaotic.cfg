CONSTANTS
  Surfaces = {s1, s2}
  NoSurface = NoSurface
  INPUT_BUFFERS_NB = 2
  UINT_RANGE = 4
  Profile = "MPEG2"
  MaxPictures = 4
  Client = "chaotic"
  Renders = FALSE
  MaxAhead = 0
  Patient = FALSE
  BufferFirst = FALSE
  Timely = FALSE
SPECIFICATION FairSpec
INVARIANTS
  NeverStarved
PROPERTIES
  EveryInputDecoded
CHECK_DEADLOCK FALSE
