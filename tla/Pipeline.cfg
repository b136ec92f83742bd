CONSTANTS
  Surfaces = {s1, s2, s3}
  NoSurface = NoSurface
  INPUT_BUFFERS_NB = 3
  UINT_RANGE = 6
  Profile = "MPEG2"
  MaxPictures = 7
  Client = "orderly"
  Renders = TRUE
  MaxAhead = 3
  Patient = TRUE
  BufferFirst = TRUE
  Timely = FALSE
  Prompt = TRUE
SPECIFICATION PipeFairSpec
INVARIANTS
  DecodesIntoItsSurface
  SyncShowsOwnPicture
  NoPictureSkipped
  FrameLeftAlone
  ReleasedOnReturn
  ShownInOrder
PROPERTIES
  EveryPictureShown
  PlaysFilm
CHECK_DEADLOCK FALSE
