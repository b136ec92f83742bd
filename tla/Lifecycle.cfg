CONSTANTS
  ConfigIds = {c1, c2}
  ContextIds = {x1, x2}
  SurfaceIds = {s1, s2, s3}
  BufferIds = {b1, b2}
  ImageIds = {i1, i2}
  Uninitialised = Uninitialised
  NoBuffer = NoBuffer
  INPUT_BUFFERS_NB = 2
  VIDEO_MAX_FRAME = 3
  MAX_CONFIG_ATTRIBUTES = 1
  MaxRequest = 2
SPECIFICATION Spec
SYMMETRY Symmetry
INVARIANTS
  TypeOK
  HandlesValid
  ImageBufferAlive
  OwnCaptureBuffer
  OnlyFailuresLeak
  TidyTerminate
CHECK_DEADLOCK FALSE
