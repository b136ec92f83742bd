CONSTANTS
  ConfigIds = {c1}
  ContextIds = {x1}
  SurfaceIds = {s1}
  BufferIds = {b1}
  ImageIds = {i1}
  Uninitialised = Uninitialised
  NoBuffer = NoBuffer
  INPUT_BUFFERS_NB = 1
  VIDEO_MAX_FRAME = 1
  MAX_CONFIG_ATTRIBUTES = 3
  MaxRequest = 1
SPECIFICATION Spec
INVARIANT
  AttributeOnce
CHECK_DEADLOCK FALSE
