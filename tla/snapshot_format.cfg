SPECIFICATION Spec
CONSTANTS
  Sizes = {4, 8}
  WishedSize = 6
  MaxBuffers = 2
  Samples = {128}
CHECK_DEADLOCK TRUE
INVARIANT FormatIsActive
