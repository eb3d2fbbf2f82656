SPECIFICATION Spec
CONSTANTS
  Sizes = {4, 6, 8}
  WishedSize = 6
  MaxBuffers = 5
  Samples = {0, 16, 100, 128, 150, 235, 255}
CHECK_DEADLOCK TRUE
INVARIANTS
  TypeOK
  SnapshotReadsOwnBuffer
  EndsClean
  ColoursKept
PROPERTY Terminates
