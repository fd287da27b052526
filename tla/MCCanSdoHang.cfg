\* write() with a counter that is not a multiple of 100: no timeout.
CONSTANTS
  SegmentSize = 7
  ExpeditedSize = 4
  BufferSize = 14
  Timeout = 3
  Uninitialized = {4}
  Objects <- MCObjects
  Values <- MCValues
SPECIFICATION Spec
PROPERTY TransferEnds
CHECK_DEADLOCK FALSE
