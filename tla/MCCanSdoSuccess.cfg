\* A last response between the end of the waiting loop and the test that
\* follows it makes a transfer that timed out a success.
CONSTANTS
  SegmentSize = 7
  ExpeditedSize = 4
  BufferSize = 14
  Timeout = 3
  Uninitialized = {0}
  Objects <- MCObjects
  Values <- MCValues
SPECIFICATION SafetySpec
INVARIANT SuccessIsComplete
CHECK_DEADLOCK FALSE
