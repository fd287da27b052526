\* A read or a write of an object of 0 to 15 bytes, the longest of which does
\* not fit the reader's buffer; the writer finds any value in the counter
\* nobody sets.
CONSTANTS
  SegmentSize = 7
  ExpeditedSize = 4
  BufferSize = 14
  Timeout = 3
  Uninitialized = {0, 1, 2, 3, 4}
  Objects <- MCObjects
  Values <- MCValues
SPECIFICATION Spec
INVARIANT TypeOK
INVARIANT CompleteIsExact
INVARIANT RequestsAreExpected
PROPERTY ObjectIsWhole
PROPERTY ReadEnds
CHECK_DEADLOCK FALSE
