\* Four regions of four bytes; the plugin reports one byte less than there is.
\* A failed range check ends the process: the system may stop.
CONSTANTS
  Modulus = 16
  RegionSize = 4
  Home = 2
  TotalMemory = 3
  ElementSizes = {1, 3}
  Buffers = {b1}
  BufferSize = 3
SPECIFICATION Spec
CHECK_DEADLOCK FALSE
INVARIANTS TypeOK PointersStayInside AccessStaysInside RefusalIsJustified HomesAsTold
