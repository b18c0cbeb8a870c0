CONSTANTS
  Streams <- MCStreams
  Delimiter = 2
  BufSize = 3
  MaxBufferSizes = {0, 1}
  AutoFlushBounds = {1}
  PumpSizes = {1}
  FlushSizes = {0, 1}
SPECIFICATION Spec
INVARIANTS WireIsPrefix AssertionsHold EofIsLast BufferBounded
PROPERTY Delivered
