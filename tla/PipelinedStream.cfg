\* Two workers, and more chunks than the window of four.
CONSTANTS
  Chunks = 6
  Threads = 2
SPECIFICATION FairSpec
INVARIANTS
  WindowBoundsMemory
PROPERTIES
  Returns
  NoGoroutineStays
  ImplementsStream
CHECK_DEADLOCK FALSE
