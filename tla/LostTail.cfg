\* A file whose last part is not a whole number of pages.
CONSTANTS
  Sizes = {0, 1, 2, 4, 5, 7, 9, 13, 15}
  PartSizes = {0, 3, 4}
  ChunkSize = 6
  Page = 2
  Threads = 2
SPECIFICATION Spec
INVARIANTS
  WholeFile
CHECK_DEADLOCK FALSE
