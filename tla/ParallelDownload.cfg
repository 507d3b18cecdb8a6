\* Pages of two, files of up to four parts, two threads.
CONSTANTS
  Sizes = {0, 1, 2, 4, 5, 7, 9, 13, 15}
  PartSizes = {0, 3, 4}
  ChunkSize = 6
  Page = 2
  Threads = 2
SPECIFICATION FairSpec
INVARIANTS
  TypeOK
  PagesWritten
PROPERTIES
  FileIsFinal
  Returns
CHECK_DEADLOCK FALSE
