\* A mirror and a leech, of one torrent or of two, of two files and of none.
CONSTANTS
  j1 = j1
  j2 = j2
  Job = {j1, j2}
  big = big
  hollow = hollow
  Torrent = {big, hollow}
  kind <- MCKind
  Files <- MCFiles
  MaxCleans = 1
SPECIFICATION FairSpec
INVARIANTS
  EndsAreExplained
  FilesStayForUpload
  ScratchIsCleaned
PROPERTIES
  JobsReturn
CHECK_DEADLOCK FALSE
