\* Three commands, updaters or snapshots, beside two jobs.
CONSTANTS
  Poster = {p1, p2, p3}
  MaxJobs = 2
SPECIFICATION FairSpec
INVARIANTS
  RecordHasUpdater
  NothingLeftBehind
PROPERTIES
  ScreenClears
CHECK_DEADLOCK FALSE
