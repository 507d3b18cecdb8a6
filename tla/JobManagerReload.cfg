\* Three jobs under a limit that starts at 1 or 2 and that /reload changes.
CONSTANTS
  MaxJobs = 3
  Limits = {1, 2}
  Reloads = {0, 1, 2}
SPECIFICATION FairSpec
INVARIANTS
  TypeOK
  QueueAgreesWithTable
  SlotsHaveWorkers
  NoStall
  RowsFollowTable
PROPERTIES
  StartsWithinLimit
  CancelledNeverStarts
  QueueDrains
CHECK_DEADLOCK FALSE
