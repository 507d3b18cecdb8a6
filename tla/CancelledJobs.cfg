\* A cancelled job keeps its queued or running row.
CONSTANTS
  MaxJobs = 3
  Limits = {1, 2}
  Reloads = {}
  MaxRequests = 2
  MaxLives = 2
SPECIFICATION RecoverySpec
PROPERTIES
  CancelledStaysCancelled
CHECK_DEADLOCK FALSE
