\* Two requests over two lives: crashes and SIGTERM at any moment, commands
\* before, while and after RecoverJobs reads the rows.
CONSTANTS
  MaxJobs = 3
  Limits = {1, 2}
  Reloads = {}
  MaxRequests = 2
  MaxLives = 2
SPECIFICATION FairRecoverySpec
INVARIANTS
  CrashLosesNothing
  OneRunPerRequest
PROPERTIES
  FinishedNeverRepeats
  RequestsSettle
CHECK_DEADLOCK FALSE
