\* Four jobs under a limit of 1 or 2 that never changes.
CONSTANTS
  MaxJobs = 4
  Limits = {1, 2}
  Reloads = {}
SPECIFICATION Spec
INVARIANTS
  WorkConserving
PROPERTIES
  ImplementsPool
CHECK_DEADLOCK FALSE
