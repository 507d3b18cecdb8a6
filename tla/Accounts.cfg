\* One user, who may be an owner, two jobs, two months of two days.
CONSTANTS
  User = {u}
  Job = {j1, j2}
  Sizes = {10, 41}
  Plans = {0, 2}
  Terms = {1}
  OwnerSets = {{}, {u}}
  DaysPerMonth = 2
  MaxDay = 2
  MaxChanges = 2
  MaxCrashes = 1
SPECIFICATION Spec
SYMMETRY JobSymmetry
INVARIANTS
  AccountsAgree
  TrafficIsAccounted
PROPERTIES
  VerdictsFollowPlan
CHECK_DEADLOCK FALSE
