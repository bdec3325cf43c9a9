SPECIFICATION Spec
CONSTANTS
  Task = {t1, t2}
  Entity = {a, b}
  Root = root
  Name = {x, y}
  None = none
  MaxJobs = 3
  MaxCrashes = 1
CHECK_DEADLOCK FALSE
INVARIANTS CacheSound CacheFollowsTable
SYMMETRY Symmetry
