SPECIFICATION Spec
CONSTANTS
  Main = main
  NoBoot = noboot
  Torn = torn
  Absent = absent
  s1 = s1
  s2 = s2
  b1 = b1
  Sessions = {s1, s2}
  Threads = {s1, s2, main}
  Boots = {b1}
  Inodes = {1, 2, 3, 4, 5}
  Rebasing = TRUE
  MaxJobs = 1
  MaxMutations = 3
  MaxEpoch = 3
  MaxFailures = 0
INVARIANTS
  Startable
CHECK_DEADLOCK FALSE
