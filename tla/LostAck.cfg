SPECIFICATION Spec
CONSTANTS
  Main = main
  NoBoot = noboot
  Torn = torn
  Absent = absent
  s1 = s1
  s2 = s2
  b1 = b1
  Sessions = {s1, s2}
  Threads = {s1, s2, main}
  Boots = {b1}
  Inodes = {1, 2, 3, 4, 5}
  Rebasing = FALSE
  MaxJobs = 2
  MaxMutations = 2
  MaxEpoch = 2
  MaxFailures = 0
INVARIANTS
  AckedSurvive
CHECK_DEADLOCK FALSE
