SPECIFICATION Spec
CONSTANTS
  Main = main
  NoBoot = noboot
  Torn = torn
  Absent = absent
  s1 = s1
  s2 = s2
  b1 = b1
  b2 = b2
  Sessions = {s1, s2}
  Threads = {s1, s2, main}
  Boots = {b1, b2}
  Inodes = {1, 2, 3, 4, 5}
  Rebasing = FALSE
  MaxJobs = 1
  MaxMutations = 2
  MaxEpoch = 2
  MaxFailures = 1
PROPERTIES
  EpochsFresh
  DegradedNeverAcks
CHECK_DEADLOCK FALSE
