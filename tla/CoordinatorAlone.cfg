SPECIFICATION Spec
CONSTANTS
  Main = main
  NoBoot = noboot
  Torn = torn
  Absent = absent
  s1 = s1
  b1 = b1
  Sessions = {s1}
  Threads = {s1, main}
  Boots = {b1}
  Inodes = {1, 2, 3}
  Rebasing = TRUE
  MaxJobs = 1
  MaxMutations = 2
  MaxEpoch = 3
  MaxFailures = 1
INVARIANTS
  LiveIsWhole
  Startable
PROPERTIES
  MutationsAreDurable
  SequenceAdvances
CHECK_DEADLOCK FALSE
