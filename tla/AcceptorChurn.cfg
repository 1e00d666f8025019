SPECIFICATION Spec
CONSTANTS
  c1 = c1
  c2 = c2
  c3 = c3
  Clients = {c1, c2, c3}
  Nobody = nobody
  MaxSessions = 2
INVARIANTS
  ThreadsBounded
PROPERTIES
  StopCompletes
  FinishedAreReaped
CHECK_DEADLOCK FALSE
