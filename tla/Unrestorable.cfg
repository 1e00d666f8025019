SPECIFICATION RestartSpec
CONSTANTS
  Groups = {"dp"}
  Boots = {b1}
  Policies <- RestartPolicies
  Evidence <- LifecycleEvidence
  Contract <- RestartContract
  Intents <- LifecycleIntents
  Reports = {2}
  MaxDecisions = 1
  RegisteredTrafficOnly = TRUE
  AnyAge = FALSE
  RegisteredEvidenceOnly = FALSE
  MaxRetired = 1
  ReaderMax <- SmallReader
  MaxEpoch = 3
  MaxIncarnation = 1
  MaxTopology = 1
  MaxStep = 2
  MaxPhase = 1
  MaxIntent = 2
  MaxBurst = 0
INVARIANTS Restorable
CHECK_DEADLOCK FALSE
