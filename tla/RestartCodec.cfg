SPECIFICATION RestartSpec
CONSTANTS
  Groups = {"dp"}
  b1 = b1
  Boots = {b1}
  Policies <- RestartPolicies
  Evidence <- LifecycleEvidence
  Contract <- RestartContract
  Intents <- LifecycleIntents
  Reports = {2}
  MaxDecisions = 1
  RegisteredTrafficOnly = TRUE
  AnyAge = FALSE
  RegisteredEvidenceOnly = TRUE
  MaxRetired = 1
  ReaderMax <- SmallReader
  MaxEpoch = 3
  MaxIncarnation = 1
  MaxTopology = 1
  MaxStep = 2
  MaxPhase = 2
  MaxIntent = 1
  MaxBurst = 0
INVARIANTS Restorable PhaseAccountsBalance UtilizationMatchesFlows FlowsMatchPolicy
PROPERTIES RoundTripStable
CHECK_DEADLOCK FALSE
