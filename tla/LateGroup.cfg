SPECIFICATION FabricSpec
CONSTANTS
  Groups = {"dp", "tp"}
  Boots = {b1}
  Policies <- LifecyclePolicies
  Evidence <- TwoLinks
  Contract <- MCContract
  Intents <- ElasticIntents
  Reports = {2}
  MaxDecisions = 2
  RegisteredTrafficOnly = FALSE
  AnyAge = FALSE
  MaxEpoch = 0
  MaxIncarnation = 1
  MaxTopology = 1
  MaxStep = 1
  MaxPhase = 1
  MaxIntent = 3
  MaxBurst = 0
INVARIANTS WithinCapacity
CHECK_DEADLOCK FALSE
