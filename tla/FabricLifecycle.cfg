SPECIFICATION FabricSpec
CONSTANTS
  Groups = {"dp"}
  Boots = {b1, b2}
  Policies <- LifecyclePolicies
  Evidence <- LifecycleEvidence
  Contract <- MCContract
  Intents <- LifecycleIntents
  Reports = {2}
  MaxDecisions = 2
  RegisteredTrafficOnly = TRUE
  AnyAge = FALSE
  MaxEpoch = 1
  MaxIncarnation = 2
  MaxTopology = 2
  MaxStep = 2
  MaxPhase = 1
  MaxIntent = 2
  MaxBurst = 0
INVARIANTS OpenStepIsHeld LiveFlowsHoldAuthority AccountsBalance TopologyBound
PROPERTIES StepsAdvance CreditedOnce
CHECK_DEADLOCK FALSE
