SPECIFICATION FabricSpec
CONSTANTS
  Groups = {"dp"}
  Boots = {b1}
  Policies <- TrafficPolicies
  Evidence <- TrafficEvidence
  Contract <- MCContract
  Intents <- TrafficIntents
  Reports = {2}
  MaxDecisions = 2
  RegisteredTrafficOnly = TRUE
  AnyAge = FALSE
  MaxEpoch = 0
  MaxIncarnation = 1
  MaxTopology = 1
  MaxStep = 1
  MaxPhase = 2
  MaxIntent = 3
  MaxBurst = 1
INVARIANTS UtilizationMatchesFlows PhaseAccountsBalance WithinCapacity GrantsWithinCeilings TypeOK IsolationHolds DecisionsAgree
PROPERTIES PreemptionIsJust GrantsOnlyShrink
CHECK_DEADLOCK FALSE
