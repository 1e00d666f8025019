SPECIFICATION PublisherSpec
CONSTANTS
  c1 = c1
  c2 = c2
  s1 = s1
  s2 = s2

  NoSession = NoSession
  Clients = {c1, c2}
  Sessions = {s1, s2}
  Calls = {}
  MaxBoots = 3
  MaxCalls = 99
  Window = 256
  MaxTicks = 60
  Groups = {"dp", "pp", "tp"}
  Boots = {1, 2, 3}
  Policies <- ScenarioPolicies
  Evidence <- ScenarioEvidence
  Contract <- PublisherContract
  Intents <- ScenarioIntents
  Reports <- ScenarioReports
  MaxDecisions = 64
  RegisteredTrafficOnly = TRUE
  AnyAge = TRUE
  RegisteredEvidenceOnly = FALSE
  MaxRetired = 64
  ReaderMax <- ScenarioReader
  MaxEpoch = 2
  MaxIncarnation = 9
  MaxTopology = 9
  MaxStep = 9
  MaxPhase = 9
  MaxIntent = 9
  MaxBurst = 9
INVARIANTS ChecksHold OrdinaryFramesPass DeadStepIsClosed
PROPERTIES ScenariosFinish JobIsServed
CHECK_DEADLOCK FALSE
