SPECIFICATION ClientSpec
CONSTANTS
  c1 = c1
  c2 = c2
  s1 = s1
  s2 = s2

  NoSession = NoSession
  Clients = {c1, c2}
  Sessions = {s1, s2}
  Calls = {"LookupHandle", "AdmitReplacement", "PublishTopology", "BeginStep", "EndStep", "ApplyPolicy", "RetireJob", "RetireIncarnation"}
  MaxBoots = 2
  MaxCalls = 3
  Groups = {"dp"}
  Boots = {1, 2}
  Policies <- LifecyclePolicies
  Evidence <- NoLinks
  Contract <- MCContract
  Intents <- LifecycleIntents
  Reports = {1}
  MaxDecisions = 1
  RegisteredTrafficOnly = TRUE
  AnyAge = FALSE
  RegisteredEvidenceOnly = TRUE
  MaxRetired = 9
  ReaderMax <- AmpleReader
  MaxEpoch = 2
  MaxIncarnation = 9
  MaxTopology = 9
  MaxStep = 9
  MaxPhase = 9
  MaxIntent = 9
  MaxBurst = 9
SYMMETRY Permuted
INVARIANTS HolderKnowsStep EnvelopesAgree ToldIsTrue HonouredOnceLookedUp
PROPERTIES OnlyTheHolderActs
CHECK_DEADLOCK FALSE
