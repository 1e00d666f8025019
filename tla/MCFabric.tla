------------------------------ MODULE MCFabric -------------------------------
(***************************************************************************)
(* Small instances of Fabric for TLC: policy documents cut down from       *)
(* make_default_policy, evidence for one or two links, a few intents.      *)
(***************************************************************************)
EXTENDS Fabric

\* A service class of make_default_policy, rates in units of the link.
Class(priority, floor, ceiling, isolationCeiling, preemptible, critical, deferrable) ==
  [priority |-> priority, floor |-> floor, ceiling |-> ceiling,
   isolationCeiling |-> isolationCeiling, preemptible |-> preemptible,
   critical |-> critical, deferrable |-> deferrable]

DefaultClasses ==
  [Recovery     |-> Class(2, 0, 0, 0, FALSE, TRUE,  TRUE),
   GradientSync |-> Class(3, 0, 0, 0, FALSE, FALSE, TRUE),
   Checkpoint   |-> Class(5, 0, 0, 9, TRUE,  FALSE, FALSE),
   DataIngest   |-> Class(8, 0, 2, 1, TRUE,  FALSE, TRUE),
   BestEffort   |-> Class(9, 0, 0, 0, TRUE,  FALSE, TRUE)]

DefaultMap ==
  [Unknown |-> "BestEffort", GradientSync |-> "GradientSync",
   Checkpoint |-> "Checkpoint", DataIngest |-> "DataIngest", Recovery |-> "Recovery"]

Document(spec, map, strict) ==
  [classOf |-> map, spec |-> spec, isoPriority |-> 2, unknownCeiling |-> 2,
   strict |-> strict, preempt |-> TRUE, maxFlows |-> 3]

\* The phase classes of a run are the domain of the map.
MapOf(phases) == [p \in phases |-> DefaultMap[p]]

StrictPolicy(phases) == Document(DefaultClasses, MapOf(phases), TRUE)
LenientPolicy(phases) == Document(DefaultClasses, MapOf(phases), FALSE)

MCContract ==
  [maxGroups |-> 2, maxPhases |-> 2, maxIntents |-> 3, maxBytesIntent |-> 2,
   maxBytesStep |-> 3, maxFlows |-> 3, allowUnknown |-> TRUE, historySteps |-> 1]

Intent(g, min, max, bytes) ==
  [group |-> g, min |-> min, max |-> max, bytes |-> bytes,
   declared |-> "Unknown", defer |-> TRUE]

\* Lifecycle and recovery: one class, two owners, two generations of evidence
\* and of the policy.
LifecyclePolicies ==
  <<StrictPolicy({"Unknown", "GradientSync"}), StrictPolicy({"Unknown", "GradientSync"})>>
LifecycleIntents == {Intent("dp", 1, 1, 1)}
LifecycleEvidence == {[dp |-> 1]}

\* Traffic: a protected class, a checkpoint with a ceiling, and best-effort traffic
\* that a burst throttles, on one link.
TrafficClasses ==
  [DefaultClasses EXCEPT !.BestEffort.isolationCeiling = 1, !.Checkpoint.ceiling = 2]
TrafficPolicies ==
  <<Document(TrafficClasses, MapOf({"Unknown", "GradientSync", "Checkpoint"}), TRUE)>>
TrafficIntents == {Intent("dp", 1, 3, 1), Intent("dp", 2, 3, 1)}
TrafficEvidence == {[dp |-> 3]}

\* Evidence for a registered and for another group.
TwoLinks == {[dp |-> 2, tp |-> 1]}

\* Grants whose maximum exceeds their minimum.
ElasticIntents == {Intent("dp", 1, 2, 1), Intent("tp", 1, 2, 1)}
=============================================================================
