----------------------------- MODULE MCPublisher -----------------------------
(***************************************************************************)
(* The scenarios with the policy, contract and links of the programs.      *)
(***************************************************************************)
EXTENDS Publisher

ScenarioPolicies == <<DefaultPolicy>>
ScenarioEvidence == {PublisherLinks, DemoLinks, SimulatedLinks}

\* The counts of read_job; max_retired_incarnations_per_job is 64.
ScenarioReader == [phases |-> 4096, retired |-> 4096]

CallsOf(op) == {call \in UNION {{Script[n][k] : k \in DOMAIN Script[n]} : n \in DOMAIN Script} :
                  call.op = op}
ScenarioIntents == {call.intent : call \in CallsOf("RequestTraffic")}
ScenarioReports == {call.bytes : call \in CallsOf("CompleteFlow")}
=============================================================================
