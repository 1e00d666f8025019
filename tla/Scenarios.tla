------------------------------ MODULE Scenarios ------------------------------
(***************************************************************************)
(* What the programs of the repository do with the fabric, as data: the    *)
(* scenarios of ttf-publisher, the simulation of ttf-ctl and the example.  *)
(* A scenario is a sequence of calls, each with the answer the program     *)
(* counts on ("want").  Rates are in units of 100 Mb/s, bytes in MiB.      *)
(*                                                                         *)
(* A call names phases and intents by the order in which the program was   *)
(* told of them, and its own step (0: the one its client tracks).          *)
(* The pacing call of the example, which only prints, is left out.         *)
(***************************************************************************)
EXTENDS Integers, Sequences

-----------------------------------------------------------------------------
(* The default policy, the contract and the links.                         *)

Rank(priority, preemptible, critical, deferrable, isolationCeiling) ==
  [priority |-> priority, floor |-> 0, ceiling |-> 0, isolationCeiling |-> isolationCeiling,
   preemptible |-> preemptible, critical |-> critical, deferrable |-> deferrable]

NoCeiling == 1000000

DefaultPolicy ==
  [classOf |->
     [Unknown |-> "BestEffort", ForwardComm |-> "ActivationTransfer",
      BackwardComm |-> "ActivationTransfer", GradientSync |-> "GradientSync",
      ParameterSync |-> "ParameterSync", PipelineTransfer |-> "PipelineTransfer",
      DataIngest |-> "DataIngest", Checkpoint |-> "Checkpoint", Recovery |-> "Recovery",
      Control |-> "Control"],
   spec |->
     [Control            |-> Rank(0, FALSE, TRUE, FALSE, 0),
      Barrier            |-> Rank(1, FALSE, TRUE, FALSE, 0),
      Recovery           |-> Rank(2, FALSE, TRUE, TRUE, 0),
      GradientSync       |-> Rank(3, FALSE, FALSE, TRUE, 0),
      ParameterSync      |-> Rank(4, FALSE, FALSE, TRUE, 0),
      Checkpoint         |-> Rank(5, TRUE, FALSE, FALSE, NoCeiling),
      ActivationTransfer |-> Rank(6, TRUE, FALSE, TRUE, 0),
      PipelineTransfer   |-> Rank(7, TRUE, FALSE, TRUE, 0),
      DataIngest         |-> Rank(8, TRUE, FALSE, TRUE, 0),
      BestEffort         |-> Rank(9, TRUE, FALSE, TRUE, 0)],
   isoPriority |-> 2, unknownCeiling |-> 10, strict |-> TRUE, preempt |-> TRUE,
   maxFlows |-> 4096]

\* make_contract; only the scenarios that set allow_unknown_phase open such a phase.
PublisherContract ==
  [maxGroups |-> 8, maxPhases |-> 16, maxIntents |-> 256, maxFlows |-> 64, historySteps |-> 8,
   maxBytesIntent |-> 262144, maxBytesStep |-> 1048576, allowUnknown |-> TRUE]

\* synthetic_topology: what is reserved is not usable.
PublisherLinks == [dp |-> 1900, pp |-> 950, tp |-> 3800]
DemoLinks == [dp |-> 1900, pp |-> 1900]
SimulatedLinks == [dp |-> 950, tp |-> 4000]

-----------------------------------------------------------------------------
(* Calls.                                                                  *)

Fine == [ok |-> TRUE]
Refused == [ok |-> FALSE]
Balanced0 == [ok |-> TRUE, balanced |-> TRUE]
Admitted0(class) == [ok |-> TRUE, outcome |-> "Admit", class |-> class]
Outcome0(outcome) == [ok |-> TRUE, outcome |-> outcome]

Register(g) == [op |-> "RegisterGroup", step |-> 0, group |-> g, want |-> Fine]
Publish(links) == [op |-> "PublishTopology", step |-> 0, evidence |-> links, want |-> Fine]
Open(s) == [op |-> "BeginStep", step |-> s, want |-> Fine]
Enter(class, g) == [op |-> "BeginPhase", step |-> 0, cls |-> class, group |-> g, want |-> Fine]
Leave(k) == [op |-> "EndPhase", step |-> 0, phase |-> k, want |-> Fine]
Shut(want) == [op |-> "EndStep", step |-> 0, want |-> want]

Ask(s, k, declared, g, min, max, bytes, want) ==
  [op |-> "RequestTraffic", step |-> s, phase |-> k, want |-> want,
   intent |-> [group |-> g, min |-> min, max |-> max, bytes |-> bytes,
               declared |-> declared, defer |-> TRUE]]
Report(s, k, bytes) ==
  [op |-> "CompleteFlow", step |-> s, intent |-> k, bytes |-> bytes, cancelled |-> FALSE,
   want |-> Fine]
Revalidate(s, k) == [op |-> "RevalidateFlow", step |-> s, intent |-> k,
                    want |-> [ok |-> TRUE, valid |-> FALSE]]
Isolate(s, g) == [op |-> "BeginCheckpointBurst", step |-> s, group |-> g, want |-> Fine]
Release(s) == [op |-> "EndCheckpointBurst", step |-> s, burst |-> 1, want |-> Fine]

Pace(s, g, expected, arrived, grace, hold, deadline, want) ==
  [op |-> "EvaluatePacing", step |-> s, group |-> g, deadline |-> deadline, want |-> want,
   pacing |-> [expected |-> expected, arrived |-> arrived, grace |-> grace, hold |-> hold,
               release |-> TRUE]]

\* A raw frame, whose token the program forges: its sequence is that of the next frame
\* plus an offset, or the given one.
Claim(s, claim, sequence) ==
  [op |-> "BeginStep", step |-> s, claim |-> claim, sequence |-> sequence, want |-> Refused]

-----------------------------------------------------------------------------
(* The scenarios of ttf-publisher.                                         *)

\* prepare(), after RegisterJob.
Prepare ==
  <<[op |-> "LookupHandle", step |-> 0, want |-> Fine],
    Register("dp"), Register("pp"), Register("tp"), Publish(PublisherLinks)>>

\* One round of scenario_fresh: the 2n phases and intents before it are closed.
Round(s) ==
  LET k == 2 * s - 1
  IN  <<Open(s), Enter("ForwardComm", "pp"), Enter("GradientSync", "dp"),
        Ask(s, k, "ForwardComm", "pp", 20, 80, 64, Admitted0("ActivationTransfer")),
        Report(s, k, 60),
        Ask(s, k + 1, "GradientSync", "dp", 40, 160, 128, Admitted0("GradientSync")),
        Report(s, k + 1, 120),
        Pace(s, "dp", 4, 3, 8, 4, 0, Outcome0("Defer")),
        Pace(s, "dp", 4, 4, 8, 4, 0, Outcome0("Admit")),
        Leave(k), Leave(k + 1),
        Shut([ok |-> TRUE, balanced |-> TRUE, completed |-> 2])>>

Fresh == Prepare \o Round(1) \o Round(2) \o Round(3)

\* scenario_primary: the step stays open.
Primary ==
  Prepare \o
  <<Open(1), Enter("GradientSync", "dp"),
    Ask(1, 1, "GradientSync", "dp", 40, 160, 128, Outcome0("Admit"))>>

\* scenario_replacement: prepare() registers a job of its own, which is not this one.
Replacement ==
  <<[op |-> "PrepareOwnJob", step |-> 0, want |-> Fine],
    [op |-> "AdmitReplacement", step |-> 0, expected |-> 1, resume |-> 2, want |-> Fine],
    [Open(1) EXCEPT !.want = Refused],
    Claim(1, "retired", 1000),
    Open(2), Enter("Recovery", "dp"),
    Ask(2, 1, "Recovery", "dp", 10, 40, 16, Outcome0("Admit")), Report(2, 1, 16),
    Shut(Balanced0)>>

StaleReplay == Prepare \o <<Claim(1, "oldSession", 1)>>

UnknownPhaseScenario ==
  Prepare \o
  <<Open(1), Enter("Unknown", "dp"),
    Ask(1, 1, "Unknown", "dp", 1, 40, 8,
        [ok |-> TRUE, outcome |-> "Admit", class |-> "BestEffort", max |-> 10]),
    Report(1, 1, 8),
    Ask(1, 1, "GradientSync", "dp", 1, 40, 8, Outcome0("Reject")),
    Shut(Balanced0)>>

CheckpointScenario ==
  Prepare \o
  <<Open(1), Enter("GradientSync", "dp"), Enter("Checkpoint", "dp"),
    Ask(1, 1, "GradientSync", "dp", 400, 800, 256, Outcome0("Admit")),
    Isolate(1, "dp"), Revalidate(1, 1),
    Ask(1, 2, "Checkpoint", "dp", 200, 600, 512, Admitted0("Checkpoint")), Report(1, 2, 512),
    Ask(1, 1, "GradientSync", "dp", 10, 20, 8, Outcome0("Defer")),
    Release(1), Leave(1), Leave(2), Shut(Balanced0)>>

PacingScenario ==
  Prepare \o
  <<Open(1), Enter("GradientSync", "dp"),
    Pace(1, "dp", 8, 6, 16, 8, 200, [ok |-> TRUE, outcome |-> "Defer", stragglers |-> 2]),
    Pace(1, "dp", 8, 8, 16, 8, 200, Outcome0("Admit")),
    Pace(1, "dp", 8, 5, 0, 0, 200, Outcome0("Admit")),
    Leave(1), Shut(Balanced0)>>

-----------------------------------------------------------------------------
(* Programs that hold a Fabric of their own.                               *)

\* simulate_step of ttf-ctl.
Simulate ==
  <<Register("dp"), Register("tp"), Publish(SimulatedLinks), Open(1),
    Enter("GradientSync", "dp"), Enter("Unknown", "tp"),
    Ask(1, 1, "GradientSync", "dp", 200, 600, 256, Outcome0("Admit")),
    Ask(1, 2, "Unknown", "tp", 10, 400, 8, Outcome0("Admit")),
    Ask(1, 2, "GradientSync", "tp", 10, 400, 8, Outcome0("Reject")),
    Report(1, 1, 256), Report(1, 2, 8),
    Enter("GradientSync", "dp"), Enter("Checkpoint", "dp"), Isolate(1, "dp"),
    Ask(1, 3, "GradientSync", "dp", 200, 600, 256, Outcome0("Defer")),
    Ask(1, 4, "Checkpoint", "dp", 100, 500, 256, Outcome0("Admit")), Report(1, 5, 256),
    Release(1), Shut(Balanced0),
    Ask(1, 1, "GradientSync", "dp", 200, 600, 256, Outcome0("Reject"))>>

\* fabric_demo: its evidence names a group it never registers.
Demo ==
  <<Register("dp"), Publish(DemoLinks), Open(1),
    Enter("GradientSync", "dp"), Enter("Checkpoint", "dp"),
    Ask(1, 1, "GradientSync", "dp", 400, 800, 256, Outcome0("Admit")),
    Isolate(1, "dp"), Revalidate(1, 1),
    Ask(1, 2, "Checkpoint", "dp", 200, 600, 256, Outcome0("Admit")), Report(1, 2, 256),
    Release(1), Shut(Balanced0)>>

Script ==
  [fresh |-> Fresh, primary |-> Primary, replacement |-> Replacement,
   staleReplay |-> StaleReplay, unknownPhase |-> UnknownPhaseScenario,
   checkpoint |-> CheckpointScenario, pacing |-> PacingScenario,
   simulate |-> Simulate, demo |-> Demo, none |-> <<>>]

InProcess == {"simulate", "demo"}
=============================================================================
