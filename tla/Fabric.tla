------------------------------- MODULE Fabric --------------------------------
(***************************************************************************)
(* The deterministic core of the Training Traffic Fabric (detail::* in     *)
(* fabric_core, fabric_traffic and fabric_recovery) for one training job:  *)
(* authority resolution, registration of groups, topology and policy, the  *)
(* step and phase lifecycle, traffic arbitration with preemption,          *)
(* checkpoint bursts, revalidation, replacement and retirement.            *)
(*                                                                         *)
(* Every public method of ttf::Fabric holds one mutex from its first line  *)
(* to its last, so an operation is one atomic action.  Jobs share nothing  *)
(* but the policy and the job-id allocator: one job is the whole system as *)
(* far as these operations go (epochs across jobs are in Coordinator).     *)
(*                                                                         *)
(* An operation whose authority does not resolve changes nothing here but  *)
(* fence records and statistics, which are left out: it is a stuttering    *)
(* step.  RequestTraffic is the exception, and is modelled: a refused      *)
(* request still mints an intent id and records a decision.                *)
(***************************************************************************)
EXTENDS TrafficPolicy, Sequences

CONSTANTS
  Groups,      \* parallelism group ids a caller may name
  Boots,       \* boot identities of the processes of the job
  Policies,    \* the policy documents, Policies[1] the initial one
  Evidence,    \* topology evidence a caller may publish: [subset of Groups -> Nat]
  Contract,    \* the job's WorkloadContract
  Intents,     \* traffic intents: [group, min, max, bytes, declared, defer]
  Reports,     \* byte counts a completion may report
  MaxDecisions,         \* FabricConfig::max_decisions_retained_per_job
  RegisteredTrafficOnly, \* callers name only registered groups in an intent
  AnyAge  \* tokens are of any age; else of this generation or the one before

\* Bounds of the model: each caps a counter the code lets grow.
CONSTANTS MaxEpoch, MaxIncarnation, MaxTopology, MaxStep, MaxPhase,
          MaxIntent, MaxBurst

ASSUME FabricAssumption ==
  /\ Groups # {} /\ Boots # {}
  /\ DOMAIN Policies = 1 .. Len(Policies) /\ Len(Policies) > 0
  /\ \A k \in DOMAIN Policies : ValidPolicy(Policies[k])
  /\ \A e \in Evidence : DOMAIN e \subseteq Groups /\ \A g \in DOMAIN e : e[g] \in Nat
  /\ \A it \in Intents :
       it.group \in Groups /\ {it.min, it.max, it.bytes} \subseteq Nat /\ it.min <= it.max
  \* phase_class_map is an array over every phase class; rates are unsigned and
  \* the isolation priority is a byte
  /\ \A k, l \in DOMAIN Policies : DOMAIN Policies[k].classOf = DOMAIN Policies[l].classOf
  /\ \A k \in DOMAIN Policies : \A c \in DOMAIN Policies[k].spec :
       {Policies[k].spec[c].floor, Policies[k].spec[c].ceiling,
        Policies[k].spec[c].isolationCeiling} \subseteq Nat
  /\ \A k \in DOMAIN Policies :
       Policies[k].isoPriority \in 0 .. 255 /\ Policies[k].unknownCeiling \in Nat
  /\ Reports \subseteq Nat /\ MaxDecisions \in Nat \ {0}
  \* ContractDocument::validate
  /\ Contract.historySteps \in Nat \ {0}
  /\ {Contract.maxGroups, Contract.maxPhases} \subseteq Nat
  /\ RegisteredTrafficOnly \in BOOLEAN /\ AnyAge \in BOOLEAN
  /\ {MaxEpoch, MaxIncarnation, MaxTopology, MaxStep, MaxPhase, MaxIntent, MaxBurst}
       \subseteq Nat

VARIABLES
  \* authority (JobState)
  epoch,        \* coordinator epoch the job is bound to; 0 when it has none
  incarnation,  \* current incarnation; the next one minted is incarnation + 1
  boot,         \* boot identity of the process holding the incarnation
  retiredSet,   \* retired incarnations
  retired,      \* the job is retired
  \* registered inputs
  groups,       \* registered groups
  topology,     \* [gen, cap]: generation and usable capacity per group
  policyGen,    \* generation of the policy in force
  \* the open step
  step,         \* StepState without its flows; step.id = 0 when none is open
  flows,        \* live flows of the open step: intent id -> flow
  utilized,     \* group_utilized_bps
  phaseAcct,    \* phase_accounting of the open step: phase id -> [committed, completed]
  \* allocators and records
  highestStep, lastClosed, nextPhase, nextIntent, nextBurst,
  decisions,    \* retained decisions: intent id -> decision
  receipts,     \* receipts of closed flows: intent id -> [completed, bytes]
  history       \* reports of closed steps, oldest first

authVars    == <<epoch, incarnation, boot, retiredSet, retired>>
configVars  == <<groups, topology, policyGen>>
ledgerVars  == <<step, flows, utilized, phaseAcct>>
idVars      == <<highestStep, lastClosed, nextPhase, nextIntent, nextBurst>>
recordVars  == <<decisions, receipts, history>>
vars == <<authVars, configVars, ledgerVars, idVars, recordVars>>

NoBurst == [id |-> 0, group |-> CHOOSE g \in Groups : TRUE, active |-> FALSE]

\* StepAccounting, without the counters of refused intents.
NoAccounting ==
  [admitted |-> 0, completed |-> 0, cancelled |-> 0, active |-> 0,
   activeMin |-> 0, bytesCommitted |-> 0, bytesCompleted |-> 0, bytesCancelled |-> 0]

\* StepAccounting::balanced.
Balanced(acct) ==
  /\ acct.active = 0 /\ acct.activeMin = 0
  /\ acct.bytesCommitted = acct.bytesCompleted + acct.bytesCancelled

\* PhaseAccounting, without its counters of intents.
NoPhaseAccounting == [committed |-> 0, completed |-> 0]

NoStep ==
  [id |-> 0, incarnation |-> 0, seen |-> 0, phases |-> <<>>,
   burst |-> NoBurst, acct |-> NoAccounting]

-----------------------------------------------------------------------------
(* Authority.                                                              *)

(***************************************************************************)
(* AuthorityToken, without job, job and contract generation (each has one  *)
(* value in the life of a job), session, sequence and nonce.  Every check  *)
(* but the policy's compares for equality, so one stale value stands for   *)
(* all of them, and unless AnyAge tokens carry the current or the previous *)
(* value of a field.                                                       *)
(***************************************************************************)
Recent(n) == IF AnyAge THEN 0 .. n ELSE {n, n - 1} \cap Nat

Tokens ==
  [epoch : Recent(epoch), incarnation : Recent(incarnation), boot : Boots,
   topology : Recent(topology.gen),
   policy : {policyGen + 1} \cup (IF AnyAge THEN 0 .. policyGen ELSE {policyGen}),
   step : Recent(highestStep)]

\* Fault: a resolve_authority that never compares boot identities.
AuthorisedAnyBoot(t) ==
  /\ ~retired
  /\ epoch # 0 => t.epoch = epoch
  /\ t.incarnation = incarnation /\ incarnation \notin retiredSet
  /\ topology.gen # 0 => t.topology = topology.gen
  /\ t.policy <= policyGen

\* resolve_authority, with neither a step nor a phase required.
Authorised(t) ==
  /\ ~retired
  /\ epoch # 0 => t.epoch = epoch
  /\ t.incarnation = incarnation
  /\ incarnation \notin retiredSet
  /\ t.boot = boot
  /\ topology.gen # 0 => t.topology = topology.gen
  /\ t.policy <= policyGen

\* resolve_authority with require_active_step.
InStep(t) ==
  /\ Authorised(t)
  /\ step.id # 0
  /\ t.step = step.id
  /\ t.incarnation = step.incarnation

\* resolve_authority with require_phase: the token names phase p.
InPhase(t, p) ==
  /\ InStep(t)
  /\ p \in DOMAIN step.phases
  /\ step.phases[p].open

-----------------------------------------------------------------------------
(* The ledger.                                                             *)

Doc == Policies[policyGen]
Ids == 1 .. nextIntent - 1

MinSum(S) == SumTo([i \in Ids |-> IF i \in S THEN flows[i].min ELSE 0], nextIntent - 1)
BytesSum(S) == SumTo([i \in Ids |-> IF i \in S THEN flows[i].bytes ELSE 0], nextIntent - 1)
FlowsOf(g) == {i \in DOMAIN flows : flows[i].group = g}

\* Faults of close_flow: the utilisation stays, or the flow does.
UtilizedStill(S) == utilized
FlowsLeft(S) == flows

\* release_utilization for the flows of S.
UtilizedWithout(S) ==
  [g \in Groups |-> Monus(utilized[g], MinSum(S \cap FlowsOf(g)))]

FlowsWithout(S) == [i \in DOMAIN flows \ S |-> flows[i]]

\* Fault: a cancelled flow keeps its bytes committed.
CancelledKeepingBytes(S) ==
  [step.acct EXCEPT !.cancelled = @ + Cardinality(S),
                    !.active = Monus(@, Cardinality(S)),
                    !.activeMin = Monus(@, MinSum(S))]

\* close_flow's share of StepAccounting for flows S closed as cancelled.
CancelledAccounting(S) ==
  [step.acct EXCEPT !.cancelled = @ + Cardinality(S),
                    !.active = Monus(@, Cardinality(S)),
                    !.activeMin = Monus(@, MinSum(S)),
                    !.bytesCommitted = Monus(@, BytesSum(S))]

\* Fault: a cancelled flow keeps its bytes committed in its phase.
PhasesKeepingBytes(S) == phaseAcct

\* close_flow's share of PhaseAccounting for them.
CancelledPhases(S) ==
  [p \in DOMAIN phaseAcct |->
     [phaseAcct[p] EXCEPT !.committed = Monus(@, BytesSum({i \in S : flows[i].phase = p}))]]

\* record_receipt for flows S closed as cancelled.
CancelledReceipts(S) ==
  [i \in S \cup DOMAIN receipts |->
     IF i \in S THEN [completed |-> FALSE, bytes |-> 0] ELSE receipts[i]]

\* Fault: a withdrawn decision keeps its outcome.
WithdrawnInName(S, outcome) ==
  [i \in DOMAIN decisions |->
     IF i \in S THEN [decisions[i] EXCEPT !.invalidated = TRUE] ELSE decisions[i]]

\* The retained decisions of S are marked as no longer standing.
Withdrawn(S, outcome) ==
  [i \in DOMAIN decisions |->
     IF i \in S THEN [decisions[i] EXCEPT !.outcome = outcome, !.invalidated = TRUE]
     ELSE decisions[i]]

\* Fault: the intent id is read after the allocator moved on.
RecordedLate(decs, d) == Put(decs, nextIntent + 1, d)

\* record_decision: ids are minted in order, so the oldest is the smallest.
Recorded(decs, d) ==
  LET all == Put(decs, nextIntent, d)
  IN  [i \in DOMAIN all \cap (nextIntent - MaxDecisions + 1 .. nextIntent) |-> all[i]]

\* Fault: the bound is tested before the report is added.
PushedLate(report) ==
  LET bound == MaxOf2(1, Contract.historySteps)
  IN  Append(IF Len(history) > bound THEN SubSeq(history, Len(history) - bound + 1, Len(history))
             ELSE history, report)

\* push_history: max(1, history_steps) reports are kept.
Pushed(report) ==
  LET h == Append(history, report)
      bound == MaxOf2(1, Contract.historySteps)
  IN  IF Len(h) > bound THEN SubSeq(h, Len(h) - bound + 1, Len(h)) ELSE h

(***************************************************************************)
(* What end_step and fence_open_step share: every live flow is cancelled   *)
(* and its decision rejected, the report is pushed, the step is gone.      *)
(***************************************************************************)
CloseStep ==
  /\ utilized' = UtilizedWithout(DOMAIN flows)
  /\ flows' = <<>>
  /\ receipts' = CancelledReceipts(DOMAIN flows)
  /\ decisions' = Withdrawn(DOMAIN flows, "Reject")
  /\ phaseAcct' = <<>>
  /\ history' = Pushed([step |-> step.id, acct |-> CancelledAccounting(DOMAIN flows),
                        phases |-> CancelledPhases(DOMAIN flows)])
  /\ lastClosed' = step.id
  /\ step' = NoStep

\* Fault: the caller forgets the open step.
FenceNothing ==
  UNCHANGED <<utilized, flows, phaseAcct, receipts, decisions, history, lastClosed, step>>

FenceOpenStep ==
  IF step.id # 0 THEN CloseStep
  ELSE UNCHANGED <<utilized, flows, phaseAcct, receipts, decisions, history, lastClosed, step>>

-----------------------------------------------------------------------------
(* Registration.                                                           *)

\* register_job leaves this state behind.
Init ==
  /\ epoch \in 0 .. MinOf2(1, MaxEpoch) /\ incarnation = 1 /\ boot \in Boots
  /\ retiredSet = {} /\ retired = FALSE
  /\ groups = {} /\ topology = [gen |-> 0, cap |-> <<>>] /\ policyGen = 1
  /\ step = NoStep /\ flows = <<>> /\ utilized = [g \in Groups |-> 0]
  /\ phaseAcct = <<>>
  /\ highestStep = 0 /\ lastClosed = 0
  /\ nextPhase = 1 /\ nextIntent = 1 /\ nextBurst = 1
  /\ decisions = <<>> /\ receipts = <<>> /\ history = <<>>

RegisterGroup(t, g) ==
  /\ Authorised(t)
  /\ g \notin groups
  /\ Cardinality(groups) < Contract.maxGroups
  /\ groups' = groups \cup {g}
  /\ utilized' = [utilized EXCEPT ![g] = 0]
  /\ UNCHANGED <<authVars, topology, policyGen, step, flows, phaseAcct, idVars, recordVars>>

\* Flows that do not survive a new generation, judged by document doc.
Invalidated(doc) ==
  {i \in DOMAIN flows :
     Unsafe(doc, flows[i], step.phases[flows[i].phase].cls,
            step.burst.active /\ step.burst.group = flows[i].group)}

\* invalidate_for_generation_change.
Invalidate(S) ==
  /\ utilized' = UtilizedWithout(S)
  /\ flows' = FlowsWithout(S)
  /\ step' = [step EXCEPT !.acct = CancelledAccounting(S)]
  /\ phaseAcct' = CancelledPhases(S)
  /\ receipts' = CancelledReceipts(S)
  /\ decisions' = Withdrawn(S, "Revalidate")

PublishTopology(t, cap) ==
  /\ Authorised(t)
  /\ topology.gen < MaxTopology
  /\ Invalidate(Invalidated(Doc))
  /\ topology' = [gen |-> topology.gen + 1, cap |-> cap]
  /\ UNCHANGED <<authVars, groups, policyGen, idVars, history>>

\* apply_policy asks for no authority, only for a higher generation.
ApplyPolicy(k) ==
  /\ k > policyGen
  /\ policyGen' = k
  /\ Invalidate(Invalidated(Policies[k]))
  /\ UNCHANGED <<authVars, groups, topology, idVars, history>>

RetireJob(t) ==
  /\ Authorised(t)
  /\ FenceOpenStep
  /\ retired' = TRUE
  /\ UNCHANGED <<epoch, incarnation, boot, retiredSet, configVars,
                 highestStep, nextPhase, nextIntent, nextBurst>>

\* Fabric::RebaseEpoch for this job: the open step and its flows stay.
RebaseEpoch(e) ==
  /\ e > epoch
  /\ epoch' = e
  /\ UNCHANGED <<incarnation, boot, retiredSet, retired, configVars, ledgerVars,
                 idVars, recordVars>>

-----------------------------------------------------------------------------
(* Step and phase lifecycle.                                               *)

\* Fault: the monotonicity test is off by one.
AheadOrSame(s) == s >= highestStep

\* Step ids only grow, in begin_step and in the resume floor of a replacement.
Ahead(s) == s > highestStep

BeginStep(t, s) ==
  /\ Authorised(t)
  /\ step.id = 0
  /\ Ahead(s)
  /\ step' = [NoStep EXCEPT !.id = s, !.incarnation = incarnation]
  /\ phaseAcct' = <<>>
  /\ highestStep' = s
  /\ UNCHANGED <<authVars, configVars, flows, utilized, lastClosed,
                 nextPhase, nextIntent, nextBurst, recordVars>>

BeginPhase(t, cls, g) ==
  /\ InStep(t)
  /\ g \in groups
  /\ Cardinality(DOMAIN step.phases) < Contract.maxPhases
  /\ nextPhase <= MaxPhase
  /\ step' = [step EXCEPT !.phases =
                Put(@, nextPhase, [cls |-> cls, group |-> g, open |-> TRUE])]
  /\ phaseAcct' = Put(phaseAcct, nextPhase, NoPhaseAccounting)
  /\ nextPhase' = nextPhase + 1
  /\ UNCHANGED <<authVars, configVars, flows, utilized, highestStep, lastClosed,
                 nextIntent, nextBurst, recordVars>>

(***************************************************************************)
(* cancel_flows_in_phase closes the phase's flows but, unlike every other  *)
(* cancellation, leaves their decisions as they were.                      *)
(***************************************************************************)
EndPhase(t, p) ==
  LET S == {i \in DOMAIN flows : flows[i].phase = p}
  IN  /\ InStep(t)
      /\ p \in DOMAIN step.phases /\ step.phases[p].open
      /\ utilized' = UtilizedWithout(S)
      /\ flows' = FlowsWithout(S)
      /\ step' = [step EXCEPT !.acct = CancelledAccounting(S), !.phases[p].open = FALSE]
      /\ phaseAcct' = CancelledPhases(S)
      /\ receipts' = CancelledReceipts(S)
      /\ UNCHANGED <<authVars, configVars, idVars, decisions, history>>

EndStep(t) ==
  /\ InStep(t)
  /\ CloseStep
  /\ UNCHANGED <<authVars, configVars, highestStep, nextPhase, nextIntent, nextBurst>>

-----------------------------------------------------------------------------
(* Traffic.                                                                *)

ClassOf(p) == Doc.classOf[step.phases[p].cls]
Spec(c) == Doc.spec[c]
InUnknownPhase(p) == step.phases[p].cls = UnknownPhase

\* step_has_isolation.
Isolated(g) == step.burst.active /\ step.burst.group = g

Priority(p, g) == EffectivePriority(Doc, ClassOf(p), Isolated(g))

\* The refusals that come before the isolation check.
Acceptable(p, it) ==
  /\ step.seen < Contract.maxIntents
  /\ it.declared \in {UnknownPhase, step.phases[p].cls}
  /\ InUnknownPhase(p) => Contract.allowUnknown

\* Fault: request_traffic forgets the burst.
HeldByNothing(p, it) == FALSE

\* A checkpoint burst holds the group against the class of phase p.
HeldByBurst(p, it) ==
  /\ Isolated(it.group)
  /\ ClassOf(p) # Checkpoint
  /\ ~Spec(ClassOf(p)).critical

\* The class ceiling, tightened in UNKNOWN phases; 0 means none.
Ceiling(p) ==
  LET ceiling == Spec(ClassOf(p)).ceiling
  IN  IF ~InUnknownPhase(p) THEN ceiling
      ELSE IF ceiling = 0 THEN Doc.unknownCeiling
      ELSE MinOf2(ceiling, Doc.unknownCeiling)

\* Fault: the grant is not capped by the ceiling.
MaxUncapped(p, it) == it.max

MinRate(p, it) == MaxOf2(it.min, Spec(ClassOf(p)).floor)
MaxRate(p, it) == IF Ceiling(p) = 0 THEN it.max ELSE MinOf2(it.max, Ceiling(p))

\* The rate, byte and flow-count refusals that come after it.
InEnvelope(p, it) ==
  /\ Ceiling(p) # 0 => it.min <= Ceiling(p)
  /\ MinRate(p, it) <= MaxRate(p, it)
  /\ it.bytes <= Contract.maxBytesIntent
  /\ step.acct.bytesCommitted + it.bytes <= Contract.maxBytesStep
  /\ Cardinality(DOMAIN flows) < MinOf2(Contract.maxFlows, Doc.maxFlows)

\* Fault: live grants are not subtracted.
AvailableGross(g) == topology.cap[g]

\* The part of the link the live grants leave free.
Available(g) == Monus(topology.cap[g], utilized[g])

\* Fault: equals displace equals.
DisplaceableTies(g, prio) ==
  {i \in FlowsOf(g) :
     /\ flows[i].class \in DOMAIN Doc.spec
     /\ Spec(flows[i].class).preemptible /\ ~Spec(flows[i].class).critical
     /\ flows[i].prio >= prio}

\* Flows of g a request of priority prio may displace.
Displaceable(g, prio) ==
  {i \in FlowsOf(g) :
     /\ flows[i].class \in DOMAIN Doc.spec
     /\ Spec(flows[i].class).preemptible
     /\ ~Spec(flows[i].class).critical
     /\ flows[i].prio > prio}

\* Least urgent first, then the older intent.
DisplacedBefore(i, j) ==
  \/ flows[i].prio > flows[j].prio
  \/ flows[i].prio = flows[j].prio /\ i < j

(***************************************************************************)
(* arbitrate_capacity takes victims in that order until the minimum fits:  *)
(* a candidate is a victim when what precedes it does not yet suffice.     *)
(***************************************************************************)
Victims(g, prio, min) ==
  LET candidates == Displaceable(g, prio)
  IN  IF ~Doc.preempt THEN {}
      ELSE {i \in candidates :
              Available(g) + MinSum({j \in candidates : DisplacedBefore(j, i)}) < min}

\* UNKNOWN-phase traffic is arbitrated at the worst priority.
RequestVictims(p, it) ==
  Victims(it.group, IF InUnknownPhase(p) THEN 255 ELSE Priority(p, it.group), MinRate(p, it))

Reach(p, it) == Available(it.group) + MinSum(RequestVictims(p, it))

Fits(p, it) == it.group \in DOMAIN topology.cap /\ MinRate(p, it) <= Reach(p, it)

NoGrant == [group |-> NoBurst.group, phase |-> 0, class |-> "Unknown", prio |-> 0,
            min |-> 0, max |-> 0]

\* The envelope a request is given: a live flow's, or an empty one when deferred.
Grant(p, it, min, max) ==
  [group |-> it.group, phase |-> p, class |-> ClassOf(p), prio |-> Priority(p, it.group),
   min |-> min, max |-> max]

Flow(t, it, grant) ==
  [group |-> grant.group, phase |-> grant.phase, class |-> grant.class, prio |-> grant.prio,
   min |-> grant.min, max |-> grant.max, bytes |-> it.bytes, authority |-> t]

Decision(t, outcome, grant) ==
  [outcome |-> outcome, invalidated |-> FALSE, step |-> t.step, policy |-> policyGen,
   grant |-> grant]

\* A request that ends without a grant: counted as seen, recorded as d.
Refuse(d) ==
  /\ step' = [step EXCEPT !.seen = @ + 1]
  /\ decisions' = Recorded(decisions, d)
  /\ UNCHANGED <<flows, utilized, phaseAcct, receipts>>

Unresolved(t, p) ==
  /\ ~InPhase(t, p)
  /\ decisions' = Recorded(decisions, Decision(t, "Reject", NoGrant))
  /\ UNCHANGED <<step, flows, utilized, phaseAcct, receipts>>

Rejected(t, p, it) ==
  /\ InPhase(t, p)
  /\ \/ ~Acceptable(p, it)
     \/ Acceptable(p, it) /\ ~HeldByBurst(p, it)
        /\ (~InEnvelope(p, it) \/ it.group \notin DOMAIN topology.cap)
  /\ Refuse(Decision(t, "Reject", NoGrant))

\* A burst or the lack of capacity: deferred when class and caller allow it.
Held(t, p, it) ==
  /\ InPhase(t, p) /\ Acceptable(p, it)
  /\ \/ HeldByBurst(p, it)
     \/ InEnvelope(p, it) /\ it.group \in DOMAIN topology.cap /\ ~Fits(p, it)
  /\ Refuse(IF Spec(ClassOf(p)).deferrable /\ it.defer
            THEN Decision(t, "Defer", Grant(p, it, 0, 0))
            ELSE Decision(t, "Reject", NoGrant))

(***************************************************************************)
(* The victims are closed as cancelled and their decisions withdrawn, then *)
(* the flow is opened: one critical section.                               *)
(***************************************************************************)
Admitted(t, p, it) ==
  LET victims == RequestVictims(p, it)
      grant   == Grant(p, it, MinRate(p, it),
                       MaxOf2(MinRate(p, it), MinOf2(MaxRate(p, it), Reach(p, it))))
      closed  == CancelledAccounting(victims)
  IN  /\ InPhase(t, p) /\ Acceptable(p, it) /\ ~HeldByBurst(p, it)
      /\ InEnvelope(p, it) /\ Fits(p, it)
      /\ utilized' = [UtilizedWithout(victims) EXCEPT ![it.group] = @ + grant.min]
      /\ flows' = Put(FlowsWithout(victims), nextIntent, Flow(t, it, grant))
      /\ step' = [step EXCEPT !.seen = @ + 1,
                    !.acct = [closed EXCEPT !.admitted = @ + 1, !.active = @ + 1,
                                !.activeMin = @ + grant.min,
                                !.bytesCommitted = @ + it.bytes]]
      /\ phaseAcct' = [CancelledPhases(victims) EXCEPT ![p].committed = @ + it.bytes]
      /\ receipts' = CancelledReceipts(victims)
      /\ decisions' = Recorded(Withdrawn(victims, "Defer"), Decision(t, "Admit", grant))

RequestTraffic(t, p, it) ==
  /\ nextIntent <= MaxIntent
  /\ t.step # 0 /\ t.incarnation # 0
  /\ RegisteredTrafficOnly => it.group \in groups
  /\ nextIntent' = nextIntent + 1
  /\ \/ Unresolved(t, p)
     \/ Rejected(t, p, it)
     \/ Held(t, p, it)
     \/ Admitted(t, p, it)
  /\ UNCHANGED <<authVars, configVars, highestStep, lastClosed, nextPhase, nextBurst, history>>

(***************************************************************************)
(* complete_flow: the estimate is replaced by the bytes reported.  A       *)
(* report for a flow that is not live changes nothing.                     *)
(***************************************************************************)
CompleteFlow(t, i, bytes, cancelled) ==
  /\ InStep(t)
  /\ i \in DOMAIN flows
  /\ bytes <= Contract.maxBytesIntent
  /\ utilized' = UtilizedWithout({i})
  /\ flows' = FlowsWithout({i})
  /\ LET released == CancelledAccounting({i})
     IN  step' = [step EXCEPT !.acct =
                    IF cancelled THEN released
                    ELSE [released EXCEPT !.cancelled = step.acct.cancelled,
                            !.completed = @ + 1, !.bytesCommitted = @ + bytes,
                            !.bytesCompleted = @ + bytes]]
  /\ phaseAcct' =
       IF cancelled THEN CancelledPhases({i})
       ELSE [CancelledPhases({i}) EXCEPT ![flows[i].phase].committed = @ + bytes,
                                         ![flows[i].phase].completed = @ + bytes]
  /\ receipts' = Put(receipts, i, [completed |-> ~cancelled,
                                   bytes |-> IF cancelled THEN 0 ELSE bytes])
  /\ UNCHANGED <<authVars, configVars, idVars, decisions, history>>

-----------------------------------------------------------------------------
(* Revalidation and checkpoint bursts.                                     *)

\* revalidate_flow's own test; it looks at neither the grant nor the flow.
Outdated(d) ==
  \/ Doc.strict
  \/ d.grant.phase \notin DOMAIN step.phases
  \/ ClassOf(d.grant.phase) # d.grant.class
  \/ Priority(d.grant.phase, d.grant.group) # d.grant.prio

\* The decision on i is of the open step and stands.
Standing(i) == i \in DOMAIN decisions /\ decisions[i].step = step.id /\ ~decisions[i].invalidated

\* The flows revalidate_flow calls valid, once their decision is up to date.
StillValid == {i \in DOMAIN flows : Standing(i)}

(***************************************************************************)
(* Only a decision of an older policy changes: it is either withdrawn (its *)
(* flow, if live, is not closed) or moved to the policy in force.          *)
(***************************************************************************)
RevalidateFlow(t, i) ==
  /\ InStep(t)
  /\ decisions' =
       IF ~Standing(i) \/ decisions[i].policy >= policyGen THEN decisions
       ELSE [decisions EXCEPT ![i] =
               IF Outdated(@)
               THEN [@ EXCEPT !.policy = policyGen, !.outcome = "Revalidate", !.invalidated = TRUE]
               ELSE [@ EXCEPT !.policy = policyGen]]
  /\ UNCHANGED <<authVars, configVars, ledgerVars, idVars, receipts, history>>

\* Live flows of g that a burst displaces or throttles.
Exposed(g) ==
  {i \in FlowsOf(g) : /\ flows[i].class \in DOMAIN Doc.spec
                      /\ flows[i].class # Checkpoint
                      /\ ~Spec(flows[i].class).critical}
IsolationCeiling(i) == Spec(flows[i].class).isolationCeiling
Displaced(g) == {i \in Exposed(g) : IsolationCeiling(i) = 0}
Throttled(g) ==
  {i \in Exposed(g) : IsolationCeiling(i) # 0 /\ flows[i].min > IsolationCeiling(i)}

\* Fault: the throttled flow is also demoted to the isolation position.
SqueezedAndRepriced(grant, ceiling) ==
  [grant EXCEPT !.min = ceiling, !.max = MinOf2(@, ceiling), !.prio = Doc.isoPriority + 1]

\* A grant cut down to the isolation ceiling of its class.
Squeezed(grant, ceiling) ==
  [grant EXCEPT !.min = ceiling, !.max = MinOf2(@, ceiling)]

BeginCheckpointBurst(t, g) ==
  LET out == Displaced(g)
      cut == Throttled(g)
      \* what throttling gives back
      slack == SumTo([i \in Ids |-> IF i \in cut THEN flows[i].min - IsolationCeiling(i) ELSE 0],
                     nextIntent - 1)
      closed == CancelledAccounting(out)
      marked == Withdrawn(out, "Defer")
  IN  /\ InStep(t)
      /\ g \in groups
      /\ ~step.burst.active
      /\ nextBurst <= MaxBurst
      /\ nextBurst' = nextBurst + 1
      /\ utilized' = [UtilizedWithout(out) EXCEPT ![g] = Monus(@, slack)]
      /\ flows' = [i \in DOMAIN flows \ out |->
                     IF i \in cut THEN Squeezed(flows[i], IsolationCeiling(i)) ELSE flows[i]]
      /\ step' = [step EXCEPT !.burst = [id |-> nextBurst, group |-> g, active |-> TRUE],
                    !.acct = [closed EXCEPT !.activeMin = Monus(@, slack)]]
      /\ phaseAcct' = CancelledPhases(out)
      /\ receipts' = CancelledReceipts(out)
      /\ decisions' =
           [i \in DOMAIN marked |->
              IF i \in cut
              THEN [marked[i] EXCEPT !.outcome = "Throttle",
                      !.grant.min = IsolationCeiling(i),
                      !.grant.max = MinOf2(flows[i].max, IsolationCeiling(i))]
              ELSE marked[i]]
      /\ UNCHANGED <<authVars, configVars, highestStep, lastClosed, nextPhase, nextIntent, history>>

EndCheckpointBurst(t, b) ==
  /\ InStep(t)
  /\ step.burst.active
  /\ step.burst.id = b
  /\ step' = [step EXCEPT !.burst.active = FALSE]
  /\ UNCHANGED <<authVars, configVars, flows, utilized, phaseAcct, idVars, recordVars>>

-----------------------------------------------------------------------------
(* Recovery.                                                               *)

(***************************************************************************)
(* admit_replacement takes no token: the caller names the epoch, the       *)
(* incarnation it expects to replace, its own new boot identity and, if    *)
(* resume # 0, the step it means to resume.                                *)
(***************************************************************************)
AdmitReplacement(e, expected, b, resume) ==
  /\ ~retired
  /\ epoch # 0 => e = epoch
  /\ b # boot
  /\ expected = incarnation
  /\ resume # 0 => Ahead(resume)
  /\ incarnation < MaxIncarnation
  /\ FenceOpenStep
  /\ retiredSet' = retiredSet \cup {incarnation}
  /\ incarnation' = incarnation + 1
  /\ boot' = b
  /\ UNCHANGED <<epoch, retired, configVars, highestStep, nextPhase, nextIntent, nextBurst>>

\* The incarnation stays current; it only loses all authority.
RetireIncarnation(t) ==
  /\ Authorised(t)
  /\ FenceOpenStep
  /\ retiredSet' = retiredSet \cup {incarnation}
  /\ UNCHANGED <<epoch, incarnation, boot, retired, configVars,
                 highestStep, nextPhase, nextIntent, nextBurst>>

-----------------------------------------------------------------------------
Registration ==
  \/ \E k \in DOMAIN Policies : ApplyPolicy(k)
  \/ \E e \in 1 .. MaxEpoch : RebaseEpoch(e)
  \/ \E t \in Tokens :
       \/ \E g \in Groups : RegisterGroup(t, g)
       \/ \E cap \in Evidence : PublishTopology(t, cap)
       \/ RetireJob(t)

Lifecycle ==
  \E t \in Tokens :
    \/ \E s \in 1 .. MaxStep : BeginStep(t, s)
    \/ \E cls \in DOMAIN Doc.classOf, g \in Groups : BeginPhase(t, cls, g)
    \/ \E p \in 1 .. nextPhase : EndPhase(t, p)
    \/ EndStep(t)

Traffic ==
  \E t \in Tokens :
    \/ \E p \in 1 .. nextPhase, it \in Intents : RequestTraffic(t, p, it)
    \/ \E i \in Ids, bytes \in Reports, cancelled \in BOOLEAN :
         CompleteFlow(t, i, bytes, cancelled)
    \/ \E i \in Ids : RevalidateFlow(t, i)
    \/ \E g \in Groups : BeginCheckpointBurst(t, g)
    \/ \E b \in 1 .. nextBurst : EndCheckpointBurst(t, b)

Recovery ==
  \/ \E e \in Recent(epoch), expected \in Recent(incarnation), b \in Boots,
        resume \in 0 .. MaxStep : AdmitReplacement(e, expected, b, resume)
  \/ \E t \in Tokens : RetireIncarnation(t)

Next == Registration \/ Lifecycle \/ Traffic \/ Recovery

FabricSpec == Init /\ [][Next]_vars

-----------------------------------------------------------------------------
(* Properties.                                                             *)

\* Every variable keeps the shape its C++ member has (state.hpp).
TypeOK ==
  /\ epoch \in Nat /\ incarnation \in Nat \ {0} /\ boot \in Boots
  /\ retiredSet \subseteq Nat /\ retired \in BOOLEAN
  /\ groups \subseteq Groups /\ policyGen \in DOMAIN Policies
  /\ topology.gen \in Nat /\ (topology.gen # 0 => topology.cap \in Evidence)
  /\ step.id \in Nat /\ step.seen \in Nat
  /\ \A p \in DOMAIN step.phases : p \in 1 .. nextPhase - 1
  /\ DOMAIN flows \subseteq Ids
  /\ utilized \in [Groups -> Nat]
  /\ {highestStep, lastClosed} \subseteq Nat
  /\ {nextPhase, nextIntent, nextBurst} \subseteq Nat \ {0}
  /\ DOMAIN decisions \subseteq Ids /\ DOMAIN receipts \subseteq Ids

(***************************************************************************)
(* A step is open only under the incarnation that holds the job: retiring  *)
(* or replacing the incarnation, or retiring the job, never leaves its     *)
(* step open (fence_open_step), the open step is the highest one begun,    *)
(* and flows exist only in its open phases.                                *)
(***************************************************************************)
OpenStepIsHeld ==
  /\ step.id # 0 =>
       /\ ~retired
       /\ step.incarnation = incarnation /\ incarnation \notin retiredSet
       /\ step.id = highestStep /\ lastClosed < step.id
  /\ \A i \in DOMAIN flows :
       /\ step.id # 0
       /\ flows[i].phase \in DOMAIN step.phases
       /\ step.phases[flows[i].phase].open

(***************************************************************************)
(* Every live flow was granted to a token that would still be honoured:    *)
(* same incarnation, boot identity and step (decisions.md, "binding        *)
(* first": a stale token never consumes capacity).                         *)
(***************************************************************************)
LiveFlowsHoldAuthority ==
  \A i \in DOMAIN flows :
    LET t == flows[i].authority
    IN  /\ t.incarnation = incarnation /\ t.boot = boot
        /\ t.step = step.id /\ t.epoch <= epoch

(***************************************************************************)
(* decisions.md, rule 7: a new topology generation invalidates everything  *)
(* bound to the old one, so no live flow was granted on older evidence.    *)
(***************************************************************************)
TopologyBound == \A i \in DOMAIN flows : flows[i].authority.topology = topology.gen

(***************************************************************************)
(* decisions.md, rule 7: a flow survives a policy change only with the     *)
(* class the policy in force still gives its phase.                        *)
(***************************************************************************)
FlowsMatchPolicy ==
  \A i \in DOMAIN flows : flows[i].class = ClassOf(flows[i].phase)

(***************************************************************************)
(* The incremental utilisation of each group is the sum of the grants of   *)
(* its live flows (architecture.md, "State").                              *)
(***************************************************************************)
UtilizationMatchesFlows == \A g \in Groups : utilized[g] = MinSum(FlowsOf(g))

(***************************************************************************)
(* A group is never over-committed: the grants of its live flows fit the   *)
(* capacity its current evidence declares (property_tests.cpp:133).        *)
(***************************************************************************)
WithinCapacity ==
  \A g \in Groups : FlowsOf(g) # {} =>
    g \in DOMAIN topology.cap /\ MinSum(FlowsOf(g)) <= topology.cap[g]

(***************************************************************************)
(* The books balance at every moment, not only at the close: committed     *)
(* bytes are those completed plus those of live flows, every admitted flow *)
(* is live, completed or cancelled, and every closed report is balanced    *)
(* (StepAccounting::balanced, decisions.md rule 8).                        *)
(***************************************************************************)
AccountsBalance ==
  /\ LET a == step.acct
     IN  /\ a.active = Cardinality(DOMAIN flows)
         /\ a.activeMin = MinSum(DOMAIN flows)
         /\ a.bytesCommitted = a.bytesCompleted + a.bytesCancelled + BytesSum(DOMAIN flows)
         /\ a.admitted = a.completed + a.cancelled + a.active
  /\ \A k \in DOMAIN history :
       LET a == history[k].acct
       IN  Balanced(a) /\ a.admitted = a.completed + a.cancelled

\* What the books of the phases say was completed.
CompletedInPhases ==
  SumTo([p \in 1 .. nextPhase - 1 |->
           IF p \in DOMAIN phaseAcct THEN phaseAcct[p].completed ELSE 0], nextPhase - 1)

(***************************************************************************)
(* The books of a phase count its own flows: its committed bytes are those *)
(* completed plus those of its live flows, whatever became of the others;  *)
(* the phases together completed what the step did; and the summaries of a *)
(* closed step have no byte outstanding (close_flow, build_report).        *)
(***************************************************************************)
PhaseAccountsBalance ==
  /\ DOMAIN phaseAcct = DOMAIN step.phases
  /\ step.acct.bytesCompleted = CompletedInPhases
  /\ \A p \in DOMAIN phaseAcct :
       phaseAcct[p].committed =
         phaseAcct[p].completed + BytesSum({i \in DOMAIN flows : flows[i].phase = p})
  /\ \A k \in DOMAIN history : \A p \in DOMAIN history[k].phases :
       history[k].phases[p].committed = history[k].phases[p].completed

(***************************************************************************)
(* While a checkpoint burst holds a group, live traffic there is           *)
(* checkpoint, barrier-critical, or within its class's isolation ceiling   *)
(* (begin_checkpoint_burst, request_traffic).                              *)
(***************************************************************************)
IsolationHolds ==
  step.burst.active =>
    \A i \in FlowsOf(step.burst.group) :
      \/ flows[i].class = Checkpoint
      \/ Spec(flows[i].class).critical
      \/ IsolationCeiling(i) # 0 /\ flows[i].min <= IsolationCeiling(i)

(***************************************************************************)
(* A retained decision tells the truth about its flow: a live flow's       *)
(* decision stands and states the flow's grant, and a decision that still  *)
(* reads as admitted has a flow that is live or was closed by its owner.   *)
(***************************************************************************)
DecisionsAgree ==
  \A i \in DOMAIN decisions :
    LET d == decisions[i]
        admitted == d.outcome \in {"Admit", "Throttle"}
    IN  /\ i \in DOMAIN flows =>
             /\ admitted /\ ~d.invalidated
             /\ d.grant = [f \in DOMAIN d.grant |-> flows[i][f]]
        /\ i \notin DOMAIN flows /\ admitted => i \in DOMAIN receipts
        /\ d.invalidated => ~admitted

(***************************************************************************)
(* Traffic of an UNKNOWN phase is best effort under the UNKNOWN ceiling,   *)
(* and no grant exceeds its class ceiling (README, "conservative").        *)
(***************************************************************************)
GrantsWithinCeilings ==
  \A i \in DOMAIN flows :
    /\ flows[i].min <= flows[i].max
    /\ Spec(flows[i].class).ceiling # 0 => flows[i].max <= Spec(flows[i].class).ceiling
    /\ InUnknownPhase(flows[i].phase) =>
         flows[i].class = BestEffort /\ flows[i].max <= Doc.unknownCeiling

(***************************************************************************)
(* A flow is credited once: the receipt of a closed intent is final and    *)
(* the intent is never live again (complete_flow, FlowAlreadyClosed).      *)
(***************************************************************************)
CreditedOnce ==
  [][/\ \A i \in DOMAIN receipts : i \in DOMAIN receipts' /\ receipts'[i] = receipts[i]
     /\ DOMAIN receipts' \cap DOMAIN flows' = {}]_vars

(***************************************************************************)
(* Preemption is explicit (decisions.md rule 5): an admission displaces    *)
(* only preemptible, non-critical, strictly less urgent flows of its own   *)
(* group, never for an UNKNOWN phase, and no victim it could have spared.  *)
(***************************************************************************)
JustVictim(v, new, victims) ==
  /\ flows[v].group = new.group /\ flows[v].prio > new.prio
  /\ Spec(flows[v].class).preemptible /\ ~Spec(flows[v].class).critical
  /\ ~InUnknownPhase(new.phase)
  /\ (\A w \in victims : v = w \/ DisplacedBefore(w, v)) =>
       Available(new.group) + MinSum(victims \ {v}) < new.min

PreemptionIsJust ==
  [][(nextIntent \in DOMAIN flows') =>
       \A v \in DOMAIN flows \ DOMAIN flows' :
         JustVictim(v, flows'[nextIntent], DOMAIN flows \ DOMAIN flows')]_vars

(***************************************************************************)
(* Steps only move forward, across retirements and replacements too: a     *)
(* step id is opened once and reports are closed in increasing order       *)
(* (begin_step, AdmitReplacement's resume floor).                          *)
(***************************************************************************)
StepsAdvance ==
  [][/\ step'.id \notin {0, step.id} => step.id = 0 /\ step'.id > highestStep
     /\ \A k \in DOMAIN history' : \A j \in 1 .. k - 1 : history'[j].step < history'[k].step
     /\ lastClosed' # lastClosed => lastClosed' > lastClosed]_vars

(***************************************************************************)
(* A live flow is never repriced: its class, priority and owner are fixed  *)
(* and its grant only shrinks (isolation does not launder a class).        *)
(***************************************************************************)
GrantsOnlyShrink ==
  [][\A i \in DOMAIN flows \cap DOMAIN flows' :
       LET f == flows[i]  g == flows'[i]
       IN  /\ g.min <= f.min /\ g.max <= f.max
           /\ \A k \in DOMAIN f \ {"min", "max"} : g[k] = f[k]]_vars
=============================================================================
