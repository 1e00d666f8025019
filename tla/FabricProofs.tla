---------------------------- MODULE FabricProofs -----------------------------
(***************************************************************************)
(* Theorems about Fabric, for every value of its constants: who may hold a *)
(* step and its flows, how often a flow is credited, which class, evidence *)
(* and decision it has, and in which order steps and reports come.  All    *)
(* rest on HeldInv.                                                        *)
(***************************************************************************)
EXTENDS Fabric, TLAPS

\* What no request of a running step touches.
TrafficKept ==
  <<epoch, incarnation, boot, retiredSet, retired, groups, topology, policyGen,
    highestStep, lastClosed, nextPhase, history>>

LEMMA TrafficKeeps == Traffic => TrafficKept' = TrafficKept
<1>1. ASSUME NEW t, NEW p, NEW it, RequestTraffic(t, p, it) PROVE TrafficKept' = TrafficKept
  BY ONLY <1>1 DEF RequestTraffic, TrafficKept, authVars, configVars
<1>2. ASSUME NEW t, NEW i, NEW bytes, NEW x, CompleteFlow(t, i, bytes, x)
      PROVE  TrafficKept' = TrafficKept
  BY ONLY <1>2 DEF CompleteFlow, TrafficKept, authVars, configVars, idVars
<1>3. ASSUME NEW t, NEW i, RevalidateFlow(t, i) PROVE TrafficKept' = TrafficKept
  BY ONLY <1>3 DEF RevalidateFlow, TrafficKept, authVars, configVars, idVars
<1>4. ASSUME NEW t, NEW g, BeginCheckpointBurst(t, g) PROVE TrafficKept' = TrafficKept
  BY ONLY <1>4 DEF BeginCheckpointBurst, TrafficKept, authVars, configVars
<1>5. ASSUME NEW t, NEW b, EndCheckpointBurst(t, b) PROVE TrafficKept' = TrafficKept
  BY ONLY <1>5 DEF EndCheckpointBurst, TrafficKept, authVars, configVars, idVars, recordVars
<1> QED BY ONLY <1>1, <1>2, <1>3, <1>4, <1>5 DEF Traffic

-----------------------------------------------------------------------------
(* The inductive invariant of the step lifecycle.                          *)

\* The records of the open step have their fields, the counters are numbers,
\* and what was closed is not beyond what was begun.
StepShape ==
  /\ step = [id |-> step.id, incarnation |-> step.incarnation, seen |-> step.seen,
             phases |-> step.phases, burst |-> step.burst, acct |-> step.acct]
  /\ \A p \in DOMAIN step.phases :
       step.phases[p] = [cls |-> step.phases[p].cls, group |-> step.phases[p].group,
                         open |-> step.phases[p].open]
  /\ epoch \in Nat /\ incarnation \in Nat /\ step.id \in Nat
  /\ highestStep \in Nat /\ lastClosed \in Nat /\ lastClosed <= highestStep

FlowShape ==
  \A i \in DOMAIN flows :
    flows[i] = [group |-> flows[i].group, phase |-> flows[i].phase,
                class |-> flows[i].class, prio |-> flows[i].prio,
                min |-> flows[i].min, max |-> flows[i].max,
                bytes |-> flows[i].bytes, authority |-> flows[i].authority]

HeldInv == StepShape /\ FlowShape /\ OpenStepIsHeld

LEMMA InitHeld == Init => HeldInv
BY DEF Init, HeldInv, StepShape, FlowShape, OpenStepIsHeld, NoStep, MinOf2

\* Closing the open step leaves nothing that could be held wrongly.
LEMMA CloseHeld ==
  ASSUME HeldInv, CloseStep, highestStep' = highestStep, incarnation' \in Nat, epoch' \in Nat
  PROVE  HeldInv'
BY DEF CloseStep, HeldInv, StepShape, FlowShape, OpenStepIsHeld, NoStep

LEMMA FenceHeld ==
  ASSUME HeldInv, FenceOpenStep, highestStep' = highestStep, incarnation' \in Nat, epoch' \in Nat
  PROVE  HeldInv'
<1>1. CASE step.id # 0
  BY <1>1, CloseHeld DEF FenceOpenStep
<1>2. CASE step.id = 0
  BY <1>2 DEF FenceOpenStep, HeldInv, StepShape, FlowShape, OpenStepIsHeld
<1> QED BY <1>1, <1>2

\* Closing flows, whatever the reason, disturbs neither the step nor the others.
LEMMA InvalidateHeld ==
  ASSUME HeldInv, NEW S, Invalidate(S),
         UNCHANGED <<authVars, highestStep, lastClosed>>
  PROVE  HeldInv'
BY DEF Invalidate, FlowsWithout, HeldInv, StepShape, FlowShape, OpenStepIsHeld, authVars

LEMMA RegistrationHeld ==
  ASSUME FabricAssumption, HeldInv, Registration
  PROVE  HeldInv'
<1> USE FabricAssumption
<1>1. ASSUME NEW k \in DOMAIN Policies, ApplyPolicy(k) PROVE HeldInv'
  BY <1>1, InvalidateHeld DEF ApplyPolicy, idVars
<1>2. ASSUME NEW e \in 1 .. MaxEpoch, RebaseEpoch(e) PROVE HeldInv'
  BY <1>2 DEF RebaseEpoch, FabricAssumption, HeldInv, StepShape, FlowShape, OpenStepIsHeld,
              ledgerVars, idVars
<1>3. ASSUME NEW t \in Tokens, NEW g \in Groups, RegisterGroup(t, g) PROVE HeldInv'
  BY <1>3 DEF RegisterGroup, HeldInv, StepShape, FlowShape, OpenStepIsHeld, authVars, idVars
<1>4. ASSUME NEW t \in Tokens, NEW cap \in Evidence, PublishTopology(t, cap) PROVE HeldInv'
  BY <1>4, InvalidateHeld DEF PublishTopology, idVars
<1>5. ASSUME NEW t \in Tokens, RetireJob(t) PROVE HeldInv'
  <2>1. FenceOpenStep /\ UNCHANGED <<highestStep, incarnation, epoch>>
    BY <1>5 DEF RetireJob
  <2>2. incarnation' \in Nat /\ epoch' \in Nat
    BY <2>1 DEF HeldInv, StepShape
  <2> QED BY <2>1, <2>2, FenceHeld
<1> QED BY <1>1, <1>2, <1>3, <1>4, <1>5 DEF Registration

LEMMA LifecycleHeld ==
  ASSUME FabricAssumption, HeldInv, Lifecycle
  PROVE  HeldInv'
<1> USE FabricAssumption
<1>1. ASSUME NEW t \in Tokens, NEW s \in 1 .. MaxStep, BeginStep(t, s) PROVE HeldInv'
  <2>1. /\ step' = [NoStep EXCEPT !.id = s, !.incarnation = incarnation]
        /\ highestStep' = s /\ s > highestStep /\ step.id = 0
        /\ ~retired /\ incarnation \notin retiredSet
        /\ UNCHANGED <<authVars, flows, lastClosed>>
    BY <1>1 DEF BeginStep, Ahead, Authorised
  <2>2. s \in Nat \ {0} BY DEF FabricAssumption
  <2>3. DOMAIN flows = {} BY <2>1 DEF HeldInv, OpenStepIsHeld
  <2>4. step' = [id |-> s, incarnation |-> incarnation, seen |-> 0, phases |-> <<>>,
                 burst |-> NoBurst, acct |-> NoAccounting]
    BY <2>1 DEF NoStep
  <2>5. step'.id = s /\ step'.incarnation = incarnation /\ DOMAIN step'.phases = {}
    BY <2>4
  <2>6. lastClosed \in Nat /\ highestStep \in Nat /\ lastClosed < s
    BY <2>1, <2>2 DEF HeldInv, StepShape
  <2>7. StepShape'
    <3>1. step' = [id |-> step'.id, incarnation |-> step'.incarnation, seen |-> step'.seen,
                   phases |-> step'.phases, burst |-> step'.burst, acct |-> step'.acct]
      BY <2>4
    <3>2. epoch' \in Nat /\ incarnation' \in Nat
      BY <2>1 DEF HeldInv, StepShape, authVars
    <3>3. \A p \in DOMAIN step'.phases :
            step'.phases[p] = [cls |-> step'.phases[p].cls, group |-> step'.phases[p].group,
                               open |-> step'.phases[p].open]
      BY ONLY <2>5
    <3>4. step'.id \in Nat /\ highestStep' \in Nat /\ lastClosed' \in Nat
          /\ lastClosed' <= highestStep'
      BY ONLY <2>1, <2>2, <2>5, <2>6
    <3> QED BY ONLY <3>1, <3>2, <3>3, <3>4 DEF StepShape
  <2>8. OpenStepIsHeld'
    BY <2>1, <2>2, <2>3, <2>5, <2>6 DEF OpenStepIsHeld, authVars
  <2>9. FlowShape' BY <2>1 DEF FlowShape, HeldInv
  <2> QED BY <2>7, <2>8, <2>9 DEF HeldInv
<1>2. ASSUME NEW t \in Tokens, NEW cls, NEW g \in Groups, BeginPhase(t, cls, g) PROVE HeldInv'
  <2> DEFINE ph == [cls |-> cls, group |-> g, open |-> TRUE]
  <2>1. /\ step' = [step EXCEPT !.phases = Put(@, nextPhase, ph)]
        /\ UNCHANGED <<authVars, flows, highestStep, lastClosed>>
    BY ONLY <1>2 DEF BeginPhase
  <2>2. step' = [id |-> step.id, incarnation |-> step.incarnation, seen |-> step.seen,
                 phases |-> Put(step.phases, nextPhase, ph), burst |-> step.burst,
                 acct |-> step.acct]
    <3>1. step = [id |-> step.id, incarnation |-> step.incarnation, seen |-> step.seen,
                  phases |-> step.phases, burst |-> step.burst, acct |-> step.acct]
      BY DEF HeldInv, StepShape
    <3> HIDE DEF ph
    <3> QED BY ONLY <2>1, <3>1
  <2>3. \A p \in DOMAIN step'.phases :
          /\ p \in DOMAIN step.phases \/ p = nextPhase
          /\ step'.phases[p] = IF p = nextPhase THEN ph ELSE step.phases[p]
    BY ONLY <2>2 DEF Put
  <2>4. \A p \in DOMAIN step.phases : p \in DOMAIN step'.phases
    BY ONLY <2>2 DEF Put
  <2>5. StepShape'
    <3>1. step' = [id |-> step'.id, incarnation |-> step'.incarnation, seen |-> step'.seen,
                   phases |-> step'.phases, burst |-> step'.burst, acct |-> step'.acct]
      BY ONLY <2>2
    <3>2. ASSUME NEW p \in DOMAIN step'.phases
          PROVE  step'.phases[p] = [cls |-> step'.phases[p].cls,
                                    group |-> step'.phases[p].group,
                                    open |-> step'.phases[p].open]
      <4>1. ph = [cls |-> ph.cls, group |-> ph.group, open |-> ph.open] OBVIOUS
      <4>2. p \in DOMAIN step.phases =>
              step.phases[p] = [cls |-> step.phases[p].cls, group |-> step.phases[p].group,
                                open |-> step.phases[p].open]
        BY DEF HeldInv, StepShape
      <4> HIDE DEF ph
      <4> QED BY ONLY <2>3, <3>2, <4>1, <4>2
    <3>3. epoch' \in Nat /\ incarnation' \in Nat /\ highestStep' \in Nat
          /\ lastClosed' \in Nat /\ lastClosed' <= highestStep'
      BY <2>1 DEF HeldInv, StepShape, authVars
    <3>4. step'.id \in Nat
      <4>1. step.id \in Nat BY DEF HeldInv, StepShape
      <4> QED BY ONLY <2>2, <4>1
    <3> QED BY ONLY <3>1, <3>2, <3>3, <3>4 DEF StepShape
  <2>6. FlowShape' BY <2>1 DEF HeldInv, FlowShape
  <2>7. OpenStepIsHeld'
    <3>1. ph.open = TRUE OBVIOUS
    <3> HIDE DEF ph
    <3>2. step'.id = step.id /\ step'.incarnation = step.incarnation BY ONLY <2>2
    <3>3. ASSUME NEW p \in DOMAIN step.phases, step.phases[p].open
          PROVE  step'.phases[p].open
      BY ONLY <2>3, <2>4, <3>1, <3>3
    <3>4. OpenStepIsHeld BY DEF HeldInv
    <3> QED BY ONLY <2>1, <2>4, <3>2, <3>3, <3>4 DEF OpenStepIsHeld, authVars
  <2> QED BY ONLY <2>5, <2>6, <2>7 DEF HeldInv
<1>3. ASSUME NEW t \in Tokens, NEW p \in 1 .. nextPhase, EndPhase(t, p) PROVE HeldInv'
  <2> DEFINE S == {i \in DOMAIN flows : flows[i].phase = p}
  <2>1. /\ p \in DOMAIN step.phases
        /\ flows' = FlowsWithout(S)
        /\ step' = [step EXCEPT !.acct = CancelledAccounting(S), !.phases[p].open = FALSE]
        /\ UNCHANGED <<authVars, highestStep, lastClosed>>
    BY <1>3 DEF EndPhase, idVars
  <2>2. step' = [id |-> step.id, incarnation |-> step.incarnation, seen |-> step.seen,
                 phases |-> [step.phases EXCEPT ![p].open = FALSE],
                 burst |-> step.burst, acct |-> CancelledAccounting(S)]
    BY <2>1 DEF HeldInv, StepShape
  <2>3. \A q \in DOMAIN step.phases : q # p => step'.phases[q] = step.phases[q]
    BY <2>2
  <2>4. /\ DOMAIN step'.phases = DOMAIN step.phases
        /\ step'.phases[p] = [step.phases[p] EXCEPT !.open = FALSE]
    <3>1. step'.phases = [step.phases EXCEPT ![p].open = FALSE] BY <2>2
    <3>2. DOMAIN step'.phases = DOMAIN step.phases BY <3>1
    <3>3. step'.phases[p] = [step.phases[p] EXCEPT !.open = FALSE] BY <2>1, <3>1
    <3> QED BY <3>2, <3>3
  <2>5. StepShape' BY <2>1, <2>2, <2>3, <2>4 DEF StepShape, HeldInv, authVars
  <2>6. \A i \in DOMAIN flows' : i \in DOMAIN flows /\ flows'[i] = flows[i] /\ flows[i].phase # p
    BY <2>1 DEF FlowsWithout
  <2>7. step'.id = step.id /\ step'.incarnation = step.incarnation BY <2>2
  <2>8. \A i \in DOMAIN flows' : /\ flows'[i].phase \in DOMAIN step'.phases
                                /\ step'.phases[flows'[i].phase].open
    BY <2>3, <2>4, <2>6 DEF OpenStepIsHeld, HeldInv
  <2>9. OpenStepIsHeld'
    BY <2>1, <2>6, <2>7, <2>8 DEF OpenStepIsHeld, HeldInv, authVars
  <2>10. FlowShape' BY <2>6 DEF FlowShape, HeldInv
  <2> QED BY <2>5, <2>9, <2>10 DEF HeldInv
<1>4. ASSUME NEW t \in Tokens, EndStep(t) PROVE HeldInv'
  <2>1. CloseStep /\ UNCHANGED <<highestStep, incarnation, epoch>>
    BY <1>4 DEF EndStep, authVars
  <2>2. incarnation' \in Nat /\ epoch' \in Nat
    BY <2>1 DEF HeldInv, StepShape
  <2> QED BY <2>1, <2>2, CloseHeld
<1> QED BY <1>1, <1>2, <1>3, <1>4 DEF Lifecycle

\* A step that only counts, books or closes flows changes nothing else the
\* invariant reads.
LEMMA BookHeld ==
  ASSUME HeldInv, NEW n, NEW a, NEW b,
         step' = [id |-> step.id, incarnation |-> step.incarnation, seen |-> n,
                  phases |-> step.phases, burst |-> b, acct |-> a],
         FlowShape',
         \A i \in DOMAIN flows' : i \in DOMAIN flows /\ flows'[i].phase = flows[i].phase,
         UNCHANGED <<authVars, highestStep, lastClosed>>
  PROVE  HeldInv'
<1>1. StepShape' BY DEF HeldInv, StepShape, authVars
<1>2. OpenStepIsHeld' BY DEF HeldInv, OpenStepIsHeld, authVars
<1> QED BY <1>1, <1>2 DEF HeldInv

LEMMA AdmittedHeld ==
  ASSUME HeldInv, NEW t, NEW p, NEW it, Admitted(t, p, it),
         UNCHANGED <<authVars, highestStep, lastClosed>>
  PROVE  HeldInv'
<1> DEFINE victims == RequestVictims(p, it)
           grant == Grant(p, it, MinRate(p, it),
                          MaxOf2(MinRate(p, it), MinOf2(MaxRate(p, it), Reach(p, it))))
           a == [CancelledAccounting(victims) EXCEPT !.admitted = @ + 1, !.active = @ + 1,
                   !.activeMin = @ + grant.min, !.bytesCommitted = @ + it.bytes]
<1>1. /\ flows' = Put(FlowsWithout(victims), nextIntent, Flow(t, it, grant))
      /\ step' = [step EXCEPT !.seen = @ + 1, !.acct = a]
      /\ InPhase(t, p)
  BY DEF Admitted
<1>2. step' = [id |-> step.id, incarnation |-> step.incarnation, seen |-> step.seen + 1,
               phases |-> step.phases, burst |-> step.burst, acct |-> a]
  <2> HIDE DEF a
  <2> QED BY <1>1 DEF HeldInv, StepShape
<1>3. \A i \in DOMAIN flows' :
        \/ i \in DOMAIN flows /\ flows'[i] = flows[i]
        \/ i = nextIntent /\ flows'[i] = Flow(t, it, grant)
  <2> HIDE DEF victims, grant
  <2> QED BY <1>1 DEF Put, FlowsWithout
<1>4. Flow(t, it, grant).phase = p BY DEF Flow, Grant
<1> HIDE DEF a, grant
<1>5. StepShape' BY <1>2 DEF HeldInv, StepShape, authVars
<1>8. FlowShape' BY <1>3 DEF HeldInv, FlowShape, Flow
<1>6. \A i \in DOMAIN flows' : /\ step'.id # 0
                              /\ flows'[i].phase \in DOMAIN step'.phases
                              /\ step'.phases[flows'[i].phase].open
  BY <1>1, <1>2, <1>3, <1>4 DEF HeldInv, OpenStepIsHeld, InPhase, InStep
<1>7. OpenStepIsHeld' BY <1>2, <1>6 DEF HeldInv, OpenStepIsHeld, authVars
<1> QED BY <1>5, <1>7, <1>8 DEF HeldInv

LEMMA RequestHeld ==
  ASSUME HeldInv, NEW t, NEW p, NEW it, RequestTraffic(t, p, it)
  PROVE  HeldInv'
<1>1. UNCHANGED <<authVars, highestStep, lastClosed>> BY DEF RequestTraffic
<1>2. CASE Unresolved(t, p)
  BY <1>1, <1>2 DEF Unresolved, HeldInv, StepShape, FlowShape, OpenStepIsHeld, authVars
<1>3. ASSUME NEW d, Refuse(d) PROVE HeldInv'
  <2>1. flows' = flows /\ step' = [step EXCEPT !.seen = @ + 1] BY <1>3 DEF Refuse
  <2>2. step' = [id |-> step.id, incarnation |-> step.incarnation, seen |-> step.seen + 1,
                 phases |-> step.phases, burst |-> step.burst, acct |-> step.acct]
    BY <2>1 DEF HeldInv, StepShape
  <2>3. FlowShape' BY <2>1 DEF HeldInv, FlowShape
  <2> QED BY <1>1, <2>1, <2>2, <2>3, BookHeld
<1>4. CASE Rejected(t, p, it) BY <1>3, <1>4 DEF Rejected
<1>5. CASE Held(t, p, it) BY <1>3, <1>5 DEF Held
<1>6. CASE Admitted(t, p, it) BY <1>1, <1>6, AdmittedHeld
<1> QED BY <1>2, <1>4, <1>5, <1>6 DEF RequestTraffic

LEMMA CompleteHeld ==
  ASSUME HeldInv, NEW t, NEW i, NEW bytes, NEW cancelled, CompleteFlow(t, i, bytes, cancelled)
  PROVE  HeldInv'
<1>1. /\ flows' = FlowsWithout({i})
      /\ UNCHANGED <<authVars, highestStep, lastClosed>>
  BY DEF CompleteFlow, idVars
<1>2. PICK a : step' = [step EXCEPT !.acct = a]
  BY DEF CompleteFlow
<1>3. step' = [id |-> step.id, incarnation |-> step.incarnation, seen |-> step.seen,
               phases |-> step.phases, burst |-> step.burst, acct |-> a]
  BY <1>2 DEF HeldInv, StepShape
<1>4. FlowShape' BY <1>1 DEF FlowsWithout, HeldInv, FlowShape
<1> QED BY <1>1, <1>3, <1>4, BookHeld DEF FlowsWithout

\* What a checkpoint burst leaves of a flow: the same flow with a smaller grant.
LEMMA BurstFlows ==
  ASSUME FlowShape, NEW t, NEW g, BeginCheckpointBurst(t, g)
  PROVE  \A i \in DOMAIN flows' :
           /\ i \in DOMAIN flows
           /\ \/ flows'[i] = flows[i]
              \/ i \in Throttled(g) /\ flows'[i] = Squeezed(flows[i], IsolationCeiling(i))
BY DEF BeginCheckpointBurst

LEMMA BurstHeld ==
  ASSUME HeldInv, NEW t, NEW g, BeginCheckpointBurst(t, g)
  PROVE  HeldInv'
<1>1. UNCHANGED <<authVars, highestStep, lastClosed>> BY DEF BeginCheckpointBurst
<1>2. PICK a, b : step' = [step EXCEPT !.burst = b, !.acct = a]
  BY DEF BeginCheckpointBurst
<1>3. step' = [id |-> step.id, incarnation |-> step.incarnation, seen |-> step.seen,
               phases |-> step.phases, burst |-> b, acct |-> a]
  BY <1>2 DEF HeldInv, StepShape
<1>4. \A i \in DOMAIN flows' :
        /\ i \in DOMAIN flows
        /\ \/ flows'[i] = flows[i]
           \/ \E c : flows'[i] = Squeezed(flows[i], c)
  BY BurstFlows DEF HeldInv
<1>5. FlowShape' /\ \A i \in DOMAIN flows' : flows'[i].phase = flows[i].phase
  BY <1>4 DEF HeldInv, FlowShape, Squeezed
<1> QED BY <1>1, <1>3, <1>4, <1>5, BookHeld

LEMMA TrafficHeld ==
  ASSUME HeldInv, Traffic
  PROVE  HeldInv'
<1>1. ASSUME NEW t, NEW i, RevalidateFlow(t, i) PROVE HeldInv'
  BY <1>1 DEF RevalidateFlow, HeldInv, StepShape, FlowShape, OpenStepIsHeld,
              authVars, ledgerVars, idVars
<1>2. ASSUME NEW t, NEW b, EndCheckpointBurst(t, b) PROVE HeldInv'
  <2>1. /\ step' = [step EXCEPT !.burst.active = FALSE] /\ flows' = flows
        /\ UNCHANGED <<authVars, highestStep, lastClosed>>
    BY <1>2 DEF EndCheckpointBurst, idVars
  <2>2. step' = [id |-> step.id, incarnation |-> step.incarnation, seen |-> step.seen,
                 phases |-> step.phases, burst |-> [step.burst EXCEPT !.active = FALSE],
                 acct |-> step.acct]
    BY <2>1 DEF HeldInv, StepShape
  <2>3. FlowShape' BY <2>1 DEF HeldInv, FlowShape
  <2> QED BY <2>1, <2>2, <2>3, BookHeld
<1> QED BY <1>1, <1>2, RequestHeld, CompleteHeld, BurstHeld DEF Traffic

LEMMA RecoveryHeld ==
  ASSUME HeldInv, Recovery
  PROVE  HeldInv'
<1>1. ASSUME NEW e, NEW expected, NEW b, NEW resume, AdmitReplacement(e, expected, b, resume)
      PROVE  HeldInv'
  <2>1. FenceOpenStep /\ UNCHANGED <<highestStep, epoch>> /\ incarnation' = incarnation + 1
    BY <1>1 DEF AdmitReplacement
  <2>2. incarnation' \in Nat /\ epoch' \in Nat BY <2>1 DEF HeldInv, StepShape
  <2> QED BY <2>1, <2>2, FenceHeld
<1>2. ASSUME NEW t, RetireIncarnation(t) PROVE HeldInv'
  <2>1. FenceOpenStep /\ UNCHANGED <<highestStep, epoch, incarnation>>
    BY <1>2 DEF RetireIncarnation
  <2>2. incarnation' \in Nat /\ epoch' \in Nat BY <2>1 DEF HeldInv, StepShape
  <2> QED BY <2>1, <2>2, FenceHeld
<1> QED BY <1>1, <1>2 DEF Recovery

LEMMA NextHeld == FabricAssumption /\ HeldInv /\ [Next]_vars => HeldInv'
<1> SUFFICES ASSUME FabricAssumption, HeldInv, [Next]_vars PROVE HeldInv'
  OBVIOUS
<1>1. CASE UNCHANGED vars
  BY <1>1 DEF vars, authVars, ledgerVars, idVars, HeldInv, StepShape, FlowShape, OpenStepIsHeld
<1>2. CASE Next
  BY <1>2, RegistrationHeld, LifecycleHeld, TrafficHeld, RecoveryHeld DEF Next
<1> QED BY <1>1, <1>2

(***************************************************************************)
(* In every behaviour a step is open only under the incarnation that holds *)
(* the job, and flows live only in its open phases (fence_open_step,       *)
(* cancel_flows_in_phase).                                                 *)
(***************************************************************************)
THEOREM HeldInvariant == FabricSpec => []HeldInv
<1>1. FabricAssumption BY FabricAssumption
<1> QED BY <1>1, InitHeld, NextHeld, PTL DEF FabricSpec

THEOREM StepIsHeld == FabricSpec => []OpenStepIsHeld
<1>1. HeldInv => OpenStepIsHeld BY DEF HeldInv
<1> QED BY <1>1, HeldInvariant, PTL

-----------------------------------------------------------------------------
(* Live flows hold authority.                                              *)

OwnersHold ==
  /\ \A i \in DOMAIN flows : flows[i].authority.epoch \in Nat
  /\ LiveFlowsHoldAuthority

AuthorityInv == HeldInv /\ OwnersHold

\* A step that grants nothing and leaves the owner of the step in place.
LEMMA SameOwner ==
  ASSUME AuthorityInv,
         \A i \in DOMAIN flows' : i \in DOMAIN flows /\ flows'[i].authority = flows[i].authority,
         UNCHANGED <<incarnation, boot, epoch>>, step'.id = step.id
  PROVE  OwnersHold'
BY DEF AuthorityInv, OwnersHold, LiveFlowsHoldAuthority

\* Fencing leaves no flow whose owner could be wrong.
LEMMA FenceLeavesNone ==
  ASSUME HeldInv, FenceOpenStep
  PROVE  DOMAIN flows' = {}
BY DEF FenceOpenStep, CloseStep, HeldInv, OpenStepIsHeld

LEMMA RegistrationAuthority ==
  ASSUME FabricAssumption, AuthorityInv, Registration
  PROVE  OwnersHold'
<1>1. ASSUME NEW S, Invalidate(S), UNCHANGED authVars PROVE OwnersHold'
  <2>1. step'.id = step.id
    BY <1>1 DEF Invalidate, AuthorityInv, HeldInv, StepShape
  <2> QED BY <1>1, <2>1, SameOwner DEF Invalidate, FlowsWithout, authVars
<1>2. ASSUME NEW k, ApplyPolicy(k) PROVE OwnersHold'
  BY <1>1, <1>2 DEF ApplyPolicy
<1>3. ASSUME NEW e \in 1 .. MaxEpoch, RebaseEpoch(e) PROVE OwnersHold'
  <2>1. /\ e > epoch /\ epoch' = e /\ epoch \in Nat /\ e \in Nat
        /\ UNCHANGED <<incarnation, boot, flows, step>>
    <3>1. e > epoch /\ epoch' = e /\ UNCHANGED <<incarnation, boot, flows, step>>
      BY ONLY <1>3 DEF RebaseEpoch, ledgerVars
    <3>2. epoch \in Nat BY ONLY AuthorityInv DEF AuthorityInv, HeldInv, StepShape
    <3>3. MaxEpoch \in Nat BY ONLY FabricAssumption DEF FabricAssumption
    <3> QED BY <3>1, <3>2, <3>3
  <2>2. ASSUME NEW i \in DOMAIN flows, flows[i].authority.epoch <= epoch,
               flows[i].authority.epoch \in Nat
        PROVE  flows[i].authority.epoch <= e
    BY <2>1, <2>2
  <2> QED BY <2>1, <2>2 DEF AuthorityInv, OwnersHold, LiveFlowsHoldAuthority
<1>4. ASSUME NEW t, NEW g, RegisterGroup(t, g) PROVE OwnersHold'
  BY <1>4, SameOwner DEF RegisterGroup, authVars
<1>5. ASSUME NEW t, NEW cap, PublishTopology(t, cap) PROVE OwnersHold'
  BY <1>1, <1>5 DEF PublishTopology
<1>6. ASSUME NEW t, RetireJob(t) PROVE OwnersHold'
  BY <1>6, FenceLeavesNone DEF RetireJob, AuthorityInv, OwnersHold, LiveFlowsHoldAuthority
<1> QED BY <1>2, <1>3, <1>4, <1>5, <1>6 DEF Registration

LEMMA LifecycleAuthority ==
  ASSUME AuthorityInv, Lifecycle
  PROVE  OwnersHold'
<1>1. ASSUME NEW t, NEW s, BeginStep(t, s) PROVE OwnersHold'
  BY <1>1 DEF BeginStep, AuthorityInv, HeldInv, OpenStepIsHeld, OwnersHold, LiveFlowsHoldAuthority
<1>2. ASSUME NEW t, NEW cls, NEW g, BeginPhase(t, cls, g) PROVE OwnersHold'
  <2>1. step'.id = step.id
    BY <1>2 DEF BeginPhase, AuthorityInv, HeldInv, StepShape
  <2> QED BY <1>2, <2>1, SameOwner DEF BeginPhase, authVars
<1>3. ASSUME NEW t, NEW p, EndPhase(t, p) PROVE OwnersHold'
  <2>1. step'.id = step.id
    BY <1>3 DEF EndPhase, AuthorityInv, HeldInv, StepShape
  <2> QED BY <1>3, <2>1, SameOwner DEF EndPhase, FlowsWithout, authVars
<1>4. ASSUME NEW t, EndStep(t) PROVE OwnersHold'
  BY <1>4 DEF EndStep, CloseStep, OwnersHold, LiveFlowsHoldAuthority
<1> QED BY <1>1, <1>2, <1>3, <1>4 DEF Lifecycle

\* The only grant of the fabric is made to a token that resolves.
LEMMA AdmittedAuthority ==
  ASSUME AuthorityInv, NEW t \in Tokens, NEW p, NEW it, Admitted(t, p, it), UNCHANGED authVars
  PROVE  OwnersHold'
<1> DEFINE victims == RequestVictims(p, it)
           grant == Grant(p, it, MinRate(p, it),
                          MaxOf2(MinRate(p, it), MinOf2(MaxRate(p, it), Reach(p, it))))
<1>1. /\ flows' = Put(FlowsWithout(victims), nextIntent, Flow(t, it, grant))
      /\ step'.id = step.id
  BY DEF Admitted, AuthorityInv, HeldInv, StepShape
<1>2. \A i \in DOMAIN flows' :
        \/ i \in DOMAIN flows /\ flows'[i] = flows[i]
        \/ flows'[i] = Flow(t, it, grant)
  <2> HIDE DEF victims, grant
  <2> QED BY <1>1 DEF Put, FlowsWithout
<1>3. Flow(t, it, grant).authority = t BY DEF Flow
<1>4. /\ t.incarnation = incarnation /\ t.boot = boot /\ t.step = step.id
      /\ epoch # 0 => t.epoch = epoch
  BY DEF Admitted, InPhase, InStep, Authorised
<1>5. epoch \in Nat BY DEF AuthorityInv, HeldInv, StepShape
<1>6. t.epoch \in Nat /\ t.epoch <= epoch BY <1>5 DEF Tokens, Recent
<1> HIDE DEF victims, grant
<1> QED BY <1>1, <1>2, <1>3, <1>4, <1>6
        DEF AuthorityInv, OwnersHold, LiveFlowsHoldAuthority, authVars

LEMMA TrafficAuthority ==
  ASSUME AuthorityInv, Traffic
  PROVE  OwnersHold'
<1>1. ASSUME NEW t \in Tokens, NEW p, NEW it, RequestTraffic(t, p, it) PROVE OwnersHold'
  <2>1. UNCHANGED authVars BY <1>1 DEF RequestTraffic
  <2>2. CASE Unresolved(t, p)
    BY <2>1, <2>2, SameOwner DEF Unresolved, authVars
  <2>3. ASSUME NEW d, Refuse(d) PROVE OwnersHold'
    <3>1. step'.id = step.id BY <2>3 DEF Refuse, AuthorityInv, HeldInv, StepShape
    <3> QED BY <2>1, <2>3, <3>1, SameOwner DEF Refuse, authVars
  <2>4. CASE Rejected(t, p, it) BY <2>3, <2>4 DEF Rejected
  <2>5. CASE Held(t, p, it) BY <2>3, <2>5 DEF Held
  <2>6. CASE Admitted(t, p, it) BY <2>1, <2>6, AdmittedAuthority
  <2> QED BY <1>1, <2>2, <2>4, <2>5, <2>6 DEF RequestTraffic
<1>2. ASSUME NEW t, NEW i, NEW bytes, NEW cancelled, CompleteFlow(t, i, bytes, cancelled)
      PROVE  OwnersHold'
  <2>1. PICK a : step' = [step EXCEPT !.acct = a] BY <1>2 DEF CompleteFlow
  <2>2. step'.id = step.id BY <2>1 DEF AuthorityInv, HeldInv, StepShape
  <2> QED BY <1>2, <2>2, SameOwner DEF CompleteFlow, FlowsWithout, authVars
<1>3. ASSUME NEW t, NEW i, RevalidateFlow(t, i) PROVE OwnersHold'
  BY <1>3, SameOwner DEF RevalidateFlow, authVars, ledgerVars
<1>4. ASSUME NEW t, NEW g, BeginCheckpointBurst(t, g) PROVE OwnersHold'
  <2>1. PICK a, b : step' = [step EXCEPT !.burst = b, !.acct = a]
    BY <1>4 DEF BeginCheckpointBurst
  <2>2. step'.id = step.id BY <2>1 DEF AuthorityInv, HeldInv, StepShape
  <2>3. UNCHANGED authVars BY <1>4 DEF BeginCheckpointBurst
  <2>4. \A i \in DOMAIN flows' :
          /\ i \in DOMAIN flows
          /\ flows'[i] = flows[i] \/ \E c : flows'[i] = Squeezed(flows[i], c)
    BY <1>4, BurstFlows DEF AuthorityInv, HeldInv
  <2>5. \A i \in DOMAIN flows' : flows'[i].authority = flows[i].authority
    BY <2>4 DEF AuthorityInv, HeldInv, FlowShape, Squeezed
  <2> QED BY <2>2, <2>3, <2>4, <2>5, SameOwner DEF authVars
<1>5. ASSUME NEW t, NEW b, EndCheckpointBurst(t, b) PROVE OwnersHold'
  <2>1. step'.id = step.id
    BY <1>5 DEF EndCheckpointBurst, AuthorityInv, HeldInv, StepShape
  <2> QED BY <1>5, <2>1, SameOwner DEF EndCheckpointBurst, authVars
<1> QED BY <1>1, <1>2, <1>3, <1>4, <1>5 DEF Traffic

LEMMA RecoveryAuthority ==
  ASSUME AuthorityInv, Recovery
  PROVE  OwnersHold'
<1>1. FenceOpenStep BY DEF Recovery, AdmitReplacement, RetireIncarnation
<1> QED BY <1>1, FenceLeavesNone DEF AuthorityInv, OwnersHold, LiveFlowsHoldAuthority

LEMMA NextAuthority == FabricAssumption /\ AuthorityInv /\ [Next]_vars => AuthorityInv'
<1> SUFFICES ASSUME FabricAssumption, AuthorityInv, [Next]_vars PROVE AuthorityInv'
  OBVIOUS
<1>1. HeldInv' BY NextHeld DEF AuthorityInv
<1>2. ASSUME UNCHANGED vars PROVE OwnersHold'
  BY <1>2 DEF vars, authVars, ledgerVars, AuthorityInv, OwnersHold, LiveFlowsHoldAuthority
<1>3. ASSUME Next PROVE OwnersHold'
  BY <1>3, RegistrationAuthority, LifecycleAuthority, TrafficAuthority, RecoveryAuthority
     DEF Next
<1> QED BY <1>1, <1>2, <1>3 DEF AuthorityInv

(***************************************************************************)
(* Every live flow was granted to the incarnation, boot identity and step  *)
(* that still hold the job: a stale token never consumes capacity.         *)
(***************************************************************************)
THEOREM AuthorityInvariant == FabricSpec => []LiveFlowsHoldAuthority
<1>1. Init => AuthorityInv
  BY InitHeld DEF Init, AuthorityInv, OwnersHold, LiveFlowsHoldAuthority
<1>2. AuthorityInv => LiveFlowsHoldAuthority BY DEF AuthorityInv, OwnersHold
<1>3. FabricAssumption BY FabricAssumption
<1> QED BY <1>1, <1>2, <1>3, NextAuthority, PTL DEF FabricSpec

-----------------------------------------------------------------------------
(* A flow is credited once.                                                *)

\* Ids are minted upwards, and who has a receipt is not live.
CreditInv ==
  /\ nextIntent \in Nat
  /\ \A i \in DOMAIN flows \cup DOMAIN receipts : i \in Nat /\ i < nextIntent
  /\ DOMAIN receipts \cap DOMAIN flows = {}

ReceiptsFinal ==
  /\ \A i \in DOMAIN receipts : i \in DOMAIN receipts' /\ receipts'[i] = receipts[i]
  /\ DOMAIN receipts' \cap DOMAIN flows' = {}

Credited == CreditInv' /\ ReceiptsFinal

\* Whatever closes the flows of S, each gets its one receipt.
LEMMA ClosedOnce ==
  ASSUME CreditInv, NEW S, S \subseteq DOMAIN flows,
         receipts' = CancelledReceipts(S), DOMAIN flows' = DOMAIN flows \ S,
         nextIntent' = nextIntent
  PROVE  Credited
<1>1. DOMAIN receipts' = S \cup DOMAIN receipts BY DEF CancelledReceipts
<1>2. \A i \in DOMAIN receipts : receipts'[i] = receipts[i]
  <2>1. \A i \in DOMAIN receipts : i \notin S BY DEF CreditInv
  <2> QED BY <2>1 DEF CancelledReceipts
<1> QED BY <1>1, <1>2 DEF Credited, CreditInv, ReceiptsFinal

LEMMA NothingClosed ==
  ASSUME CreditInv, receipts' = receipts, DOMAIN flows' = DOMAIN flows, nextIntent' = nextIntent
  PROVE  Credited
BY DEF Credited, CreditInv, ReceiptsFinal

LEMMA InvalidateCredits ==
  ASSUME CreditInv, NEW S, S \subseteq DOMAIN flows, Invalidate(S), nextIntent' = nextIntent
  PROVE  Credited
BY ClosedOnce DEF Invalidate, FlowsWithout

LEMMA CloseCredits ==
  ASSUME CreditInv, CloseStep, nextIntent' = nextIntent
  PROVE  Credited
<1>1. receipts' = CancelledReceipts(DOMAIN flows) /\ DOMAIN flows' = DOMAIN flows \ DOMAIN flows
  BY DEF CloseStep
<1> QED BY <1>1, ClosedOnce

LEMMA FenceCredits ==
  ASSUME CreditInv, FenceOpenStep, nextIntent' = nextIntent
  PROVE  Credited
BY CloseCredits, NothingClosed DEF FenceOpenStep

LEMMA RegistrationCredits ==
  ASSUME CreditInv, Registration
  PROVE  Credited
<1>1. ASSUME NEW k, ApplyPolicy(k) PROVE Credited
  BY <1>1, InvalidateCredits DEF ApplyPolicy, idVars, Invalidated
<1>2. ASSUME NEW e, RebaseEpoch(e) PROVE Credited
  BY <1>2, NothingClosed DEF RebaseEpoch, ledgerVars, idVars, recordVars
<1>3. ASSUME NEW t, NEW g, RegisterGroup(t, g) PROVE Credited
  BY <1>3, NothingClosed DEF RegisterGroup, idVars, recordVars
<1>4. ASSUME NEW t, NEW cap, PublishTopology(t, cap) PROVE Credited
  BY <1>4, InvalidateCredits DEF PublishTopology, idVars, Invalidated
<1>5. ASSUME NEW t, RetireJob(t) PROVE Credited
  BY <1>5, FenceCredits DEF RetireJob
<1> QED BY <1>1, <1>2, <1>3, <1>4, <1>5 DEF Registration

LEMMA LifecycleCredits ==
  ASSUME CreditInv, Lifecycle
  PROVE  Credited
<1>1. ASSUME NEW t, NEW s, BeginStep(t, s) PROVE Credited
  BY <1>1, NothingClosed DEF BeginStep, recordVars
<1>2. ASSUME NEW t, NEW cls, NEW g, BeginPhase(t, cls, g) PROVE Credited
  BY <1>2, NothingClosed DEF BeginPhase, recordVars
<1>3. ASSUME NEW t, NEW p, EndPhase(t, p) PROVE Credited
  <2> DEFINE S == {i \in DOMAIN flows : flows[i].phase = p}
  <2>1. /\ S \subseteq DOMAIN flows /\ receipts' = CancelledReceipts(S)
        /\ DOMAIN flows' = DOMAIN flows \ S /\ nextIntent' = nextIntent
    BY <1>3 DEF EndPhase, FlowsWithout, idVars
  <2> QED BY <2>1, ClosedOnce
<1>4. ASSUME NEW t, EndStep(t) PROVE Credited
  BY <1>4, CloseCredits DEF EndStep
<1> QED BY <1>1, <1>2, <1>3, <1>4 DEF Lifecycle

\* A new flow has an id no receipt was written for.
LEMMA RequestCredits ==
  ASSUME CreditInv, NEW t, NEW p, NEW it, RequestTraffic(t, p, it)
  PROVE  Credited
<1>1. nextIntent' = nextIntent + 1 BY DEF RequestTraffic
<1>2. CASE receipts' = receipts /\ flows' = flows
  BY <1>1, <1>2 DEF Credited, CreditInv, ReceiptsFinal
<1>3. CASE Admitted(t, p, it)
  <2> DEFINE victims == RequestVictims(p, it)
  <2>1. victims \subseteq DOMAIN flows
    BY DEF RequestVictims, Victims, Displaceable, FlowsOf
  <2>2. PICK f : flows' = Put(FlowsWithout(victims), nextIntent, f)
    BY <1>3 DEF Admitted
  <2>3. receipts' = CancelledReceipts(victims) BY <1>3 DEF Admitted
  <2> HIDE DEF victims
  <2>4. DOMAIN flows' = (DOMAIN flows \ victims) \cup {nextIntent}
    BY <2>2 DEF Put, FlowsWithout
  <2>5. DOMAIN receipts' = victims \cup DOMAIN receipts BY <2>3 DEF CancelledReceipts
  <2>6. \A i \in DOMAIN receipts : i \notin victims BY <2>1 DEF CreditInv
  <2>7. \A i \in DOMAIN receipts : receipts'[i] = receipts[i]
    BY <2>3, <2>6 DEF CancelledReceipts
  <2>8. nextIntent \notin DOMAIN receipts' BY <2>1, <2>5 DEF CreditInv
  <2> QED BY <1>1, <2>1, <2>4, <2>5, <2>7, <2>8 DEF Credited, CreditInv, ReceiptsFinal
<1> QED BY <1>2, <1>3 DEF RequestTraffic, Unresolved, Rejected, Held, Refuse

LEMMA TrafficCredits ==
  ASSUME CreditInv, Traffic
  PROVE  Credited
<1>1. ASSUME NEW t, NEW i, NEW bytes, NEW cancelled, CompleteFlow(t, i, bytes, cancelled)
      PROVE  Credited
  <2>1. PICK r : receipts' = Put(receipts, i, r) BY <1>1 DEF CompleteFlow
  <2>2. i \in DOMAIN flows /\ DOMAIN flows' = DOMAIN flows \ {i} /\ nextIntent' = nextIntent
    BY <1>1 DEF CompleteFlow, FlowsWithout, idVars
  <2>3. DOMAIN receipts' = DOMAIN receipts \cup {i} BY <2>1 DEF Put
  <2>4. \A j \in DOMAIN receipts : receipts'[j] = receipts[j]
    BY <2>1, <2>2 DEF Put, CreditInv
  <2> QED BY <2>2, <2>3, <2>4 DEF Credited, CreditInv, ReceiptsFinal
<1>2. ASSUME NEW t, NEW i, RevalidateFlow(t, i) PROVE Credited
  BY <1>2, NothingClosed DEF RevalidateFlow, ledgerVars, idVars
<1>3. ASSUME NEW t, NEW g, BeginCheckpointBurst(t, g) PROVE Credited
  <2>1. /\ Displaced(g) \subseteq DOMAIN flows /\ receipts' = CancelledReceipts(Displaced(g))
        /\ DOMAIN flows' = DOMAIN flows \ Displaced(g) /\ nextIntent' = nextIntent
    BY <1>3 DEF BeginCheckpointBurst, Displaced, Exposed, FlowsOf
  <2> QED BY <2>1, ClosedOnce
<1>4. ASSUME NEW t, NEW b, EndCheckpointBurst(t, b) PROVE Credited
  BY <1>4, NothingClosed DEF EndCheckpointBurst, idVars, recordVars
<1> QED BY <1>1, <1>2, <1>3, <1>4, RequestCredits DEF Traffic

LEMMA RecoveryCredits ==
  ASSUME CreditInv, Recovery
  PROVE  Credited
<1>1. FenceOpenStep /\ nextIntent' = nextIntent
  BY DEF Recovery, AdmitReplacement, RetireIncarnation
<1> QED BY <1>1, FenceCredits

LEMMA NextCredits == CreditInv /\ [Next]_vars => Credited
<1> SUFFICES ASSUME CreditInv, [Next]_vars PROVE Credited
  OBVIOUS
<1>1. CASE UNCHANGED vars
  BY <1>1, NothingClosed DEF vars, ledgerVars, idVars, recordVars
<1>2. CASE Next
  BY <1>2, RegistrationCredits, LifecycleCredits, TrafficCredits, RecoveryCredits DEF Next
<1> QED BY <1>1, <1>2

(***************************************************************************)
(* The receipt of a closed intent is final and the intent is never live    *)
(* again: no flow is credited twice (complete_flow, record_receipt).       *)
(***************************************************************************)
THEOREM FlowsAreCreditedOnce == FabricSpec => CreditedOnce
<1>1. Init => CreditInv BY DEF Init, CreditInv
<1>2. CreditInv /\ [Next]_vars => CreditInv' BY NextCredits DEF Credited
<1>3. CreditInv /\ [Next]_vars =>
        [/\ \A i \in DOMAIN receipts : i \in DOMAIN receipts' /\ receipts'[i] = receipts[i]
         /\ DOMAIN receipts' \cap DOMAIN flows' = {}]_vars
  BY NextCredits DEF Credited, ReceiptsFinal
<1> QED BY <1>1, <1>2, <1>3, PTL DEF FabricSpec, CreditedOnce

-----------------------------------------------------------------------------
(* Flows keep the class the policy in force gives their phase.             *)

\* Phase ids are minted upwards: a new phase takes no live flow over.
MatchInv ==
  /\ nextPhase \in Nat
  /\ \A p \in DOMAIN step.phases : p \in Nat /\ p < nextPhase
  /\ FlowsMatchPolicy

\* A step that grants nothing and leaves the classes of the phases as they are.
LEMMA SameClasses ==
  ASSUME HeldInv, MatchInv, policyGen' = policyGen, nextPhase' = nextPhase,
         \A i \in DOMAIN flows' : /\ i \in DOMAIN flows
                                  /\ flows'[i].phase = flows[i].phase
                                  /\ flows'[i].class = flows[i].class,
         DOMAIN step'.phases = DOMAIN step.phases,
         \A p \in DOMAIN step.phases : step'.phases[p].cls = step.phases[p].cls
  PROVE  MatchInv'
BY DEF HeldInv, OpenStepIsHeld, MatchInv, FlowsMatchPolicy, ClassOf, Doc

\* Without a step there is nothing to match.
LEMMA ClosedMatches ==
  ASSUME MatchInv, CloseStep, nextPhase' = nextPhase
  PROVE  MatchInv'
BY DEF CloseStep, NoStep, MatchInv, FlowsMatchPolicy

LEMMA FenceMatches ==
  ASSUME HeldInv, MatchInv, FenceOpenStep, nextPhase' = nextPhase, policyGen' = policyGen
  PROVE  MatchInv'
BY ClosedMatches, SameClasses DEF FenceOpenStep

LEMMA RegistrationMatches ==
  ASSUME HeldInv, MatchInv, Registration
  PROVE  MatchInv'
<1>1. ASSUME NEW k, ApplyPolicy(k) PROVE MatchInv'
  <2> DEFINE S == Invalidated(Policies[k])
  <2>1. /\ flows' = FlowsWithout(S) /\ policyGen' = k /\ nextPhase' = nextPhase
        /\ step' = [step EXCEPT !.acct = CancelledAccounting(S)]
    BY <1>1 DEF ApplyPolicy, Invalidate, idVars
  <2>2. step'.phases = step.phases BY <2>1 DEF HeldInv, StepShape
  <2>3. \A i \in DOMAIN flows' : /\ i \in DOMAIN flows /\ i \notin S /\ flows'[i] = flows[i]
    BY <2>1 DEF FlowsWithout
  <2>4. \A i \in DOMAIN flows \ S :
          Policies[k].classOf[step.phases[flows[i].phase].cls] = flows[i].class
    BY DEF Invalidated, Unsafe
  <2> HIDE DEF S
  <2> QED BY <2>1, <2>2, <2>3, <2>4 DEF MatchInv, FlowsMatchPolicy, ClassOf, Doc
<1>2. ASSUME NEW e, RebaseEpoch(e) PROVE MatchInv'
  BY <1>2, SameClasses DEF RebaseEpoch, configVars, ledgerVars, idVars
<1>3. ASSUME NEW t, NEW g, RegisterGroup(t, g) PROVE MatchInv'
  BY <1>3, SameClasses DEF RegisterGroup, idVars
<1>4. ASSUME NEW t, NEW cap, PublishTopology(t, cap) PROVE MatchInv'
  <2> DEFINE S == Invalidated(Doc)
  <2>1. /\ flows' = FlowsWithout(S) /\ policyGen' = policyGen /\ nextPhase' = nextPhase
        /\ step' = [step EXCEPT !.acct = CancelledAccounting(S)]
    BY <1>4 DEF PublishTopology, Invalidate, idVars
  <2>2. step'.phases = step.phases BY <2>1 DEF HeldInv, StepShape
  <2> HIDE DEF S
  <2> QED BY <2>1, <2>2, SameClasses DEF FlowsWithout
<1>5. ASSUME NEW t, RetireJob(t) PROVE MatchInv'
  BY <1>5, FenceMatches DEF RetireJob, configVars
<1> QED BY <1>1, <1>2, <1>3, <1>4, <1>5 DEF Registration

LEMMA LifecycleMatches ==
  ASSUME HeldInv, MatchInv, Lifecycle
  PROVE  MatchInv'
<1>1. ASSUME NEW t, NEW s, BeginStep(t, s) PROVE MatchInv'
  <2>1. step'.phases = <<>> /\ DOMAIN flows' = {} /\ nextPhase' = nextPhase
    BY <1>1 DEF BeginStep, NoStep, HeldInv, OpenStepIsHeld
  <2> QED BY <2>1 DEF MatchInv, FlowsMatchPolicy
<1>2. ASSUME NEW t, NEW cls, NEW g, BeginPhase(t, cls, g) PROVE MatchInv'
  <2>1. PICK f : step' = [step EXCEPT !.phases = Put(@, nextPhase, f)]
    BY <1>2 DEF BeginPhase
  <2>2. flows' = flows /\ policyGen' = policyGen /\ nextPhase' = nextPhase + 1
    BY <1>2 DEF BeginPhase, configVars
  <2>3. step'.phases = Put(step.phases, nextPhase, f) BY <2>1 DEF HeldInv, StepShape
  <2>4. /\ DOMAIN step'.phases = DOMAIN step.phases \cup {nextPhase}
        /\ \A p \in DOMAIN step.phases : step'.phases[p] = step.phases[p]
    BY <2>3 DEF Put, MatchInv
  <2>5. FlowsMatchPolicy'
    BY <2>2, <2>4 DEF HeldInv, OpenStepIsHeld, MatchInv, FlowsMatchPolicy, ClassOf, Doc
  <2> QED BY <2>2, <2>4, <2>5 DEF MatchInv
<1>3. ASSUME NEW t, NEW p, EndPhase(t, p) PROVE MatchInv'
  <2> DEFINE S == {i \in DOMAIN flows : flows[i].phase = p}
  <2>1. /\ p \in DOMAIN step.phases
        /\ flows' = FlowsWithout(S) /\ policyGen' = policyGen /\ nextPhase' = nextPhase
        /\ step' = [step EXCEPT !.acct = CancelledAccounting(S), !.phases[p].open = FALSE]
    BY <1>3 DEF EndPhase, configVars, idVars
  <2>2. step'.phases = [step.phases EXCEPT ![p].open = FALSE]
    <3>1. step' = [id |-> step.id, incarnation |-> step.incarnation, seen |-> step.seen,
                   phases |-> [step.phases EXCEPT ![p].open = FALSE],
                   burst |-> step.burst, acct |-> CancelledAccounting(S)]
      BY <2>1 DEF HeldInv, StepShape
    <3> QED BY <3>1
  <2> HIDE DEF S
  <2>3. /\ DOMAIN step'.phases = DOMAIN step.phases
        /\ \A q \in DOMAIN step.phases : q # p => step'.phases[q] = step.phases[q]
        /\ step'.phases[p] = [step.phases[p] EXCEPT !.open = FALSE]
    BY <2>1, <2>2
  <2>4. step'.phases[p].cls = step.phases[p].cls
    BY <2>1, <2>3 DEF HeldInv, StepShape
  <2>5. \A q \in DOMAIN step.phases : step'.phases[q].cls = step.phases[q].cls
    BY <2>3, <2>4
  <2> QED BY <2>1, <2>3, <2>5, SameClasses DEF FlowsWithout
<1>4. ASSUME NEW t, EndStep(t) PROVE MatchInv'
  BY <1>4, ClosedMatches DEF EndStep
<1> QED BY <1>1, <1>2, <1>3, <1>4 DEF Lifecycle

\* A grant has the class of its phase from the start.
LEMMA AdmittedMatches ==
  ASSUME HeldInv, MatchInv, NEW t, NEW p, NEW it, Admitted(t, p, it),
         policyGen' = policyGen, nextPhase' = nextPhase
  PROVE  MatchInv'
<1> DEFINE victims == RequestVictims(p, it)
           grant == Grant(p, it, MinRate(p, it),
                          MaxOf2(MinRate(p, it), MinOf2(MaxRate(p, it), Reach(p, it))))
<1>1. flows' = Put(FlowsWithout(victims), nextIntent, Flow(t, it, grant))
  BY DEF Admitted
<1>2. step'.phases = step.phases
  <2>1. PICK n, a : step' = [step EXCEPT !.seen = n, !.acct = a]
    BY DEF Admitted
  <2> QED BY <2>1 DEF HeldInv, StepShape
<1>3. Flow(t, it, grant).phase = p /\ Flow(t, it, grant).class = ClassOf(p)
  BY DEF Flow, Grant
<1> HIDE DEF victims, grant
<1>4. \A i \in DOMAIN flows' :
        \/ i \in DOMAIN flows /\ flows'[i] = flows[i]
        \/ flows'[i] = Flow(t, it, grant)
  BY <1>1 DEF Put, FlowsWithout
<1> QED BY <1>2, <1>3, <1>4 DEF MatchInv, FlowsMatchPolicy, ClassOf, Doc

LEMMA TrafficMatches ==
  ASSUME HeldInv, MatchInv, Traffic
  PROVE  MatchInv'
<1>0. policyGen' = policyGen /\ nextPhase' = nextPhase BY TrafficKeeps DEF TrafficKept
<1>1. ASSUME NEW t, NEW p, NEW it, RequestTraffic(t, p, it) PROVE MatchInv'
  <2>1. ASSUME NEW d, Refuse(d) PROVE MatchInv'
    <3>1. step'.phases = step.phases BY <2>1 DEF Refuse, HeldInv, StepShape
    <3> QED BY <1>0, <2>1, <3>1, SameClasses DEF Refuse
  <2>2. CASE Unresolved(t, p) BY <1>0, <2>2, SameClasses DEF Unresolved
  <2>3. CASE Rejected(t, p, it) BY <2>1, <2>3 DEF Rejected
  <2>4. CASE Held(t, p, it) BY <2>1, <2>4 DEF Held
  <2>5. CASE Admitted(t, p, it) BY <1>0, <2>5, AdmittedMatches
  <2> QED BY <1>1, <2>2, <2>3, <2>4, <2>5 DEF RequestTraffic
<1>2. ASSUME NEW t, NEW i, NEW bytes, NEW cancelled, CompleteFlow(t, i, bytes, cancelled)
      PROVE  MatchInv'
  <2>1. PICK a : step' = [step EXCEPT !.acct = a] BY <1>2 DEF CompleteFlow
  <2>2. step'.phases = step.phases BY <2>1 DEF HeldInv, StepShape
  <2> QED BY <1>0, <1>2, <2>2, SameClasses DEF CompleteFlow, FlowsWithout
<1>3. ASSUME NEW t, NEW i, RevalidateFlow(t, i) PROVE MatchInv'
  BY <1>0, <1>3, SameClasses DEF RevalidateFlow, ledgerVars
<1>4. ASSUME NEW t, NEW g, BeginCheckpointBurst(t, g) PROVE MatchInv'
  <2>1. PICK a, b : step' = [step EXCEPT !.burst = b, !.acct = a]
    BY <1>4 DEF BeginCheckpointBurst
  <2>2. step'.phases = step.phases BY <2>1 DEF HeldInv, StepShape
  <2>3. \A i \in DOMAIN flows' :
          /\ i \in DOMAIN flows
          /\ flows'[i] = flows[i] \/ \E c : flows'[i] = Squeezed(flows[i], c)
    BY <1>4, BurstFlows DEF HeldInv
  <2>4. \A i \in DOMAIN flows' :
          flows'[i].phase = flows[i].phase /\ flows'[i].class = flows[i].class
    BY <2>3 DEF HeldInv, FlowShape, Squeezed
  <2> QED BY <1>0, <2>2, <2>3, <2>4, SameClasses
<1>5. ASSUME NEW t, NEW b, EndCheckpointBurst(t, b) PROVE MatchInv'
  <2>1. step'.phases = step.phases BY <1>5 DEF EndCheckpointBurst, HeldInv, StepShape
  <2> QED BY <1>0, <1>5, <2>1, SameClasses DEF EndCheckpointBurst
<1> QED BY <1>1, <1>2, <1>3, <1>4, <1>5 DEF Traffic

LEMMA RecoveryMatches ==
  ASSUME HeldInv, MatchInv, Recovery
  PROVE  MatchInv'
<1>1. FenceOpenStep /\ nextPhase' = nextPhase /\ policyGen' = policyGen
  BY DEF Recovery, AdmitReplacement, RetireIncarnation, configVars
<1> QED BY <1>1, FenceMatches

LEMMA NextMatches == HeldInv /\ MatchInv /\ [Next]_vars => MatchInv'
<1> SUFFICES ASSUME HeldInv, MatchInv, [Next]_vars PROVE MatchInv'
  OBVIOUS
<1>1. CASE UNCHANGED vars
  BY <1>1, SameClasses DEF vars, configVars, ledgerVars, idVars
<1>2. CASE Next
  BY <1>2, RegistrationMatches, LifecycleMatches, TrafficMatches, RecoveryMatches DEF Next
<1> QED BY <1>1, <1>2

(***************************************************************************)
(* Under every sequence of policies, strict or not, a live flow has the    *)
(* class that the policy in force gives its phase (decisions.md rule 7,    *)
(* invalidate_for_generation_change).                                      *)
(***************************************************************************)
THEOREM ClassesFollowPolicy == FabricSpec => []FlowsMatchPolicy
<1>1. Init => MatchInv BY DEF Init, NoStep, MatchInv, FlowsMatchPolicy
<1>2. MatchInv => FlowsMatchPolicy BY DEF MatchInv
<1> QED BY <1>1, <1>2, NextMatches, HeldInvariant, PTL DEF FabricSpec

-----------------------------------------------------------------------------
(* Steps only move forward.                                                *)

\* The reports kept are a sequence in the order of the steps they close.
Ordered(h, last) ==
  /\ \E R : h \in Seq(R)
  /\ \A k \in 1 .. Len(h) : h[k].step \in Nat /\ h[k].step <= last
  /\ \A k \in 1 .. Len(h) : \A j \in 1 .. k - 1 : h[j].step < h[k].step

HistoryInv == lastClosed \in Nat /\ Ordered(history, lastClosed)

StepAdvances ==
  /\ step'.id \notin {0, step.id} => step.id = 0 /\ step'.id > highestStep
  /\ \A k \in DOMAIN history' : \A j \in 1 .. k - 1 : history'[j].step < history'[k].step
  /\ lastClosed' # lastClosed => lastClosed' > lastClosed

Advanced == HistoryInv' /\ StepAdvances

\* A later report may follow, and the oldest ones may be forgotten.
LEMMA AppendOrdered ==
  ASSUME NEW h, NEW last \in Nat, Ordered(h, last), NEW r, r.step \in Nat, last < r.step
  PROVE  Ordered(Append(h, r), r.step)
<1>1. PICK R : h \in Seq(R) BY DEF Ordered
<1>2. h \in Seq(R \cup {r}) BY <1>1
<1>3. Append(h, r) \in Seq(R \cup {r}) /\ Len(Append(h, r)) = Len(h) + 1 /\ Len(h) \in Nat
  BY <1>2
<1>4. \A k \in 1 .. Len(h) : Append(h, r)[k] = h[k] BY <1>2
<1>5. Append(h, r)[Len(h) + 1] = r BY <1>2
<1>6. \A k \in 1 .. Len(h) + 1 : k \in 1 .. Len(h) \/ k = Len(h) + 1 BY <1>3
<1>7. \A k \in 1 .. Len(h) : h[k].step \in Nat /\ h[k].step <= last BY DEF Ordered
<1>8. \A k \in 1 .. Len(h) + 1 :
        Append(h, r)[k].step \in Nat /\ Append(h, r)[k].step <= r.step
  BY <1>3, <1>4, <1>5, <1>6, <1>7
<1>9. ASSUME NEW k \in 1 .. Len(h) + 1, NEW j \in 1 .. k - 1
      PROVE  Append(h, r)[j].step < Append(h, r)[k].step
  <2>1. CASE k \in 1 .. Len(h)
    BY <1>3, <1>4, <2>1 DEF Ordered
  <2>2. CASE k = Len(h) + 1
    <3>1. j \in 1 .. Len(h) BY <1>3, <2>2
    <3>2. h[j].step \in Nat /\ h[j].step <= last BY <1>7, <3>1
    <3> QED BY <1>4, <1>5, <2>2, <3>1, <3>2
  <2> QED BY <1>6, <2>1, <2>2
<1> QED BY <1>3, <1>8, <1>9 DEF Ordered

LEMMA SuffixOrdered ==
  ASSUME NEW h, NEW last \in Nat, Ordered(h, last), NEW n \in Nat, n < Len(h), n # 0
  PROVE  Ordered(SubSeq(h, Len(h) - n + 1, Len(h)), last)
<1> DEFINE d == Len(h) - n
           t == SubSeq(h, d + 1, Len(h))
<1>1. PICK R : h \in Seq(R) BY DEF Ordered
<1>2. Len(h) \in Nat /\ d \in Nat BY <1>1
<1>3. t \in Seq(R) /\ Len(t) = n /\ \A k \in 1 .. n : t[k] = h[d + k]
  BY <1>1, <1>2
<1>4. \A k \in 1 .. n : d + k \in 1 .. Len(h) BY <1>2
<1>5. \A k \in 1 .. n : t[k].step \in Nat /\ t[k].step <= last
  BY <1>3, <1>4 DEF Ordered
<1>6. ASSUME NEW k \in 1 .. n, NEW j \in 1 .. k - 1 PROVE t[j].step < t[k].step
  <2>1. j \in 1 .. n /\ d + j \in 1 .. (d + k) - 1 BY <1>2
  <2>2. d + k \in 1 .. Len(h) BY <1>4
  <2>3. h[d + j].step < h[d + k].step BY <2>1, <2>2 DEF Ordered
  <2> HIDE DEF t
  <2> QED BY <1>3, <2>1, <2>3
<1> HIDE DEF t
<1>7. Ordered(t, last) BY <1>3, <1>5, <1>6 DEF Ordered
<1> QED BY <1>7 DEF t

LEMMA PushedOrdered ==
  ASSUME FabricAssumption, HistoryInv, NEW r, r.step \in Nat, lastClosed < r.step
  PROVE  Ordered(Pushed(r), r.step)
<1> DEFINE h == Append(history, r)
           bound == MaxOf2(1, Contract.historySteps)
<1>1. Ordered(h, r.step) BY AppendOrdered DEF HistoryInv
<1>2. bound \in Nat \ {0} BY DEF FabricAssumption, MaxOf2
<1>3. Pushed(r) = IF Len(h) > bound THEN SubSeq(h, Len(h) - bound + 1, Len(h)) ELSE h
  BY DEF Pushed
<1>4. Len(h) \in Nat BY <1>1 DEF Ordered
<1> HIDE DEF h, bound
<1>5. CASE Len(h) > bound
  <2>1. Ordered(SubSeq(h, Len(h) - bound + 1, Len(h)), r.step)
    BY <1>1, <1>2, <1>4, <1>5, SuffixOrdered
  <2> QED BY <1>3, <1>5, <2>1
<1>6. CASE ~(Len(h) > bound)
  BY <1>1, <1>3, <1>6
<1> QED BY <1>5, <1>6

LEMMA CloseAdvances ==
  ASSUME FabricAssumption, HeldInv, HistoryInv, CloseStep, step.id # 0
  PROVE  Advanced
<1> DEFINE r == [step |-> step.id, acct |-> CancelledAccounting(DOMAIN flows),
                 phases |-> CancelledPhases(DOMAIN flows)]
<1>1. /\ lastClosed' = step.id /\ history' = Pushed(r) /\ step'.id = 0
      /\ step.id \in Nat /\ lastClosed < step.id
  BY DEF CloseStep, NoStep, HeldInv, StepShape, OpenStepIsHeld
<1>2. r.step = step.id OBVIOUS
<1> HIDE DEF r
<1>3. Ordered(history', lastClosed') BY <1>1, <1>2, PushedOrdered
<1>4. DOMAIN history' = 1 .. Len(history') BY <1>3 DEF Ordered
<1> QED BY <1>1, <1>3, <1>4 DEF Advanced, HistoryInv, StepAdvances, Ordered

\* A step that closes nothing and opens nothing.
LEMMA StaysOrdered ==
  ASSUME HistoryInv, UNCHANGED <<history, lastClosed>>,
         step'.id \in {0, step.id} \/ (step.id = 0 /\ step'.id > highestStep)
  PROVE  Advanced
<1>1. DOMAIN history = 1 .. Len(history) BY DEF HistoryInv, Ordered
<1> QED BY <1>1 DEF Advanced, HistoryInv, StepAdvances, Ordered

LEMMA FenceAdvances ==
  ASSUME FabricAssumption, HeldInv, HistoryInv, FenceOpenStep
  PROVE  Advanced
<1>1. CASE step.id # 0 BY <1>1, CloseAdvances DEF FenceOpenStep
<1>2. CASE step.id = 0 BY <1>2, StaysOrdered DEF FenceOpenStep
<1> QED BY <1>1, <1>2

LEMMA RegistrationAdvances ==
  ASSUME FabricAssumption, HeldInv, HistoryInv, Registration
  PROVE  Advanced
<1>1. ASSUME NEW S, Invalidate(S), UNCHANGED <<history, lastClosed>> PROVE Advanced
  <2>1. step'.id = step.id BY <1>1 DEF Invalidate, HeldInv, StepShape
  <2> QED BY <1>1, <2>1, StaysOrdered
<1>2. ASSUME NEW k, ApplyPolicy(k) PROVE Advanced
  BY <1>1, <1>2 DEF ApplyPolicy, idVars
<1>3. ASSUME NEW e, RebaseEpoch(e) PROVE Advanced
  BY <1>3, StaysOrdered DEF RebaseEpoch, ledgerVars, idVars, recordVars
<1>4. ASSUME NEW t, NEW g, RegisterGroup(t, g) PROVE Advanced
  BY <1>4, StaysOrdered DEF RegisterGroup, idVars, recordVars
<1>5. ASSUME NEW t, NEW cap, PublishTopology(t, cap) PROVE Advanced
  BY <1>1, <1>5 DEF PublishTopology, idVars
<1>6. ASSUME NEW t, RetireJob(t) PROVE Advanced
  BY <1>6, FenceAdvances DEF RetireJob
<1> QED BY <1>2, <1>3, <1>4, <1>5, <1>6 DEF Registration

LEMMA LifecycleAdvances ==
  ASSUME FabricAssumption, HeldInv, HistoryInv, Lifecycle
  PROVE  Advanced
<1>1. ASSUME NEW t, NEW s \in 1 .. MaxStep, BeginStep(t, s) PROVE Advanced
  <2>1. step.id = 0 /\ step'.id = s /\ s > highestStep /\ UNCHANGED <<history, lastClosed>>
    BY <1>1 DEF BeginStep, NoStep, Ahead, recordVars
  <2> QED BY <2>1, StaysOrdered
<1>2. ASSUME NEW t, NEW cls, NEW g, BeginPhase(t, cls, g) PROVE Advanced
  <2>1. step'.id = step.id BY <1>2 DEF BeginPhase, HeldInv, StepShape
  <2> QED BY <1>2, <2>1, StaysOrdered DEF BeginPhase, recordVars
<1>3. ASSUME NEW t, NEW p, EndPhase(t, p) PROVE Advanced
  <2>1. step'.id = step.id BY <1>3 DEF EndPhase, HeldInv, StepShape
  <2> QED BY <1>3, <2>1, StaysOrdered DEF EndPhase, idVars
<1>4. ASSUME NEW t, EndStep(t) PROVE Advanced
  BY <1>4, CloseAdvances DEF EndStep, InStep
<1> QED BY <1>1, <1>2, <1>3, <1>4 DEF Lifecycle

LEMMA TrafficAdvances ==
  ASSUME HeldInv, HistoryInv, Traffic
  PROVE  Advanced
<1>1. UNCHANGED <<history, lastClosed>> BY TrafficKeeps DEF TrafficKept
<1>2. step'.id = step.id
  <2>1. ASSUME NEW t, NEW p, NEW it, RequestTraffic(t, p, it) PROVE step'.id = step.id
    BY <2>1 DEF RequestTraffic, Unresolved, Rejected, Held, Refuse, Admitted, HeldInv, StepShape
  <2>2. ASSUME NEW t, NEW i, NEW bytes, NEW c, CompleteFlow(t, i, bytes, c)
        PROVE  step'.id = step.id
    <3>1. PICK a : step' = [step EXCEPT !.acct = a] BY <2>2 DEF CompleteFlow
    <3> QED BY <3>1 DEF HeldInv, StepShape
  <2>3. ASSUME NEW t, NEW i, RevalidateFlow(t, i) PROVE step'.id = step.id
    BY <2>3 DEF RevalidateFlow, ledgerVars
  <2>4. ASSUME NEW t, NEW g, BeginCheckpointBurst(t, g) PROVE step'.id = step.id
    <3>1. PICK a, b : step' = [step EXCEPT !.burst = b, !.acct = a]
      BY <2>4 DEF BeginCheckpointBurst
    <3> QED BY <3>1 DEF HeldInv, StepShape
  <2>5. ASSUME NEW t, NEW b, EndCheckpointBurst(t, b) PROVE step'.id = step.id
    BY <2>5 DEF EndCheckpointBurst, HeldInv, StepShape
  <2> QED BY <2>1, <2>2, <2>3, <2>4, <2>5 DEF Traffic
<1> QED BY <1>1, <1>2, StaysOrdered

LEMMA RecoveryAdvances ==
  ASSUME FabricAssumption, HeldInv, HistoryInv, Recovery
  PROVE  Advanced
<1>1. FenceOpenStep BY DEF Recovery, AdmitReplacement, RetireIncarnation
<1> QED BY <1>1, FenceAdvances

LEMMA NextAdvances == FabricAssumption /\ HeldInv /\ HistoryInv /\ [Next]_vars => Advanced
<1> SUFFICES ASSUME FabricAssumption, HeldInv, HistoryInv, [Next]_vars PROVE Advanced
  OBVIOUS
<1>1. CASE UNCHANGED vars
  BY <1>1, StaysOrdered DEF vars, ledgerVars, idVars, recordVars
<1>2. CASE Next
  BY <1>2, RegistrationAdvances, LifecycleAdvances, TrafficAdvances, RecoveryAdvances DEF Next
<1> QED BY <1>1, <1>2

\* The reports kept are in order in every reachable state (push_history).
THEOREM HistoryInvariant == FabricSpec => []HistoryInv
<1>1. Init => HistoryInv
  <2>1. <<>> \in Seq({}) /\ Len(<<>>) = 0 OBVIOUS
  <2>2. Ordered(<<>>, 0) BY <2>1 DEF Ordered
  <2> QED BY <2>2 DEF Init, HistoryInv
<1>2. FabricAssumption BY FabricAssumption
<1>3. HeldInv /\ HistoryInv /\ [Next]_vars => HistoryInv'
  BY <1>2, NextAdvances DEF Advanced
<1> QED BY <1>1, <1>3, HeldInvariant, PTL DEF FabricSpec

(***************************************************************************)
(* A step id is opened once and reports are closed and kept in increasing  *)
(* order, across retirements and replacements (begin_step, push_history,   *)
(* the resume floor of admit_replacement).                                 *)
(***************************************************************************)
THEOREM StepsOnlyAdvance == FabricSpec => StepsAdvance
<1>1. FabricAssumption BY FabricAssumption
<1>2. HeldInv /\ HistoryInv /\ [Next]_vars =>
        [/\ step'.id \notin {0, step.id} => step.id = 0 /\ step'.id > highestStep
         /\ \A k \in DOMAIN history' : \A j \in 1 .. k - 1 : history'[j].step < history'[k].step
         /\ lastClosed' # lastClosed => lastClosed' > lastClosed]_vars
  BY <1>1, NextAdvances DEF Advanced, StepAdvances
<1> QED BY <1>2, HeldInvariant, HistoryInvariant, PTL DEF FabricSpec, StepsAdvance

-----------------------------------------------------------------------------
(* Flows are bound to the evidence in force.                               *)

\* Under a strict document nothing survives a new generation.
AllStrict == \A k \in DOMAIN Policies : Policies[k].strict

\* Before any evidence there is no link to be granted.
BoundInv ==
  /\ policyGen \in DOMAIN Policies
  /\ topology.gen \in Nat /\ (topology.gen = 0 => DOMAIN topology.cap = {})
  /\ TopologyBound

LEMMA SameEvidence ==
  ASSUME BoundInv, UNCHANGED <<topology, policyGen>>,
         \A i \in DOMAIN flows' : i \in DOMAIN flows /\ flows'[i].authority = flows[i].authority
  PROVE  BoundInv'
BY DEF BoundInv, TopologyBound

LEMMA StrictClosesAll ==
  ASSUME NEW doc, doc.strict, Invalidate(Invalidated(doc))
  PROVE  DOMAIN flows' = {}
<1>1. Invalidated(doc) = DOMAIN flows BY DEF Invalidated, Unsafe
<1>2. flows' = FlowsWithout(DOMAIN flows) BY <1>1 DEF Invalidate
<1> QED BY <1>2 DEF FlowsWithout

LEMMA FenceBound ==
  ASSUME BoundInv, FenceOpenStep, UNCHANGED configVars
  PROVE  BoundInv'
<1>1. flows' = flows \/ DOMAIN flows' = {} BY DEF FenceOpenStep, CloseStep
<1> QED BY <1>1, SameEvidence DEF configVars

LEMMA RegistrationBound ==
  ASSUME AllStrict, BoundInv, Registration
  PROVE  BoundInv'
<1>1. ASSUME NEW k \in DOMAIN Policies, ApplyPolicy(k) PROVE BoundInv'
  <2>1. Policies[k].strict BY DEF AllStrict
  <2>2. DOMAIN flows' = {} BY <1>1, <2>1, StrictClosesAll DEF ApplyPolicy
  <2>3. policyGen' = k /\ topology' = topology BY <1>1 DEF ApplyPolicy
  <2> QED BY <2>2, <2>3 DEF BoundInv, TopologyBound
<1>2. ASSUME NEW e, RebaseEpoch(e) PROVE BoundInv'
  BY <1>2, SameEvidence DEF RebaseEpoch, configVars, ledgerVars
<1>3. ASSUME NEW t, NEW g, RegisterGroup(t, g) PROVE BoundInv'
  BY <1>3, SameEvidence DEF RegisterGroup
<1>4. ASSUME NEW t, NEW cap, PublishTopology(t, cap) PROVE BoundInv'
  <2>1. Doc.strict BY DEF AllStrict, BoundInv, Doc
  <2>2. DOMAIN flows' = {} BY <1>4, <2>1, StrictClosesAll DEF PublishTopology
  <2>3. policyGen' = policyGen /\ topology'.gen = topology.gen + 1
    BY <1>4 DEF PublishTopology
  <2>4. topology'.gen \in Nat /\ topology'.gen # 0 BY <2>3 DEF BoundInv
  <2> QED BY <2>2, <2>3, <2>4 DEF BoundInv, TopologyBound
<1>5. ASSUME NEW t, RetireJob(t) PROVE BoundInv'
  BY <1>5, FenceBound DEF RetireJob
<1> QED BY <1>1, <1>2, <1>3, <1>4, <1>5 DEF Registration

LEMMA LifecycleBound ==
  ASSUME BoundInv, Lifecycle
  PROVE  BoundInv'
<1>1. UNCHANGED <<topology, policyGen>>
  BY DEF Lifecycle, BeginStep, BeginPhase, EndPhase, EndStep, configVars
<1>2. \E S : flows' = FlowsWithout(S) \/ flows' = flows \/ DOMAIN flows' = {}
  <2>1. ASSUME NEW t, NEW p, EndPhase(t, p) PROVE \E S : flows' = FlowsWithout(S)
    BY <2>1 DEF EndPhase
  <2>2. ASSUME NEW t, EndStep(t) PROVE DOMAIN flows' = {}
    BY <2>2 DEF EndStep, CloseStep
  <2> QED BY <2>1, <2>2 DEF Lifecycle, BeginStep, BeginPhase
<1>3. \A i \in DOMAIN flows' : i \in DOMAIN flows /\ flows'[i] = flows[i]
  BY <1>2 DEF FlowsWithout
<1> QED BY <1>1, <1>3, SameEvidence

LEMMA AdmittedBound ==
  ASSUME BoundInv, NEW t, NEW p, NEW it, Admitted(t, p, it), UNCHANGED <<topology, policyGen>>
  PROVE  BoundInv'
<1> DEFINE victims == RequestVictims(p, it)
           grant == Grant(p, it, MinRate(p, it),
                          MaxOf2(MinRate(p, it), MinOf2(MaxRate(p, it), Reach(p, it))))
<1>1. flows' = Put(FlowsWithout(victims), nextIntent, Flow(t, it, grant))
  BY DEF Admitted
<1>2. Flow(t, it, grant).authority = t BY DEF Flow
<1> HIDE DEF victims, grant
<1>3. \A i \in DOMAIN flows' :
        \/ i \in DOMAIN flows /\ flows'[i] = flows[i]
        \/ flows'[i] = Flow(t, it, grant)
  BY <1>1 DEF Put, FlowsWithout
<1>4. it.group \in DOMAIN topology.cap BY DEF Admitted, Fits
<1>5. topology.gen # 0 BY <1>4 DEF BoundInv
<1>6. t.topology = topology.gen BY <1>5 DEF Admitted, InPhase, InStep, Authorised
<1> QED BY <1>2, <1>3, <1>6 DEF BoundInv, TopologyBound

LEMMA TrafficBound ==
  ASSUME HeldInv, BoundInv, Traffic
  PROVE  BoundInv'
<1>0. UNCHANGED <<topology, policyGen>> BY TrafficKeeps DEF TrafficKept
<1>1. ASSUME NEW t, NEW p, NEW it, RequestTraffic(t, p, it) PROVE BoundInv'
  <2>1. CASE flows' = flows BY <1>0, <2>1, SameEvidence
  <2>2. CASE Admitted(t, p, it) BY <1>0, <2>2, AdmittedBound
  <2> QED BY <1>1, <2>1, <2>2 DEF RequestTraffic, Unresolved, Rejected, Held, Refuse
<1>2. ASSUME NEW t, NEW i, NEW bytes, NEW cancelled, CompleteFlow(t, i, bytes, cancelled)
      PROVE  BoundInv'
  BY <1>0, <1>2, SameEvidence DEF CompleteFlow, FlowsWithout
<1>3. ASSUME NEW t, NEW i, RevalidateFlow(t, i) PROVE BoundInv'
  BY <1>0, <1>3, SameEvidence DEF RevalidateFlow, ledgerVars
<1>4. ASSUME NEW t, NEW g, BeginCheckpointBurst(t, g) PROVE BoundInv'
  <2>1. \A i \in DOMAIN flows' :
          /\ i \in DOMAIN flows
          /\ flows'[i] = flows[i] \/ \E c : flows'[i] = Squeezed(flows[i], c)
    BY <1>4, BurstFlows DEF HeldInv
  <2>2. \A i \in DOMAIN flows' : flows'[i].authority = flows[i].authority
    BY <2>1 DEF HeldInv, FlowShape, Squeezed
  <2> QED BY <1>0, <2>1, <2>2, SameEvidence
<1>5. ASSUME NEW t, NEW b, EndCheckpointBurst(t, b) PROVE BoundInv'
  BY <1>0, <1>5, SameEvidence DEF EndCheckpointBurst
<1> QED BY <1>1, <1>2, <1>3, <1>4, <1>5 DEF Traffic

LEMMA RecoveryBound ==
  ASSUME BoundInv, Recovery
  PROVE  BoundInv'
<1>1. FenceOpenStep /\ UNCHANGED configVars
  BY DEF Recovery, AdmitReplacement, RetireIncarnation
<1> QED BY <1>1, FenceBound

LEMMA NextBound == AllStrict /\ HeldInv /\ BoundInv /\ [Next]_vars => BoundInv'
<1> SUFFICES ASSUME AllStrict, HeldInv, BoundInv, [Next]_vars PROVE BoundInv'
  OBVIOUS
<1>1. CASE UNCHANGED vars
  BY <1>1, SameEvidence DEF vars, configVars, ledgerVars
<1>2. CASE Next
  BY <1>2, RegistrationBound, LifecycleBound, TrafficBound, RecoveryBound DEF Next
<1> QED BY <1>1, <1>2

(***************************************************************************)
(* When every policy is strict, no live flow was ever granted on evidence  *)
(* other than the one in force (decisions.md rule 7, publish_topology):    *)
(* the hypothesis is needed, for other policies keep flows that match.     *)
(***************************************************************************)
THEOREM FlowsBoundToTopology ==
  ASSUME AllStrict
  PROVE  FabricSpec => []TopologyBound
<1>1. Init => BoundInv
  BY FabricAssumption DEF FabricAssumption, Init, BoundInv, TopologyBound
<1>2. HeldInv /\ BoundInv /\ [Next]_vars => BoundInv' BY NextBound
<1>3. BoundInv => TopologyBound BY DEF BoundInv
<1> QED BY <1>1, <1>2, <1>3, HeldInvariant, PTL DEF FabricSpec

-----------------------------------------------------------------------------
(***************************************************************************)
(* What Fabric records of its decisions tells the truth about its flows,   *)
(* under every sequence of strict policies.                                *)
(***************************************************************************)

Admitting == {"Admit", "Throttle"}

\* The part of a flow, or of a grant, that a decision states.
Envelope(f) ==
  [group |-> f.group, phase |-> f.phase, class |-> f.class, prio |-> f.prio,
   min |-> f.min, max |-> f.max]

DecisionShape(d) ==
  /\ d = [outcome |-> d.outcome, invalidated |-> d.invalidated, step |-> d.step,
          policy |-> d.policy, grant |-> d.grant]
  /\ d.grant = Envelope(d.grant)

\* The decision of a live flow is also of the policy in force: there is nothing
\* a revalidation could withdraw.
LiveDecision(i, d) ==
  i \in DOMAIN flows =>
    /\ d.outcome \in Admitting /\ ~d.invalidated
    /\ d.grant = Envelope(flows[i]) /\ d.policy = policyGen

AgreesAt(i, d) ==
  /\ i \in Nat /\ i < nextIntent
  /\ DecisionShape(d) /\ LiveDecision(i, d)
  /\ i \notin DOMAIN flows /\ d.outcome \in Admitting => i \in DOMAIN receipts
  /\ d.invalidated => d.outcome \notin Admitting

AgreeInv == \A i \in DOMAIN decisions : AgreesAt(i, decisions[i])

LEMMA AgreeSuffices ==
  ASSUME AgreeInv
  PROVE  DecisionsAgree
<1> SUFFICES ASSUME NEW i \in DOMAIN decisions, i \in DOMAIN flows
             PROVE  decisions[i].grant =
                      [f \in DOMAIN decisions[i].grant |-> flows[i][f]]
  BY DEF AgreeInv, AgreesAt, LiveDecision, Admitting, DecisionsAgree
<1>1. decisions[i].grant = Envelope(flows[i])
  BY DEF AgreeInv, AgreesAt, LiveDecision
<1>2. DOMAIN decisions[i].grant = {"group", "phase", "class", "prio", "min", "max"}
  BY <1>1 DEF Envelope
<1>3. \A f \in DOMAIN decisions[i].grant : decisions[i].grant[f] = flows[i][f]
  BY <1>1, <1>2 DEF Envelope
<1>4. decisions[i].grant = [f \in DOMAIN decisions[i].grant |-> decisions[i].grant[f]]
  BY <1>1 DEF Envelope
<1> QED BY <1>3, <1>4

\* A withdrawn decision keeps all but its outcome.
LEMMA WithdrawnShape ==
  ASSUME NEW S, NEW o, NEW i \in DOMAIN decisions, DecisionShape(decisions[i])
  PROVE  /\ i \notin S => Withdrawn(S, o)[i] = decisions[i]
         /\ i \in S => /\ DecisionShape(Withdrawn(S, o)[i])
                       /\ Withdrawn(S, o)[i].outcome = o /\ Withdrawn(S, o)[i].invalidated
BY DEF Withdrawn, DecisionShape, Envelope

\* Flows are closed, with or without a word to their decisions.
LEMMA ClosedAgree ==
  ASSUME AgreeInv, NEW S, S \subseteq DOMAIN flows, DOMAIN flows' = DOMAIN flows \ S,
         \A i \in DOMAIN flows' : flows'[i] = flows[i],
         DOMAIN receipts' = S \cup DOMAIN receipts, nextIntent' = nextIntent,
         decisions' = decisions
           \/ \E o \in {"Reject", "Revalidate", "Defer"} : decisions' = Withdrawn(S, o),
         policyGen' = policyGen \/ DOMAIN flows' = {}
  PROVE  AgreeInv'
<1> SUFFICES ASSUME NEW i \in DOMAIN decisions' PROVE AgreesAt(i, decisions[i])'
  BY DEF AgreeInv
<1>1. i \in DOMAIN decisions BY DEF Withdrawn
<1>2. AgreesAt(i, decisions[i]) BY <1>1 DEF AgreeInv
<1>3. CASE decisions'[i] = decisions[i]
  BY <1>2, <1>3 DEF AgreesAt, LiveDecision
<1>4. CASE i \in S /\ DecisionShape(decisions'[i]) /\ decisions'[i].outcome \notin Admitting
  BY <1>2, <1>4 DEF AgreesAt, LiveDecision
<1>5. ASSUME NEW o \in {"Reject", "Revalidate", "Defer"}, decisions' = Withdrawn(S, o)
      PROVE  \/ decisions'[i] = decisions[i]
             \/ i \in S /\ DecisionShape(decisions'[i]) /\ decisions'[i].outcome \notin Admitting
  <2>1. o \notin Admitting BY DEF Admitting
  <2> QED BY <1>1, <1>2, <1>5, <2>1, WithdrawnShape DEF AgreesAt
<1> QED BY <1>3, <1>4, <1>5

LEMMA UntouchedAgree ==
  ASSUME AgreeInv, UNCHANGED <<flows, decisions, receipts, nextIntent, policyGen>>
  PROVE  AgreeInv'
BY DEF AgreeInv, AgreesAt, LiveDecision

LEMMA InvalidateAgree ==
  ASSUME AgreeInv, NEW S, S \subseteq DOMAIN flows, Invalidate(S), nextIntent' = nextIntent,
         policyGen' = policyGen \/ DOMAIN flows' = {}
  PROVE  AgreeInv'
<1>1. /\ DOMAIN flows' = DOMAIN flows \ S
      /\ \A i \in DOMAIN flows' : flows'[i] = flows[i]
  BY DEF Invalidate, FlowsWithout
<1>2. DOMAIN receipts' = S \cup DOMAIN receipts BY DEF Invalidate, CancelledReceipts
<1>3. \E o \in {"Reject", "Revalidate", "Defer"} : decisions' = Withdrawn(S, o)
  BY DEF Invalidate
<1> QED BY <1>1, <1>2, <1>3, ClosedAgree

LEMMA CloseAgree ==
  ASSUME AgreeInv, CloseStep, nextIntent' = nextIntent
  PROVE  AgreeInv'
<1> DEFINE S == DOMAIN flows
<1>1. DOMAIN flows' = {} BY DEF CloseStep
<1>2. DOMAIN receipts' = S \cup DOMAIN receipts BY DEF CloseStep, CancelledReceipts
<1>3. \E o \in {"Reject", "Revalidate", "Defer"} : decisions' = Withdrawn(S, o)
  BY DEF CloseStep
<1>4. S \subseteq DOMAIN flows /\ DOMAIN flows' = DOMAIN flows \ S BY <1>1
<1>5. \A i \in DOMAIN flows' : flows'[i] = flows[i] BY <1>1
<1> HIDE DEF S
<1> QED BY <1>1, <1>2, <1>3, <1>4, <1>5, ClosedAgree

LEMMA FenceAgrees ==
  ASSUME AgreeInv, FenceOpenStep, nextIntent' = nextIntent, policyGen' = policyGen
  PROVE  AgreeInv'
BY CloseAgree, UntouchedAgree DEF FenceOpenStep

LEMMA RegistrationAgrees ==
  ASSUME AllStrict, AgreeInv, Registration
  PROVE  AgreeInv'
<1>1. ASSUME NEW k \in DOMAIN Policies, ApplyPolicy(k) PROVE AgreeInv'
  <2>1. Policies[k].strict BY DEF AllStrict
  <2>2. DOMAIN flows' = {} BY <1>1, <2>1, StrictClosesAll DEF ApplyPolicy
  <2>3. Invalidated(Policies[k]) \subseteq DOMAIN flows BY DEF Invalidated
  <2> QED BY <1>1, <2>2, <2>3, InvalidateAgree DEF ApplyPolicy, idVars
<1>2. ASSUME NEW e, RebaseEpoch(e) PROVE AgreeInv'
  BY <1>2, UntouchedAgree DEF RebaseEpoch, configVars, ledgerVars, idVars, recordVars
<1>3. ASSUME NEW t, NEW g, RegisterGroup(t, g) PROVE AgreeInv'
  BY <1>3, UntouchedAgree DEF RegisterGroup, idVars, recordVars
<1>4. ASSUME NEW t, NEW cap, PublishTopology(t, cap) PROVE AgreeInv'
  <2>1. Invalidated(Doc) \subseteq DOMAIN flows BY DEF Invalidated
  <2> QED BY <1>4, <2>1, InvalidateAgree DEF PublishTopology, idVars
<1>5. ASSUME NEW t, RetireJob(t) PROVE AgreeInv'
  BY <1>5, FenceAgrees DEF RetireJob, configVars
<1> QED BY <1>1, <1>2, <1>3, <1>4, <1>5 DEF Registration

LEMMA LifecycleAgrees ==
  ASSUME AgreeInv, Lifecycle
  PROVE  AgreeInv'
<1>1. ASSUME NEW t, NEW s, BeginStep(t, s) PROVE AgreeInv'
  BY <1>1, UntouchedAgree DEF BeginStep, configVars, recordVars
<1>2. ASSUME NEW t, NEW cls, NEW g, BeginPhase(t, cls, g) PROVE AgreeInv'
  BY <1>2, UntouchedAgree DEF BeginPhase, configVars, recordVars
<1>3. ASSUME NEW t, NEW p, EndPhase(t, p) PROVE AgreeInv'
  <2> DEFINE S == {i \in DOMAIN flows : flows[i].phase = p}
  <2>1. /\ S \subseteq DOMAIN flows /\ DOMAIN flows' = DOMAIN flows \ S
        /\ \A i \in DOMAIN flows' : flows'[i] = flows[i]
        /\ DOMAIN receipts' = S \cup DOMAIN receipts
        /\ decisions' = decisions /\ nextIntent' = nextIntent /\ policyGen' = policyGen
    BY <1>3 DEF EndPhase, FlowsWithout, CancelledReceipts, configVars, idVars
  <2> HIDE DEF S
  <2> QED BY <2>1, ClosedAgree
<1>4. ASSUME NEW t, EndStep(t) PROVE AgreeInv'
  BY <1>4, CloseAgree DEF EndStep
<1> QED BY <1>1, <1>2, <1>3, <1>4 DEF Lifecycle

-----------------------------------------------------------------------------
(* Requests.                                                               *)

\* A recorded decision is the one under the new id or one that was there.
LEMMA RecordedIs ==
  ASSUME NEW decs, NEW d
  PROVE  \A i \in DOMAIN Recorded(decs, d) :
           \/ i = nextIntent /\ Recorded(decs, d)[i] = d
           \/ i # nextIntent /\ i \in DOMAIN decs /\ Recorded(decs, d)[i] = decs[i]
BY DEF Recorded, Put

LEMMA RefusedAgree ==
  ASSUME AgreeInv, CreditInv, NEW d, DecisionShape(d), d.outcome \notin Admitting, ~d.invalidated,
         decisions' = Recorded(decisions, d), UNCHANGED <<flows, receipts, policyGen>>,
         nextIntent' = nextIntent + 1
  PROVE  AgreeInv'
<1> SUFFICES ASSUME NEW i \in DOMAIN decisions' PROVE AgreesAt(i, decisions[i])'
  BY DEF AgreeInv
<1>1. nextIntent \in Nat /\ nextIntent \notin DOMAIN flows BY DEF CreditInv
<1>2. CASE i = nextIntent /\ decisions'[i] = d
  BY <1>1, <1>2 DEF AgreesAt, LiveDecision
<1>3. CASE i # nextIntent /\ i \in DOMAIN decisions /\ decisions'[i] = decisions[i]
  <2>1. AgreesAt(i, decisions[i]) BY <1>3 DEF AgreeInv
  <2> QED BY <1>1, <1>3, <2>1 DEF AgreesAt, LiveDecision
<1> QED BY <1>2, <1>3, RecordedIs

LEMMA AdmittedAgree ==
  ASSUME AgreeInv, CreditInv, NEW t, NEW p, NEW it, Admitted(t, p, it),
         policyGen' = policyGen, nextIntent' = nextIntent + 1
  PROVE  AgreeInv'
<1> DEFINE victims == RequestVictims(p, it)
           grant == Grant(p, it, MinRate(p, it),
                          MaxOf2(MinRate(p, it), MinOf2(MaxRate(p, it), Reach(p, it))))
           d == Decision(t, "Admit", grant)
           marked == Withdrawn(victims, "Defer")
<1>1. /\ flows' = Put(FlowsWithout(victims), nextIntent, Flow(t, it, grant))
      /\ receipts' = CancelledReceipts(victims)
      /\ decisions' = Recorded(marked, d)
  BY DEF Admitted
<1>2. /\ DecisionShape(d) /\ d.outcome \in Admitting /\ ~d.invalidated
      /\ d.grant = Envelope(Flow(t, it, grant)) /\ d.policy = policyGen
  BY DEF Decision, DecisionShape, Envelope, Flow, Grant, Admitting
<1>3. victims \subseteq DOMAIN flows
  BY DEF RequestVictims, Victims, Displaceable, FlowsOf
<1> HIDE DEF victims, grant, d
<1>4. /\ DOMAIN flows' = (DOMAIN flows \ victims) \cup {nextIntent}
      /\ flows'[nextIntent] = Flow(t, it, grant)
      /\ \A i \in DOMAIN flows' : i # nextIntent => flows'[i] = flows[i]
  BY <1>1 DEF Put, FlowsWithout
<1>5. DOMAIN receipts' = victims \cup DOMAIN receipts
  BY <1>1 DEF CancelledReceipts
<1>6. nextIntent \in Nat BY DEF CreditInv
<1> SUFFICES ASSUME NEW i \in DOMAIN decisions' PROVE AgreesAt(i, decisions[i])'
  BY DEF AgreeInv
<1>7. CASE i = nextIntent /\ decisions'[i] = d
  BY <1>2, <1>4, <1>6, <1>7 DEF AgreesAt, LiveDecision
<1>8. CASE i # nextIntent /\ i \in DOMAIN marked /\ decisions'[i] = marked[i]
  <2>1. i \in DOMAIN decisions BY <1>8 DEF Withdrawn
  <2>2. AgreesAt(i, decisions[i]) BY <2>1 DEF AgreeInv
  <2>3. CASE i \notin victims
    <3>1. decisions'[i] = decisions[i] BY <1>8, <2>1, <2>2, <2>3, WithdrawnShape DEF AgreesAt
    <3>2. i \in DOMAIN flows' <=> i \in DOMAIN flows BY <1>4, <1>8, <2>3
    <3> QED BY <1>4, <1>5, <1>6, <1>8, <2>2, <3>1, <3>2 DEF AgreesAt, LiveDecision
  <2>4. CASE i \in victims
    <3>1. DecisionShape(decisions'[i]) /\ decisions'[i].outcome = "Defer"
      BY <1>8, <2>1, <2>2, <2>4, WithdrawnShape DEF AgreesAt
    <3>2. decisions'[i].outcome \notin Admitting BY <3>1 DEF Admitting
    <3>3. i \notin DOMAIN flows' BY <1>4, <1>8, <2>4
    <3> QED BY <1>6, <2>2, <3>1, <3>2, <3>3 DEF AgreesAt, LiveDecision
  <2> QED BY <2>3, <2>4
<1> QED BY <1>1, <1>7, <1>8, RecordedIs

LEMMA RequestAgrees ==
  ASSUME AgreeInv, CreditInv, NEW t, NEW p, NEW it, RequestTraffic(t, p, it)
  PROVE  AgreeInv'
<1>1. nextIntent' = nextIntent + 1 /\ policyGen' = policyGen
  BY DEF RequestTraffic, configVars
<1>2. ASSUME NEW o \in {"Reject", "Defer"}, NEW g, g = Envelope(g)
      PROVE  LET d == Decision(t, o, g)
             IN  DecisionShape(d) /\ d.outcome \notin Admitting /\ ~d.invalidated
  BY <1>2 DEF Decision, DecisionShape, Admitting
<1>3. NoGrant = Envelope(NoGrant) BY DEF NoGrant, Envelope
<1>4. Grant(p, it, 0, 0) = Envelope(Grant(p, it, 0, 0)) BY DEF Grant, Envelope
<1>5. CASE Unresolved(t, p)
  BY <1>1, <1>2, <1>3, <1>5, RefusedAgree DEF Unresolved
<1>6. CASE Rejected(t, p, it)
  BY <1>1, <1>2, <1>3, <1>6, RefusedAgree DEF Rejected, Refuse
<1>7. CASE Held(t, p, it)
  <2>1. \E o \in {"Reject", "Defer"}, g \in {NoGrant, Grant(p, it, 0, 0)} :
          Refuse(Decision(t, o, g))
    BY <1>7 DEF Held
  <2> QED BY <1>1, <1>2, <1>3, <1>4, <2>1, RefusedAgree DEF Refuse
<1>8. CASE Admitted(t, p, it)
  BY <1>1, <1>8, AdmittedAgree
<1> QED BY <1>5, <1>6, <1>7, <1>8 DEF RequestTraffic

-----------------------------------------------------------------------------
(* Completions, revalidations and bursts.                                  *)

\* A strict policy withdraws the decisions of an older one, whose flows are gone.
LEMMA RevalidateAgrees ==
  ASSUME FabricAssumption, AllStrict, BoundInv, AgreeInv, NEW t, NEW i, RevalidateFlow(t, i)
  PROVE  AgreeInv'
<1>1. Doc.strict BY DEF AllStrict, BoundInv, Doc
<1>2. policyGen \in Int BY DEF BoundInv, FabricAssumption
<1>3. UNCHANGED <<flows, receipts, nextIntent, policyGen>>
  BY DEF RevalidateFlow, configVars, ledgerVars, idVars
<1>4. CASE decisions' = decisions BY <1>3, <1>4, UntouchedAgree
<1>5. CASE Standing(i) /\ ~(decisions[i].policy >= policyGen)
  <2>1. decisions' = [decisions EXCEPT ![i] =
          [@ EXCEPT !.policy = policyGen, !.outcome = "Revalidate", !.invalidated = TRUE]]
    BY <1>1, <1>5 DEF RevalidateFlow, Outdated
  <2>2. i \in DOMAIN decisions /\ AgreesAt(i, decisions[i])
    BY <1>5 DEF Standing, AgreeInv
  <2>3. i \notin DOMAIN flows
    BY <1>2, <1>5, <2>2 DEF AgreesAt, LiveDecision
  <2>4. /\ DecisionShape(decisions'[i]) /\ decisions'[i].outcome = "Revalidate"
        /\ DOMAIN decisions' = DOMAIN decisions
        /\ \A j \in DOMAIN decisions : j # i => decisions'[j] = decisions[j]
    BY <2>1, <2>2 DEF AgreesAt, DecisionShape, Envelope
  <2>5. AgreesAt(i, decisions[i])'
    BY <1>3, <2>2, <2>3, <2>4 DEF AgreesAt, LiveDecision, Admitting
  <2>6. ASSUME NEW j \in DOMAIN decisions', j # i PROVE AgreesAt(j, decisions[j])'
    <3>1. AgreesAt(j, decisions[j]) /\ decisions'[j] = decisions[j]
      BY <2>4, <2>6 DEF AgreeInv
    <3> QED BY <1>3, <3>1 DEF AgreesAt, LiveDecision
  <2> QED BY <2>5, <2>6 DEF AgreeInv
<1> QED BY <1>4, <1>5 DEF RevalidateFlow

\* A throttled flow and its decision shrink together.
\* A grant and a decision field by field, and the throttling of a decision.
GrantRecord(gr, ph, cl, pr, lo, hi) ==
  [group |-> gr, phase |-> ph, class |-> cl, prio |-> pr, min |-> lo, max |-> hi]
DecisionRecord(o, v, st, po, g) ==
  [outcome |-> o, invalidated |-> v, step |-> st, policy |-> po, grant |-> g]
Rerated(d, lo, hi) ==
  [d EXCEPT !.outcome = "Throttle", !.grant.min = lo, !.grant.max = hi]
ThrottledBy(d, f, c) == Rerated(d, c, MinOf2(f.max, c))

LEMMA ReratedRecord ==
  ASSUME NEW v, NEW st, NEW po, NEW o, NEW gr, NEW ph, NEW cl, NEW pr, NEW lo, NEW hi,
         NEW c, NEW m
  PROVE  Rerated(DecisionRecord(o, v, st, po, GrantRecord(gr, ph, cl, pr, lo, hi)), c, m)
         = DecisionRecord("Throttle", v, st, po, GrantRecord(gr, ph, cl, pr, c, m))
<1> DEFINE D(out, g) == DecisionRecord(out, v, st, po, g)
           G(a, b) == GrantRecord(gr, ph, cl, pr, a, b)
<1>1. ASSUME NEW g, NEW x PROVE [D(x, g) EXCEPT !.outcome = "Throttle"] = D("Throttle", g)
  BY DEF DecisionRecord
<1>2. ASSUME NEW g, NEW x PROVE [D(x, g) EXCEPT !.grant.min = c] = D(x, [g EXCEPT !.min = c])
  BY DEF DecisionRecord
<1>3. ASSUME NEW g, NEW x PROVE [D(x, g) EXCEPT !.grant.max = m] = D(x, [g EXCEPT !.max = m])
  BY DEF DecisionRecord
<1>4. [G(lo, hi) EXCEPT !.min = c] = G(c, hi) BY DEF GrantRecord
<1>5. [G(c, hi) EXCEPT !.max = m] = G(c, m) BY DEF GrantRecord
<1> HIDE DEF D, G
<1>6. [D(o, G(lo, hi)) EXCEPT !.outcome = "Throttle"] = D("Throttle", G(lo, hi))
  BY <1>1
<1>7. [D("Throttle", G(lo, hi)) EXCEPT !.grant.min = c] = D("Throttle", G(c, hi))
  BY <1>2, <1>4
<1>8. [D("Throttle", G(c, hi)) EXCEPT !.grant.max = m] = D("Throttle", G(c, m))
  BY <1>3, <1>5
<1>9. Rerated(D(o, G(lo, hi)), c, m) = D("Throttle", G(c, m))
  BY <1>6, <1>7, <1>8 DEF Rerated
<1> QED BY <1>9 DEF D, G

LEMMA ThrottledShape ==
  ASSUME NEW n, NEW v, NEW st, NEW po, NEW e, e = Envelope(e),
         n = DecisionRecord("Throttle", v, st, po, e)
  PROVE  /\ DecisionShape(n) /\ n.outcome \in Admitting /\ n.invalidated = v
         /\ n.policy = po /\ n.grant = e
BY DEF DecisionShape, DecisionRecord, Admitting

LEMMA SqueezedEnvelope ==
  ASSUME NEW d, NEW f, NEW c, DecisionShape(d), d.grant = Envelope(f), ~d.invalidated,
         f = [group |-> f.group, phase |-> f.phase, class |-> f.class, prio |-> f.prio,
              min |-> f.min, max |-> f.max, bytes |-> f.bytes, authority |-> f.authority],
         NEW n, n = ThrottledBy(d, f, c)
  PROVE  /\ DecisionShape(n) /\ n.outcome \in Admitting /\ ~n.invalidated
         /\ n.policy = d.policy /\ n.grant = Envelope(Squeezed(f, c))
<1> DEFINE m == MinOf2(f.max, c)
           e == GrantRecord(f.group, f.phase, f.class, f.prio, c, m)
<1>1. PICK s : s = Squeezed(f, c) OBVIOUS
<1>2. s = [f EXCEPT !.min = c, !.max = m] BY <1>1 DEF Squeezed
<1>3. d.grant = GrantRecord(f.group, f.phase, f.class, f.prio, f.min, f.max)
  BY DEF Envelope, GrantRecord
<1>4. d = DecisionRecord(d.outcome, d.invalidated, d.step, d.policy, d.grant)
  BY DEF DecisionShape, DecisionRecord
<1> HIDE DEF m
<1>5. s.group = f.group /\ s.phase = f.phase /\ s.class = f.class /\ s.prio = f.prio
      /\ s.min = c /\ s.max = m
  BY <1>2
<1>6. Envelope(s) = e BY <1>5 DEF Envelope, GrantRecord
<1>7. n = Rerated(d, c, m) BY DEF ThrottledBy, m
<1>8. n = DecisionRecord("Throttle", d.invalidated, d.step, d.policy, e)
  BY <1>3, <1>4, <1>7, ReratedRecord
<1>9. e = Envelope(e) BY DEF Envelope, GrantRecord
<1> HIDE DEF e
<1> QED BY <1>1, <1>6, <1>8, <1>9, ThrottledShape

LEMMA CutAgrees ==
  ASSUME HeldInv, AgreeInv, NEW out, NEW cut, cut \subseteq DOMAIN flows \ out,
         DOMAIN flows' = DOMAIN flows \ out,
         \A i \in DOMAIN flows' :
           flows'[i] = IF i \in cut THEN Squeezed(flows[i], IsolationCeiling(i)) ELSE flows[i],
         DOMAIN decisions' = DOMAIN decisions,
         \A i \in DOMAIN decisions :
           decisions'[i] = IF i \in cut
                           THEN ThrottledBy(Withdrawn(out, "Defer")[i], flows[i],
                                            IsolationCeiling(i))
                           ELSE Withdrawn(out, "Defer")[i],
         DOMAIN receipts' = out \cup DOMAIN receipts,
         nextIntent' = nextIntent, policyGen' = policyGen
  PROVE  AgreeInv'
<1> SUFFICES ASSUME NEW i \in DOMAIN decisions PROVE AgreesAt(i, decisions[i])'
  BY DEF AgreeInv
<1>1. AgreesAt(i, decisions[i]) BY DEF AgreeInv
<1>2. PICK m : m = Withdrawn(out, "Defer")[i] OBVIOUS
<1>3. DecisionShape(decisions[i]) BY <1>1 DEF AgreesAt
<1>4. /\ i \notin out => m = decisions[i]
      /\ i \in out => DecisionShape(m) /\ m.outcome = "Defer"
  <2>1. /\ i \notin out => Withdrawn(out, "Defer")[i] = decisions[i]
        /\ i \in out => /\ DecisionShape(Withdrawn(out, "Defer")[i])
                       /\ Withdrawn(out, "Defer")[i].outcome = "Defer"
    BY <1>3, WithdrawnShape
  <2> QED BY <1>2, <2>1
<1>5. CASE i \notin cut
  <2>1. decisions'[i] = m BY <1>2, <1>5
  <2>2. CASE i \in out
    <3>1. DecisionShape(decisions'[i]) /\ decisions'[i].outcome \notin Admitting
      BY <1>4, <2>1, <2>2 DEF Admitting
    <3>2. i \notin DOMAIN flows' BY <2>2
    <3> QED BY <1>1, <3>1, <3>2 DEF AgreesAt, LiveDecision
  <2>3. CASE i \notin out
    <3>1. decisions'[i] = decisions[i] BY <1>4, <2>1, <2>3
    <3>2. i \in DOMAIN flows' => flows'[i] = flows[i] BY <1>5
    <3>3. i \in DOMAIN flows' <=> i \in DOMAIN flows BY <2>3
    <3> QED BY <1>1, <3>1, <3>2, <3>3 DEF AgreesAt, LiveDecision
  <2> QED BY <2>2, <2>3
<1>6. CASE i \in cut
  <2>1. i \in DOMAIN flows /\ i \notin out /\ i \in DOMAIN flows' BY <1>6
  <2>2. decisions'[i] = ThrottledBy(m, flows[i], IsolationCeiling(i))
    BY <1>2, <1>6
  <2>3. decisions'[i] = ThrottledBy(decisions[i], flows[i], IsolationCeiling(i))
    BY <1>4, <2>1, <2>2
  <2>4. flows'[i] = Squeezed(flows[i], IsolationCeiling(i)) BY <1>6, <2>1
  <2>5. /\ DecisionShape(decisions[i]) /\ decisions[i].grant = Envelope(flows[i])
        /\ ~decisions[i].invalidated /\ decisions[i].policy = policyGen
    BY <1>1, <2>1 DEF AgreesAt, LiveDecision
  <2>6. flows[i] = [group |-> flows[i].group, phase |-> flows[i].phase,
                    class |-> flows[i].class, prio |-> flows[i].prio,
                    min |-> flows[i].min, max |-> flows[i].max,
                    bytes |-> flows[i].bytes, authority |-> flows[i].authority]
    BY <2>1 DEF HeldInv, FlowShape
  <2>7. /\ DecisionShape(decisions'[i]) /\ decisions'[i].outcome \in Admitting
        /\ ~decisions'[i].invalidated /\ decisions'[i].policy = decisions[i].policy
        /\ decisions'[i].grant = Envelope(Squeezed(flows[i], IsolationCeiling(i)))
    BY <2>3, <2>5, <2>6, SqueezedEnvelope
  <2> QED BY <1>1, <2>1, <2>4, <2>5, <2>7 DEF AgreesAt, LiveDecision
<1> QED BY <1>5, <1>6

LEMMA BurstAgrees ==
  ASSUME HeldInv, AgreeInv, NEW t, NEW g, BeginCheckpointBurst(t, g)
  PROVE  AgreeInv'
<1>1. PICK out, cut : out = Displaced(g) /\ cut = Throttled(g) OBVIOUS
<1>2. /\ flows' = [i \in DOMAIN flows \ out |->
                     IF i \in cut THEN Squeezed(flows[i], IsolationCeiling(i)) ELSE flows[i]]
      /\ DOMAIN receipts' = out \cup DOMAIN receipts
      /\ nextIntent' = nextIntent /\ policyGen' = policyGen
  BY <1>1 DEF BeginCheckpointBurst, CancelledReceipts, configVars
<1>3. decisions' =
        [i \in DOMAIN Withdrawn(out, "Defer") |->
           IF i \in cut
           THEN ThrottledBy(Withdrawn(out, "Defer")[i], flows[i], IsolationCeiling(i))
           ELSE Withdrawn(out, "Defer")[i]]
  BY <1>1 DEF BeginCheckpointBurst, ThrottledBy, Rerated
<1>4. DOMAIN Withdrawn(out, "Defer") = DOMAIN decisions BY DEF Withdrawn
<1>5. cut \subseteq DOMAIN flows \ out
  BY <1>1 DEF Displaced, Throttled, Exposed, FlowsOf
<1>6. /\ DOMAIN flows' = DOMAIN flows \ out
      /\ \A i \in DOMAIN flows' :
           flows'[i] = IF i \in cut THEN Squeezed(flows[i], IsolationCeiling(i)) ELSE flows[i]
  BY <1>2
<1>7. /\ DOMAIN decisions' = DOMAIN decisions
      /\ \A i \in DOMAIN decisions :
           decisions'[i] = IF i \in cut
                           THEN ThrottledBy(Withdrawn(out, "Defer")[i], flows[i],
                                            IsolationCeiling(i))
                           ELSE Withdrawn(out, "Defer")[i]
  BY <1>3, <1>4
<1> QED BY <1>2, <1>5, <1>6, <1>7, CutAgrees

LEMMA TrafficAgrees ==
  ASSUME FabricAssumption, AllStrict, HeldInv, CreditInv, BoundInv, AgreeInv, Traffic
  PROVE  AgreeInv'
<1>1. ASSUME NEW t, NEW i, NEW bytes, NEW cancelled, CompleteFlow(t, i, bytes, cancelled)
      PROVE  AgreeInv'
  <2>1. /\ {i} \subseteq DOMAIN flows /\ DOMAIN flows' = DOMAIN flows \ {i}
        /\ \A j \in DOMAIN flows' : flows'[j] = flows[j]
        /\ DOMAIN receipts' = {i} \cup DOMAIN receipts
        /\ decisions' = decisions /\ nextIntent' = nextIntent /\ policyGen' = policyGen
    BY <1>1 DEF CompleteFlow, FlowsWithout, Put, configVars, idVars
  <2> QED BY <2>1, ClosedAgree
<1>2. ASSUME NEW t, NEW b, EndCheckpointBurst(t, b) PROVE AgreeInv'
  BY <1>2, UntouchedAgree DEF EndCheckpointBurst, configVars, idVars, recordVars
<1> QED BY <1>1, <1>2, RequestAgrees, RevalidateAgrees, BurstAgrees DEF Traffic

LEMMA RecoveryAgrees ==
  ASSUME AgreeInv, Recovery
  PROVE  AgreeInv'
<1>1. FenceOpenStep /\ nextIntent' = nextIntent /\ policyGen' = policyGen
  BY DEF Recovery, AdmitReplacement, RetireIncarnation, configVars
<1> QED BY <1>1, FenceAgrees

LEMMA NextAgrees ==
  FabricAssumption /\ AllStrict /\ HeldInv /\ CreditInv /\ BoundInv /\ AgreeInv /\ [Next]_vars
    => AgreeInv'
<1> SUFFICES ASSUME FabricAssumption, AllStrict, HeldInv, CreditInv, BoundInv, AgreeInv,
                    [Next]_vars
             PROVE  AgreeInv'
  OBVIOUS
<1>1. CASE UNCHANGED vars
  BY <1>1, UntouchedAgree DEF vars, configVars, ledgerVars, idVars, recordVars
<1>2. CASE Next
  BY <1>2, RegistrationAgrees, LifecycleAgrees, TrafficAgrees, RecoveryAgrees DEF Next
<1> QED BY <1>1, <1>2

(***************************************************************************)
(* When every policy is strict, what is retained of a decision agrees with *)
(* the flows: the decision of a live flow stands and states its grant, and *)
(* one that still reads as admitted has a flow that is live or has its     *)
(* receipt (record_decision and the five places that rewrite decisions).   *)
(***************************************************************************)
THEOREM DecisionsTellTheTruth ==
  ASSUME AllStrict
  PROVE  FabricSpec => []DecisionsAgree
<1>1. Init => CreditInv /\ AgreeInv BY DEF Init, CreditInv, AgreeInv
<1>2. Init => BoundInv
  BY FabricAssumption DEF FabricAssumption, Init, BoundInv, TopologyBound
<1>3. CreditInv /\ [Next]_vars => CreditInv' BY NextCredits DEF Credited
<1>4. HeldInv /\ BoundInv /\ [Next]_vars => BoundInv' BY NextBound
<1>5. HeldInv /\ CreditInv /\ BoundInv /\ AgreeInv /\ [Next]_vars => AgreeInv'
  BY FabricAssumption, NextAgrees
<1>6. AgreeInv => DecisionsAgree BY AgreeSuffices
<1> QED BY <1>1, <1>2, <1>3, <1>4, <1>5, <1>6, HeldInvariant, PTL DEF FabricSpec
=============================================================================
