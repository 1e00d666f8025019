---------------------------- MODULE GrantProofs ------------------------------
(***************************************************************************)
(* What Fabric may grant: the capacity of a link, the ceilings of a class, *)
(* the isolation of a checkpoint burst; what becomes of a grant, whom an   *)
(* admission displaces, and, last, the type of every variable.             *)
(***************************************************************************)
EXTENDS LedgerProofs

-----------------------------------------------------------------------------
(* Capacity.                                                               *)

\* Under strict policies no flow outlives the evidence it was granted on.
LEMMA EvidenceStays ==
  ASSUME AllStrict, NumberInv, [Next]_vars
  PROVE  topology' = topology \/ DOMAIN flows' = {}
<1>1. CASE UNCHANGED vars BY <1>1 DEF vars, configVars
<1>2. ASSUME Registration PROVE topology' = topology \/ DOMAIN flows' = {}
  <2>1. ASSUME NEW t, NEW cap, PublishTopology(t, cap) PROVE DOMAIN flows' = {}
    <3>1. Doc.strict BY DEF AllStrict, NumberInv, Doc
    <3> QED BY <2>1, <3>1, StrictClosesAll DEF PublishTopology
  <2> QED BY <1>2, <2>1 DEF Registration, ApplyPolicy, RebaseEpoch, RegisterGroup, RetireJob,
                            configVars
<1>3. ASSUME Lifecycle PROVE topology' = topology
  BY <1>3 DEF Lifecycle, BeginStep, BeginPhase, EndPhase, EndStep, configVars
<1>4. ASSUME Traffic PROVE topology' = topology BY ONLY <1>4, TrafficKeeps DEF TrafficKept
<1>5. ASSUME Recovery PROVE topology' = topology
  BY <1>5 DEF Recovery, AdmitReplacement, RetireIncarnation, configVars
<1> QED BY <1>1, <1>2, <1>3, <1>4, <1>5 DEF Next

GrantedTo(g) ==
  \E t \in Tokens, p \in 1 .. nextPhase, it \in Intents : FlowGranted(t, p, it) /\ it.group = g

LEMMA ReleasedFalls ==
  ASSUME NumberInv, NEW S, NEW g \in Groups
  PROVE  UtilizedWithout(S)[g] \in Nat /\ UtilizedWithout(S)[g] <= utilized[g]
<1>1. PICK T : T = S \cap FlowsOf(g) OBVIOUS
<1>2. T \subseteq DOMAIN flows BY <1>1 DEF FlowsOf
<1>3. PICK m \in Nat : m = MinSum(T) BY <1>2, SumSubset
<1>4. PICK u \in Nat : u = utilized[g] BY DEF NumberInv
<1>5. UtilizedWithout(S)[g] = Monus(u, m) BY <1>1, <1>3, <1>4 DEF UtilizedWithout
<1>6. Monus(u, m) \in Nat /\ Monus(u, m) <= u BY DEF Monus
<1> QED BY <1>4, <1>5, <1>6

\* Only an admission adds to the utilisation, and only to that of its group.
LEMMA UtilizationFalls ==
  ASSUME HeldInv, MatchInv, NumberInv, BooksMove, NEW g \in Groups, ~GrantedTo(g)
  PROVE  utilized'[g] <= utilized[g]
<1>0. utilized[g] \in Nat BY DEF NumberInv
<1>1. ASSUME BooksKept PROVE utilized'[g] <= utilized[g] BY <1>0, <1>1 DEF BooksKept
<1>2. ASSUME NEW o \in Groups, GroupOpened(o) PROVE utilized'[g] <= utilized[g]
  BY <1>0, <1>2 DEF GroupOpened, NumberInv
<1>3. ASSUME NEW S, FlowsCancelled(S) PROVE utilized'[g] <= utilized[g]
  BY <1>3, ReleasedFalls DEF FlowsCancelled
<1>4. ASSUME StepClosed PROVE utilized'[g] <= utilized[g]
  BY <1>4, ReleasedFalls DEF StepClosed, CloseStep
<1>5. ASSUME NEW t, NEW i, NEW bytes, NEW c, CompleteFlow(t, i, bytes, c)
      PROVE  utilized'[g] <= utilized[g]
  BY <1>5, ReleasedFalls DEF CompleteFlow
<1>6. ASSUME NEW t \in Tokens, NEW p \in 1 .. nextPhase, NEW it \in Intents, FlowGranted(t, p, it)
      PROVE  utilized'[g] <= utilized[g]
  <2>1. it.group # g BY <1>6 DEF GrantedTo
  <2>2. PICK u : u = UtilizedWithout(RequestVictims(p, it)) OBVIOUS
  <2>3. utilized' = [u EXCEPT ![it.group] = @ + MinRate(p, it)]
    BY <1>6, <2>2 DEF FlowGranted, Admitted, Grant
  <2>4. DOMAIN u = Groups /\ u[g] <= utilized[g] BY <2>2, ReleasedFalls DEF UtilizedWithout
  <2> QED BY <2>1, <2>3, <2>4
<1>7. ASSUME NEW t, NEW b \in Groups, BeginCheckpointBurst(t, b) PROVE utilized'[g] <= utilized[g]
  <2>1. PICK u, slack : u = UtilizedWithout(Displaced(b)) /\ slack = Slack(b) OBVIOUS
  <2>2. utilized' = [u EXCEPT ![b] = Monus(@, slack)]
    BY <1>7, <2>1 DEF BeginCheckpointBurst, Slack
  <2>3. DOMAIN u = Groups /\ u[g] \in Nat /\ u[g] <= utilized[g]
    BY <2>1, ReleasedFalls DEF UtilizedWithout
  <2>4. slack \in Nat
    <3>1. PICK S : S = DOMAIN flows' OBVIOUS
    <3>2. Throttled(b) \subseteq S
      BY <1>7, <3>1, BurstDoes DEF FlowsOf
    <3> QED BY <1>7, <2>1, <3>1, <3>2, SumThrottled
  <2>5. Monus(u[g], slack) <= u[g] BY <2>3, <2>4 DEF Monus
  <2>6. Monus(u[g], slack) \in Nat BY <2>3, <2>4 DEF Monus
  <2>7. utilized'[g] = u[g] \/ utilized'[g] = Monus(u[g], slack) BY <2>2, <2>3
  <2> QED BY <1>0, <2>3, <2>5, <2>6, <2>7
<1> QED BY <1>1, <1>2, <1>3, <1>4, <1>5, <1>6, <1>7 DEF BooksMove

\* A group in which nothing lived stays empty, but for an admission.
LEMMA FlowsComeByGrant ==
  ASSUME HeldInv, MatchInv, NumberInv, FlowsMove, NEW g, ~GrantedTo(g), FlowsOf(g)' # {}
  PROVE  FlowsOf(g) # {}
<1>1. PICK i \in DOMAIN flows' : flows'[i].group = g BY DEF FlowsOf
<1>2. CASE i \in DOMAIN flows /\ flows'[i] = flows[i] BY <1>1, <1>2 DEF FlowsOf
<1>3. CASE /\ i \in DOMAIN flows /\ i \in Exposed(flows[i].group)
           /\ IsolationCeiling(i) < flows[i].min
           /\ flows'[i] = Squeezed(flows[i], IsolationCeiling(i))
  <2>1. PICK f, c : f = flows[i] /\ flows'[i] = Rated(f, c, c) BY <1>3, SqueezedFlow
  <2>2. flows[i].group = g BY <1>1, <2>1 DEF Rated
  <2> QED BY <1>3, <2>2 DEF FlowsOf
<1>4. ASSUME NEW t \in Tokens, NEW p \in 1 .. nextPhase, NEW it \in Intents,
             FlowGranted(t, p, it), flows'[i] = Flow(t, it, GrantOf(p, it))
      PROVE  FALSE
  <2>1. flows'[i].group = it.group BY <1>4, GrantNumbers DEF FlowGranted
  <2> QED BY <1>1, <1>4, <2>1 DEF GrantedTo
<1> QED BY <1>1, <1>2, <1>3, <1>4 DEF FlowsMove

\* An admission fits what the link has left once its victims are gone.
LEMMA GrantFits ==
  ASSUME NumberInv, UtilizationMatchesFlows, WithinCapacity,
         NEW t, NEW p, NEW it \in Intents, FlowGranted(t, p, it)
  PROVE  it.group \in DOMAIN topology.cap /\ utilized'[it.group] <= topology.cap[it.group]
<1>1. Admitted(t, p, it) /\ it.group \in DOMAIN topology.cap
  BY DEF FlowGranted, Admitted, Fits
<1>2. p \in DOMAIN step.phases /\ RequestVictims(p, it) \subseteq FlowsOf(it.group)
  BY <1>1, AdmittedFlows
<1>3. it.group \in Groups /\ MinRate(p, it) \in Nat BY <1>2, RateNumbers
<1>4. PICK V, F, g : V = RequestVictims(p, it) /\ F = FlowsOf(g) /\ g = it.group OBVIOUS
<1>5. V \subseteq F /\ F \subseteq DOMAIN flows BY <1>2, <1>4 DEF FlowsOf
<1>6. PICK cap \in Nat : cap = topology.cap[g] BY <1>1, <1>4 DEF NumberInv
<1>7. PICK v, r : v \in Nat /\ r \in Nat /\ v = MinSum(V) /\ MinSum(F) = v + r
  <2>1. /\ MinSum(V) \in Nat /\ MinSum(F \ V) \in Nat
        /\ MinSum(F) = MinSum(V) + MinSum(F \ V)
    BY <1>5, SumSubset
  <2> QED BY <2>1
<1>8. utilized[g] = v + r BY <1>3, <1>4, <1>7 DEF UtilizationMatchesFlows
<1>9. v + r <= cap
  <2>1. CASE F = {}
    <3>1. MinSum(F) = 0 BY <2>1, SumEmpty
    <3> QED BY <1>7, <3>1
  <2>2. CASE F # {} BY <1>3, <1>4, <1>6, <1>7, <2>2 DEF WithinCapacity
  <2> QED BY <2>1, <2>2
<1>10. PICK min \in Nat : min = MinRate(p, it) BY <1>3
<1>11. min <= (cap - (v + r)) + v
  <2>1. min <= Monus(cap, v + r) + v
    BY <1>4, <1>6, <1>7, <1>8, <1>10 DEF FlowGranted, Admitted, Fits, Reach, Available
  <2>2. Monus(cap, v + r) = cap - (v + r) BY <1>9 DEF Monus
  <2> QED BY <2>1, <2>2
<1>12. PICK u : u = UtilizedWithout(V) OBVIOUS
<1>13. u[g] = r /\ DOMAIN u = Groups
  <2>1. V \cap FlowsOf(g) = V BY <1>4, <1>5
  <2>2. u[g] = Monus(v + r, v) BY <1>3, <1>4, <1>7, <1>8, <1>12, <2>1 DEF UtilizedWithout
  <2>3. Monus(v + r, v) = r BY <1>7 DEF Monus
  <2> QED BY <1>12, <2>2, <2>3 DEF UtilizedWithout
<1>14. utilized' = [u EXCEPT ![it.group] = @ + MinRate(p, it)]
  BY <1>1, <1>4, <1>12 DEF Admitted, Grant
<1>15. utilized'[g] = r + min BY <1>3, <1>4, <1>10, <1>13, <1>14
<1>16. r + min <= cap BY <1>7, <1>11
<1> QED BY <1>1, <1>4, <1>6, <1>15, <1>16

LEMMA NextWithinCapacity ==
  ASSUME AllStrict, HeldInv, MatchInv, NumberInv, UtilizationMatchesFlows,
         UtilizationMatchesFlows', WithinCapacity, [Next]_vars
  PROVE  WithinCapacity'
<1> SUFFICES ASSUME NEW g \in Groups, FlowsOf(g)' # {}
             PROVE  g \in DOMAIN topology'.cap /\ MinSum(FlowsOf(g))' <= topology'.cap[g]
  BY DEF WithinCapacity
<1>1. BooksMove /\ FlowsMove BY NextMoves, NextFlows
<1>2. topology' = topology
  <2>1. DOMAIN flows' # {} BY DEF FlowsOf
  <2> QED BY <2>1, EvidenceStays
<1>3. MinSum(FlowsOf(g))' = utilized'[g] BY DEF UtilizationMatchesFlows
<1>4. CASE GrantedTo(g) BY <1>2, <1>3, <1>4, GrantFits DEF GrantedTo
<1>5. CASE ~GrantedTo(g)
  <2>1. FlowsOf(g) # {} /\ utilized'[g] <= utilized[g]
    BY <1>1, <1>5, FlowsComeByGrant, UtilizationFalls
  <2>2. /\ g \in DOMAIN topology.cap /\ topology.cap[g] \in Nat /\ utilized[g] \in Nat
        /\ utilized[g] <= topology.cap[g]
    BY <2>1 DEF WithinCapacity, UtilizationMatchesFlows, NumberInv
  <2>3. utilized'[g] \in Nat
    <3>1. NumberInv' BY NextNumbers
    <3> QED BY <3>1 DEF NumberInv
  <2> QED BY <1>2, <1>3, <2>1, <2>2, <2>3
<1> QED BY <1>4, <1>5

(***************************************************************************)
(* A link is never over-committed: in every reachable state the grants of  *)
(* the live flows of a group fit the capacity its evidence declares, when  *)
(* every policy is strict and callers name registered groups               *)
(* (arbitrate_capacity, invalidate_for_generation_change).                 *)
(***************************************************************************)
THEOREM CapacityHolds ==
  ASSUME AllStrict, RegisteredTrafficOnly
  PROVE  FabricSpec => []WithinCapacity
<1>1. Init => WithinCapacity BY DEF Init, WithinCapacity, FlowsOf
<1>2. /\ HeldInv /\ MatchInv /\ NumberInv
      /\ UtilizationMatchesFlows /\ UtilizationMatchesFlows'
      /\ WithinCapacity /\ [Next]_vars
      => WithinCapacity'
  BY NextWithinCapacity
<1> QED BY <1>1, <1>2, NumberInvariant, UtilizationIsExact, PTL DEF FabricSpec

-----------------------------------------------------------------------------
(***************************************************************************)
(* A checkpoint burst isolates its group for as long as it is active,      *)
(* under every sequence of strict policies.                                *)
(***************************************************************************)

BurstShape ==
  step.burst = [id |-> step.burst.id, group |-> step.burst.group, active |-> step.burst.active]

\* What a burst tells apart is defined: every phase has a class in the policy
\* in force, every flow a class with a specification and a rate.
ClassesKnown ==
  /\ BurstShape
  /\ policyGen \in DOMAIN Policies
  /\ \A p \in DOMAIN step.phases : step.phases[p].cls \in DOMAIN Doc.classOf
  /\ \A i \in DOMAIN flows : flows[i].class \in DOMAIN Doc.spec /\ flows[i].min \in Nat

IsolationInv == ClassesKnown /\ IsolationHolds

\* Closing flows, with the burst and the classes of the phases as they were.
LEMMA FewerIsolated ==
  ASSUME IsolationInv, policyGen' = policyGen,
         \A i \in DOMAIN flows' : i \in DOMAIN flows /\ flows'[i] = flows[i],
         step'.burst \in {step.burst, [step.burst EXCEPT !.active = FALSE]},
         \A p \in DOMAIN step'.phases :
           p \in DOMAIN step.phases /\ step'.phases[p].cls = step.phases[p].cls
  PROVE  IsolationInv'
<1>1. ClassesKnown' BY DEF IsolationInv, ClassesKnown, BurstShape, Doc
<1>2. step'.burst = step.burst \/ ~step'.burst.active
  BY DEF IsolationInv, ClassesKnown, BurstShape
<1>3. IsolationHolds'
  BY <1>2 DEF IsolationInv, IsolationHolds, IsolationCeiling, FlowsOf, Spec, Doc
<1> QED BY <1>1, <1>3 DEF IsolationInv

\* With no flow there is nothing to isolate.
LEMMA NoneIsolated ==
  ASSUME IsolationInv, DOMAIN flows' = {}, policyGen' \in DOMAIN Policies,
         step'.burst \in {step.burst, NoBurst},
         \A p \in DOMAIN step'.phases : step'.phases[p].cls \in DOMAIN Doc'.classOf
  PROVE  IsolationInv'
BY DEF IsolationInv, ClassesKnown, BurstShape, NoBurst, IsolationHolds, FlowsOf

LEMMA FenceIsolates ==
  ASSUME IsolationInv, FenceOpenStep, policyGen' = policyGen
  PROVE  IsolationInv'
<1>1. CASE CloseStep
  BY <1>1, NoneIsolated DEF CloseStep, NoStep, IsolationInv, ClassesKnown
<1>2. CASE flows' = flows /\ step' = step BY <1>2, FewerIsolated
<1> QED BY <1>1, <1>2 DEF FenceOpenStep

LEMMA RegistrationIsolates ==
  ASSUME AllStrict, HeldInv, IsolationInv, Registration
  PROVE  IsolationInv'
<1>1. ASSUME NEW k \in DOMAIN Policies, ApplyPolicy(k) PROVE IsolationInv'
  <2>1. Policies[k].strict BY DEF AllStrict
  <2>2. DOMAIN flows' = {} BY <1>1, <2>1, StrictClosesAll DEF ApplyPolicy
  <2>3. policyGen' = k /\ \E a : step' = [step EXCEPT !.acct = a]
    BY <1>1 DEF ApplyPolicy, Invalidate
  <2>4. step'.phases = step.phases /\ step'.burst = step.burst BY <2>3, BookKept
  <2>5. DOMAIN Doc'.classOf = DOMAIN Doc.classOf
    BY <2>3, PolicyFacts DEF IsolationInv, ClassesKnown, Doc
  <2> QED BY <2>2, <2>3, <2>4, <2>5, NoneIsolated DEF IsolationInv, ClassesKnown
<1>2. ASSUME NEW e, RebaseEpoch(e) PROVE IsolationInv'
  BY <1>2, FewerIsolated DEF RebaseEpoch, configVars, ledgerVars
<1>3. ASSUME NEW t, NEW g, RegisterGroup(t, g) PROVE IsolationInv'
  BY <1>3, FewerIsolated DEF RegisterGroup
<1>4. ASSUME NEW t, NEW cap, PublishTopology(t, cap) PROVE IsolationInv'
  <2>1. PICK a, S : /\ step' = [step EXCEPT !.acct = a]
                    /\ flows' = FlowsWithout(S) /\ policyGen' = policyGen
    BY <1>4 DEF PublishTopology, Invalidate
  <2>2. step'.burst = step.burst /\ step'.phases = step.phases BY <2>1, BookKept
  <2> QED BY <2>1, <2>2, FewerIsolated DEF FlowsWithout
<1>5. ASSUME NEW t, RetireJob(t) PROVE IsolationInv'
  BY <1>5, FenceIsolates DEF RetireJob, configVars
<1> QED BY <1>1, <1>2, <1>3, <1>4, <1>5 DEF Registration

LEMMA LifecycleIsolates ==
  ASSUME HeldInv, IsolationInv, Lifecycle
  PROVE  IsolationInv'
<1>1. ASSUME NEW t, NEW s, BeginStep(t, s) PROVE IsolationInv'
  <2>1. /\ step'.phases = <<>> /\ DOMAIN flows' = {} /\ policyGen' = policyGen
        /\ step'.burst = NoBurst
    BY <1>1 DEF BeginStep, NoStep, HeldInv, OpenStepIsHeld, configVars
  <2> QED BY <2>1, NoneIsolated DEF IsolationInv, ClassesKnown
<1>2. ASSUME NEW t, NEW cls \in DOMAIN Doc.classOf, NEW g, BeginPhase(t, cls, g)
      PROVE  IsolationInv'
  <2> DEFINE f == [cls |-> cls, group |-> g, open |-> TRUE]
  <2>1. /\ step' = [step EXCEPT !.phases = Put(@, nextPhase, f)]
        /\ flows' = flows /\ policyGen' = policyGen
    BY <1>2 DEF BeginPhase, configVars
  <2>2. f.cls = cls OBVIOUS
  <2> HIDE DEF f
  <2>3. step'.phases = Put(step.phases, nextPhase, f) /\ step'.burst = step.burst
    BY <2>1 DEF HeldInv, StepShape
  <2>4. \A p \in DOMAIN step'.phases :
          \/ p \in DOMAIN step.phases /\ step'.phases[p] = step.phases[p]
          \/ step'.phases[p] = f
    BY <2>3 DEF Put
  <2>5. ClassesKnown'
    BY <2>1, <2>2, <2>3, <2>4 DEF IsolationInv, ClassesKnown, BurstShape, Doc
  <2>6. IsolationHolds'
    BY <2>1, <2>3 DEF IsolationInv, IsolationHolds, IsolationCeiling, FlowsOf, Spec, Doc
  <2> QED BY <2>5, <2>6 DEF IsolationInv
<1>3. ASSUME NEW t, NEW p, EndPhase(t, p) PROVE IsolationInv'
  <2>1. PICK a, S : /\ step' = [step EXCEPT !.acct = a, !.phases[p].open = FALSE]
                    /\ p \in DOMAIN step.phases
                    /\ flows' = FlowsWithout(S) /\ policyGen' = policyGen
    BY <1>3 DEF EndPhase, configVars
  <2>2. /\ step'.phases = [step.phases EXCEPT ![p].open = FALSE]
        /\ step'.burst = step.burst
    <3>1. step' = [id |-> step.id, incarnation |-> step.incarnation, seen |-> step.seen,
                   phases |-> [step.phases EXCEPT ![p].open = FALSE],
                   burst |-> step.burst, acct |-> a]
      BY <2>1 DEF HeldInv, StepShape
    <3> QED BY <3>1
  <2>3. \A q \in DOMAIN step'.phases :
          q \in DOMAIN step.phases /\ step'.phases[q].cls = step.phases[q].cls
    <3>1. DOMAIN step'.phases = DOMAIN step.phases BY <2>2
    <3>2. \A q \in DOMAIN step.phases : q # p => step'.phases[q] = step.phases[q] BY <2>2
    <3>3. step'.phases[p] = [step.phases[p] EXCEPT !.open = FALSE] BY <2>1, <2>2
    <3>4. step'.phases[p].cls = step.phases[p].cls BY <2>1, <3>3 DEF HeldInv, StepShape
    <3> QED BY <3>1, <3>2, <3>4
  <2> QED BY <2>1, <2>2, <2>3, FewerIsolated DEF FlowsWithout
<1>4. ASSUME NEW t, EndStep(t) PROVE IsolationInv'
  BY <1>4, NoneIsolated DEF EndStep, CloseStep, NoStep, configVars, IsolationInv, ClassesKnown
<1> QED BY <1>1, <1>2, <1>3, <1>4 DEF Lifecycle

-----------------------------------------------------------------------------
(* Requests and bursts.                                                    *)

\* While the burst is active only checkpoint and critical traffic gets in.
LEMMA AdmittedIsolates ==
  ASSUME HeldInv, IsolationInv, policyGen' = policyGen,
         NEW t, NEW p, NEW it \in Intents, Admitted(t, p, it)
  PROVE  IsolationInv'
<1> DEFINE victims == RequestVictims(p, it)
           grant == Grant(p, it, MinRate(p, it),
                          MaxOf2(MinRate(p, it), MinOf2(MaxRate(p, it), Reach(p, it))))
           new == Flow(t, it, grant)
<1>1. flows' = Put(FlowsWithout(victims), nextIntent, new) BY DEF Admitted
<1>2. step'.burst = step.burst /\ step'.phases = step.phases
  <2>1. PICK n, a : step' = [step EXCEPT !.seen = n, !.acct = a]
    BY DEF Admitted
  <2> QED BY <2>1, BookKept
<1>3. new.class = ClassOf(p) /\ new.group = it.group /\ new.min = MinRate(p, it)
  BY DEF Flow, Grant
<1>4. p \in DOMAIN step.phases BY DEF Admitted, InPhase
<1>5. ClassOf(p) \in DOMAIN Doc.spec
  BY <1>4, PolicyFacts DEF IsolationInv, ClassesKnown, ClassOf, Doc
<1>6. MinRate(p, it) \in Nat
  <2>1. it.min \in Nat BY FabricAssumption DEF FabricAssumption
  <2>2. Spec(ClassOf(p)).floor \in Nat
    BY <1>5, PolicyFacts DEF IsolationInv, ClassesKnown, Spec, Doc
  <2> QED BY <2>1, <2>2 DEF MinRate, MaxOf2
<1>7. step.burst.active /\ step.burst.group = it.group =>
        ClassOf(p) = Checkpoint \/ Spec(ClassOf(p)).critical
  BY DEF Admitted, HeldByBurst, Isolated
<1> HIDE DEF victims, grant, new
<1>8. \A i \in DOMAIN flows' :
        \/ i \in DOMAIN flows /\ flows'[i] = flows[i]
        \/ flows'[i] = new
  BY <1>1 DEF Put, FlowsWithout
<1>9. Doc' = Doc BY DEF Doc
<1>10. ClassesKnown'
  BY <1>2, <1>3, <1>5, <1>6, <1>8, <1>9 DEF IsolationInv, ClassesKnown, BurstShape
<1>11. IsolationHolds'
  BY <1>2, <1>3, <1>7, <1>8, <1>9
  DEF IsolationInv, IsolationHolds, IsolationCeiling, FlowsOf, Spec
<1> QED BY <1>10, <1>11 DEF IsolationInv

\* The burst displaces or throttles whatever its class does not let stand.
LEMMA BurstIsolates ==
  ASSUME HeldInv, IsolationInv, NEW t, NEW g, BeginCheckpointBurst(t, g)
  PROVE  IsolationInv'
<1>1. PICK out, cut : out = Displaced(g) /\ cut = Throttled(g) OBVIOUS
<1>2. /\ flows' = [i \in DOMAIN flows \ out |->
                     IF i \in cut THEN Squeezed(flows[i], IsolationCeiling(i)) ELSE flows[i]]
      /\ policyGen' = policyGen
  BY <1>1 DEF BeginCheckpointBurst, configVars
<1>3. PICK a : step' = [step EXCEPT !.burst = [id |-> nextBurst, group |-> g, active |-> TRUE],
                          !.acct = a]
  BY DEF BeginCheckpointBurst
<1>4. /\ step'.burst = [id |-> nextBurst, group |-> g, active |-> TRUE]
      /\ step'.phases = step.phases
  BY <1>3 DEF HeldInv, StepShape
<1>5. Doc' = Doc BY <1>2 DEF Doc
<1>6. ASSUME NEW i \in DOMAIN flows'
      PROVE  /\ i \in DOMAIN flows \ out
             /\ flows'[i].class = flows[i].class /\ flows'[i].group = flows[i].group
             /\ flows'[i].min = IF i \in cut THEN IsolationCeiling(i) ELSE flows[i].min
  <2>1. i \in DOMAIN flows \ out BY <1>2
  <2>2. CASE i \in cut
    <3>1. flows'[i] = [flows[i] EXCEPT !.min = IsolationCeiling(i),
                         !.max = MinOf2(flows[i].max, IsolationCeiling(i))]
      BY <1>2, <2>1, <2>2 DEF Squeezed, HeldInv, FlowShape
    <3> QED BY <2>1, <2>2, <3>1 DEF HeldInv, FlowShape
  <2>3. CASE i \notin cut BY <1>2, <2>1, <2>3
  <2> QED BY <2>2, <2>3
<1>7. \A i \in DOMAIN flows :
        flows[i].class \in DOMAIN Doc.spec /\ flows[i].min \in Nat /\ IsolationCeiling(i) \in Nat
  BY PolicyFacts DEF IsolationInv, ClassesKnown, IsolationCeiling, Spec, Doc
<1>8. ClassesKnown'
  BY <1>2, <1>4, <1>5, <1>6, <1>7 DEF IsolationInv, ClassesKnown, BurstShape
<1>9. ASSUME NEW i \in DOMAIN flows', flows'[i].group = g
      PROVE  \/ flows'[i].class = Checkpoint
             \/ Spec(flows'[i].class).critical
             \/ IsolationCeiling(i) # 0 /\ flows'[i].min <= IsolationCeiling(i)
  <2>1. i \in FlowsOf(g) /\ i \notin out BY <1>6, <1>9 DEF FlowsOf
  <2>2. CASE i \notin Exposed(g)
    BY <1>6, <1>7, <2>1, <2>2 DEF Exposed
  <2>3. CASE i \in Exposed(g)
    <3>1. IsolationCeiling(i) # 0 BY <1>1, <2>1, <2>3 DEF Displaced
    <3>2. i \notin cut => flows[i].min <= IsolationCeiling(i)
      BY <1>1, <1>6, <1>7, <2>3, <3>1 DEF Throttled
    <3> QED BY <1>6, <1>7, <3>1, <3>2
  <2> QED BY <2>2, <2>3
<1>10. IsolationHolds'
  BY <1>4, <1>5, <1>6, <1>9 DEF IsolationHolds, IsolationCeiling, FlowsOf, Spec
<1> QED BY <1>8, <1>10 DEF IsolationInv

LEMMA TrafficIsolates ==
  ASSUME HeldInv, IsolationInv, Traffic
  PROVE  IsolationInv'
<1>0. policyGen' = policyGen BY TrafficKeeps DEF TrafficKept
<1>1. ASSUME NEW t, NEW p, NEW it \in Intents, RequestTraffic(t, p, it) PROVE IsolationInv'
  <2>1. ASSUME NEW d, Refuse(d) PROVE IsolationInv'
    <3>1. step'.burst = step.burst /\ step'.phases = step.phases
      BY <2>1, BookKept DEF Refuse
    <3> QED BY <1>0, <2>1, <3>1, FewerIsolated DEF Refuse
  <2>2. CASE Unresolved(t, p) BY <1>0, <2>2, FewerIsolated DEF Unresolved
  <2>3. CASE Rejected(t, p, it) BY <2>1, <2>3 DEF Rejected
  <2>4. CASE Held(t, p, it) BY <2>1, <2>4 DEF Held
  <2>5. CASE Admitted(t, p, it) BY <1>0, <2>5, AdmittedIsolates
  <2> QED BY <1>1, <2>2, <2>3, <2>4, <2>5 DEF RequestTraffic
<1>2. ASSUME NEW t, NEW i, NEW bytes, NEW cancelled, CompleteFlow(t, i, bytes, cancelled)
      PROVE  IsolationInv'
  <2>1. PICK a : step' = [step EXCEPT !.acct = a] BY <1>2 DEF CompleteFlow
  <2>2. step'.burst = step.burst /\ step'.phases = step.phases BY <2>1, BookKept
  <2> QED BY <1>0, <1>2, <2>2, FewerIsolated DEF CompleteFlow, FlowsWithout
<1>3. ASSUME NEW t, NEW i, RevalidateFlow(t, i) PROVE IsolationInv'
  BY <1>0, <1>3, FewerIsolated DEF RevalidateFlow, ledgerVars
<1>4. ASSUME NEW t, NEW b, EndCheckpointBurst(t, b) PROVE IsolationInv'
  <2>1. step'.phases = step.phases /\ step'.burst = [step.burst EXCEPT !.active = FALSE]
    BY <1>4 DEF EndCheckpointBurst, HeldInv, StepShape
  <2> QED BY <1>0, <1>4, <2>1, FewerIsolated DEF EndCheckpointBurst
<1> QED BY <1>1, <1>2, <1>3, <1>4, BurstIsolates DEF Traffic

LEMMA RecoveryIsolates ==
  ASSUME IsolationInv, Recovery
  PROVE  IsolationInv'
<1>1. FenceOpenStep /\ policyGen' = policyGen
  BY DEF Recovery, AdmitReplacement, RetireIncarnation, configVars
<1> QED BY <1>1, FenceIsolates

LEMMA NextIsolates ==
  AllStrict /\ HeldInv /\ IsolationInv /\ [Next]_vars => IsolationInv'
<1> SUFFICES ASSUME AllStrict, HeldInv, IsolationInv, [Next]_vars
             PROVE  IsolationInv'
  OBVIOUS
<1>1. CASE UNCHANGED vars
  BY <1>1, FewerIsolated DEF vars, configVars, ledgerVars
<1>2. CASE Next
  BY <1>2, RegistrationIsolates, LifecycleIsolates, TrafficIsolates, RecoveryIsolates DEF Next
<1> QED BY <1>1, <1>2

(***************************************************************************)
(* While a checkpoint burst is active in a group, no other traffic there   *)
(* is above the isolation ceiling of its class, however requests, evidence *)
(* and strict policies interleave (begin_checkpoint_burst).                *)
(***************************************************************************)
THEOREM BurstsIsolate ==
  ASSUME AllStrict
  PROVE  FabricSpec => []IsolationHolds
<1>1. Init => IsolationInv
  <2> SUFFICES ASSUME Init PROVE IsolationInv
    OBVIOUS
  <2>1. policyGen \in DOMAIN Policies BY FabricAssumption DEF FabricAssumption, Init
  <2>2. DOMAIN flows = {} /\ DOMAIN step.phases = {} /\ step.burst = NoBurst
    BY DEF Init, NoStep
  <2> QED BY <2>1, <2>2
      DEF IsolationInv, ClassesKnown, BurstShape, NoBurst, IsolationHolds, FlowsOf
<1>2. HeldInv /\ IsolationInv /\ [Next]_vars => IsolationInv'
  BY NextIsolates
<1>3. IsolationInv => IsolationHolds BY DEF IsolationInv
<1> QED BY <1>1, <1>2, <1>3, HeldInvariant, PTL DEF FabricSpec

-----------------------------------------------------------------------------
(* Ceilings.                                                               *)

\* A ceiling of 0 caps nothing, the one for UNKNOWN phases included
\* (request_traffic reads it as "none"; PolicyDocument::validate lets it pass).
UnknownCapped == \A k \in DOMAIN Policies : Policies[k].unknownCeiling # 0

CapInv ==
  \A i \in DOMAIN flows :
    Ceiling(flows[i].phase) # 0 => flows[i].max <= Ceiling(flows[i].phase)

\* Under strict policies no flow outlives the policy it was granted under.
LEMMA PolicyStays ==
  ASSUME AllStrict, NumberInv, [Next]_vars
  PROVE  policyGen' = policyGen \/ DOMAIN flows' = {}
<1>1. CASE UNCHANGED vars BY <1>1 DEF vars, configVars
<1>2. ASSUME Registration PROVE policyGen' = policyGen \/ DOMAIN flows' = {}
  <2>1. ASSUME NEW k \in DOMAIN Policies, ApplyPolicy(k) PROVE DOMAIN flows' = {}
    <3>1. Policies[k].strict BY DEF AllStrict
    <3> QED BY <2>1, <3>1, StrictClosesAll DEF ApplyPolicy
  <2> QED BY <1>2, <2>1 DEF Registration, PublishTopology, RebaseEpoch, RegisterGroup, RetireJob,
                            configVars
<1>3. ASSUME Lifecycle PROVE policyGen' = policyGen
  BY <1>3 DEF Lifecycle, BeginStep, BeginPhase, EndPhase, EndStep, configVars
<1>4. ASSUME Traffic PROVE policyGen' = policyGen BY ONLY <1>4, TrafficKeeps DEF TrafficKept
<1>5. ASSUME Recovery PROVE policyGen' = policyGen
  BY <1>5 DEF Recovery, AdmitReplacement, RetireIncarnation, configVars
<1> QED BY <1>1, <1>2, <1>3, <1>4, <1>5 DEF Next

\* While flows live, their phases and the ceilings of these stay.
LEMMA CeilingStays ==
  ASSUME AllStrict, HeldInv, MatchInv, NumberInv, [Next]_vars,
         DOMAIN flows' # {}, NEW p \in DOMAIN step.phases
  PROVE  Ceiling(p)' = Ceiling(p)
<1>1. policyGen' = policyGen BY PolicyStays
<1>2. HeldInv' BY FabricAssumption, NextHeld
<1>3. step'.phases # <<>>
  <2>1. PICK i : i \in DOMAIN flows' OBVIOUS
  <2>2. flows'[i].phase \in DOMAIN step'.phases BY <1>2, <2>1 DEF HeldInv, OpenStepIsHeld
  <2>3. DOMAIN <<>> = {} OBVIOUS
  <2> QED BY <2>2, <2>3
<1>4. step'.phases[p].cls = step.phases[p].cls BY <1>3, NextConfig DEF ConfigMoves
<1>5. ClassOf(p)' = ClassOf(p) /\ InUnknownPhase(p)' = InUnknownPhase(p)
  BY <1>1, <1>4 DEF ClassOf, InUnknownPhase, Doc
<1> QED BY <1>1, <1>5 DEF Ceiling, Spec, Doc

LEMMA CeilingNumber ==
  ASSUME NumberInv, NEW p \in DOMAIN step.phases
  PROVE  Ceiling(p) \in Nat
<1>1. Spec(ClassOf(p)).ceiling \in Nat BY ClassKnown, SpecNumbers
<1>2. Doc.unknownCeiling \in Nat
  <2>1. policyGen \in DOMAIN Policies BY DEF NumberInv
  <2>2. Policies[policyGen].unknownCeiling \in Nat BY <2>1, PolicyFacts
  <2> QED BY <2>2 DEF Doc
<1> QED BY <1>1, <1>2 DEF Ceiling, MinOf2

\* The envelope granted is within the ceiling of its phase.
LEMMA GrantCapped ==
  ASSUME NumberInv, NEW t, NEW p, NEW it \in Intents, Admitted(t, p, it), Ceiling(p) # 0
  PROVE  GrantOf(p, it).max <= Ceiling(p)
<1>1. p \in DOMAIN step.phases /\ it.group \in DOMAIN topology.cap
  BY AdmittedFlows DEF Admitted, Fits
<1>2. PICK lo, hi, top, c :
        /\ lo = MinRate(p, it) /\ hi = MaxRate(p, it) /\ top = Reach(p, it) /\ c = Ceiling(p)
  OBVIOUS
<1>3. lo \in Nat /\ hi \in Nat /\ top \in Nat /\ c \in Nat
  BY <1>1, <1>2, RateNumbers, ReachNumber
<1>4. lo <= hi BY <1>2 DEF Admitted, InEnvelope
<1>5. hi <= c
  <2>1. it.max \in Nat BY FabricAssumption DEF FabricAssumption
  <2>2. hi = MinOf2(it.max, c) BY <1>2 DEF MaxRate
  <2> QED BY <1>3, <2>1, <2>2 DEF MinOf2
<1>6. GrantOf(p, it).max = MaxOf2(lo, MinOf2(hi, top)) BY <1>2 DEF GrantOf, Grant
<1>7. MaxOf2(lo, MinOf2(hi, top)) <= c BY <1>3, <1>4, <1>5 DEF MaxOf2, MinOf2
<1> QED BY <1>2, <1>6, <1>7

LEMMA NextCapped ==
  ASSUME AllStrict, HeldInv, MatchInv, NumberInv, CapInv, [Next]_vars
  PROVE  CapInv'
<1> SUFFICES ASSUME NEW i \in DOMAIN flows', Ceiling(flows[i].phase)' # 0
             PROVE  flows'[i].max <= Ceiling(flows[i].phase)'
  BY DEF CapInv
<1>1. PICK p, new : new = flows'[i] /\ p = new.phase OBVIOUS
<1>2. Ceiling(flows[i].phase)' = Ceiling(p)' BY <1>1 DEF Ceiling, ClassOf, InUnknownPhase
<1>3. FlowsMove BY NextFlows
<1>4. ASSUME p \in DOMAIN step.phases, Ceiling(p) # 0 => new.max <= Ceiling(p)
      PROVE  flows'[i].max <= Ceiling(flows[i].phase)'
  <2>1. Ceiling(p)' = Ceiling(p) BY <1>4, CeilingStays
  <2> QED BY <1>1, <1>2, <1>4, <2>1
<1>5. CASE i \in DOMAIN flows /\ flows'[i] = flows[i]
  <2>1. p \in DOMAIN step.phases BY <1>1, <1>5 DEF HeldInv, OpenStepIsHeld
  <2> QED BY <1>1, <1>4, <1>5, <2>1 DEF CapInv
<1>6. CASE /\ i \in DOMAIN flows /\ i \in Exposed(flows[i].group)
           /\ IsolationCeiling(i) < flows[i].min
           /\ flows'[i] = Squeezed(flows[i], IsolationCeiling(i))
  <2>1. PICK f, c : f = flows[i] /\ c = IsolationCeiling(i) OBVIOUS
  <2>2. c \in Nat /\ new = Rated(f, c, c) BY <1>1, <1>6, <2>1, SqueezedFlow
  <2>3. p = f.phase /\ new.max = c BY <1>1, <2>2 DEF Rated
  <2>4. f.min \in Nat /\ f.max \in Nat /\ f.min <= f.max
    BY <1>6, <2>1 DEF NumberInv, FlowNumbers
  <2>5. p \in DOMAIN step.phases BY <1>6, <2>1, <2>3 DEF HeldInv, OpenStepIsHeld
  <2>6. Ceiling(p) # 0 => f.max <= Ceiling(p) BY <1>6, <2>1, <2>3 DEF CapInv
  <2>7. Ceiling(p) \in Nat
    BY <2>5, CeilingNumber
  <2>8. c < f.min BY <1>6, <2>1
  <2>9. Ceiling(p) # 0 => c <= Ceiling(p) BY <2>2, <2>4, <2>6, <2>7, <2>8
  <2> QED BY <1>4, <2>3, <2>5, <2>9
<1>7. ASSUME NEW t \in Tokens, NEW q \in 1 .. nextPhase, NEW it \in Intents,
             FlowGranted(t, q, it), flows'[i] = Flow(t, it, GrantOf(q, it))
      PROVE  flows'[i].max <= Ceiling(flows[i].phase)'
  <2>1. Admitted(t, q, it) BY <1>7 DEF FlowGranted
  <2>2. new.max = GrantOf(q, it).max /\ p = q BY <1>1, <1>7 DEF Flow, GrantOf, Grant
  <2>3. q \in DOMAIN step.phases BY <2>1, AdmittedFlows
  <2>4. Ceiling(q) # 0 => GrantOf(q, it).max <= Ceiling(q) BY <2>1, GrantCapped
  <2> QED BY <1>4, <2>2, <2>3, <2>4
<1> QED BY <1>3, <1>5, <1>6, <1>7 DEF FlowsMove

\* What the ceiling of its phase says of a flow.
LEMMA CappedFlows ==
  ASSUME UnknownCapped, HeldInv, MatchInv, NumberInv, CapInv
  PROVE  GrantsWithinCeilings
<1> SUFFICES ASSUME NEW i \in DOMAIN flows
             PROVE  /\ flows[i].min <= flows[i].max
                    /\ Spec(flows[i].class).ceiling # 0 =>
                         flows[i].max <= Spec(flows[i].class).ceiling
                    /\ InUnknownPhase(flows[i].phase) =>
                         flows[i].class = BestEffort /\ flows[i].max <= Doc.unknownCeiling
  BY DEF GrantsWithinCeilings
<1>1. PICK f, p : f = flows[i] /\ p = flows[i].phase OBVIOUS
<1>2. p \in DOMAIN step.phases BY <1>1 DEF HeldInv, OpenStepIsHeld
<1>3. f.class = ClassOf(p) BY <1>1 DEF MatchInv, FlowsMatchPolicy
<1>4. f.min <= f.max /\ f.max \in Nat BY <1>1 DEF NumberInv, FlowNumbers
<1>5. PICK c, u : c = Spec(ClassOf(p)).ceiling /\ u = Doc.unknownCeiling OBVIOUS
<1>6. c \in Nat BY <1>2, <1>5, ClassKnown, SpecNumbers
<1>7. u \in Nat /\ u # 0 /\ Doc.classOf[UnknownPhase] = BestEffort
  <2>1. policyGen \in DOMAIN Policies BY DEF NumberInv
  <2> QED BY <1>5, <2>1, PolicyFacts DEF UnknownCapped, Doc
<1>8. Ceiling(p) # 0 => f.max <= Ceiling(p) BY <1>1 DEF CapInv
<1>9. CASE ~InUnknownPhase(p)
  <2>1. Ceiling(p) = c BY <1>5, <1>9 DEF Ceiling
  <2> QED BY <1>1, <1>3, <1>4, <1>5, <1>8, <1>9, <2>1
<1>10. CASE InUnknownPhase(p)
  <2>1. Ceiling(p) = IF c = 0 THEN u ELSE MinOf2(c, u) BY <1>5, <1>10 DEF Ceiling
  <2>2. Ceiling(p) # 0 /\ (c # 0 => Ceiling(p) <= c) /\ Ceiling(p) <= u /\ Ceiling(p) \in Nat
    BY <1>6, <1>7, <2>1 DEF MinOf2
  <2>3. f.max <= u /\ (c # 0 => f.max <= c) BY <1>4, <1>6, <1>7, <1>8, <2>2
  <2>4. ClassOf(p) = BestEffort BY <1>7, <1>10 DEF ClassOf, InUnknownPhase
  <2> QED BY <1>1, <1>3, <1>4, <1>5, <2>3, <2>4
<1> QED BY <1>9, <1>10

(***************************************************************************)
(* No grant exceeds the ceiling of its class, and UNKNOWN-phase traffic is *)
(* best effort under the UNKNOWN ceiling, after every throttling and       *)
(* change of policy, when policies are strict and that ceiling is not zero *)
(* (request_traffic, begin_checkpoint_burst).                              *)
(***************************************************************************)
THEOREM CeilingsHold ==
  ASSUME AllStrict, UnknownCapped
  PROVE  FabricSpec => []GrantsWithinCeilings
<1>1. Init => CapInv BY DEF Init, CapInv
<1>2. HeldInv /\ MatchInv /\ NumberInv /\ CapInv /\ [Next]_vars => CapInv'
  BY NextCapped
<1>3. HeldInv /\ MatchInv /\ NumberInv /\ CapInv => GrantsWithinCeilings
  BY CappedFlows
<1> QED BY <1>1, <1>2, <1>3, NumberInvariant, PTL DEF FabricSpec

-----------------------------------------------------------------------------
(* Grants only shrink.                                                     *)

LEMMA NextShrinks ==
  ASSUME HeldInv, MatchInv, NumberInv, [Next]_vars, NEW i \in DOMAIN flows \cap DOMAIN flows'
  PROVE  /\ flows'[i].min <= flows[i].min /\ flows'[i].max <= flows[i].max
         /\ \A k \in DOMAIN flows[i] \ {"min", "max"} : flows'[i][k] = flows[i][k]
<1>1. FlowsMove BY NextFlows
<1>2. FlowNumbers(flows[i]) BY DEF NumberInv
<1>3. CASE flows'[i] = flows[i] BY <1>2, <1>3 DEF FlowNumbers
<1>4. CASE /\ i \in Exposed(flows[i].group) /\ IsolationCeiling(i) < flows[i].min
           /\ flows'[i] = Squeezed(flows[i], IsolationCeiling(i))
  <2>1. PICK f, c : f = flows[i] /\ c = IsolationCeiling(i) OBVIOUS
  <2>2. c \in Nat /\ c < f.min /\ flows'[i] = Rated(f, c, c) BY <1>4, <2>1, SqueezedFlow
  <2>3. f.min \in Nat /\ f.max \in Nat /\ f.min <= f.max BY <1>2, <2>1 DEF FlowNumbers
  <2>4. Rated(f, c, c).min = c /\ Rated(f, c, c).max = c BY DEF Rated
  <2>5. f = Rated(f, f.min, f.max) BY <2>1 DEF HeldInv, FlowShape, Rated
  <2>6. \A k \in DOMAIN f \ {"min", "max"} : Rated(f, c, c)[k] = f[k]
    <3>1. DOMAIN f = {"group", "phase", "class", "prio", "min", "max", "bytes", "authority"}
      BY <2>5 DEF Rated
    <3> QED BY <3>1 DEF Rated
  <2>7. c <= f.min /\ c <= f.max BY <2>2, <2>3
  <2> QED BY <2>1, <2>2, <2>4, <2>6, <2>7
<1>5. i # nextIntent BY DEF NumberInv
<1> QED BY <1>1, <1>3, <1>4, <1>5 DEF FlowsMove

(***************************************************************************)
(* A live flow is never repriced, under every sequence of policies, strict *)
(* or not: its class, priority and owner are fixed and its grant only      *)
(* shrinks (begin_checkpoint_burst throttles, nothing else rewrites one).  *)
(***************************************************************************)
THEOREM FlowsAreNeverRepriced == FabricSpec => GrantsOnlyShrink
<1>1. HeldInv /\ MatchInv /\ NumberInv /\ [Next]_vars =>
        [\A i \in DOMAIN flows \cap DOMAIN flows' :
           LET f == flows[i]  g == flows'[i]
           IN  /\ g.min <= f.min /\ g.max <= f.max
               /\ \A k \in DOMAIN f \ {"min", "max"} : g[k] = f[k]]_vars
  BY NextShrinks
<1> QED BY <1>1, NumberInvariant, PTL DEF FabricSpec, GrantsOnlyShrink

-----------------------------------------------------------------------------
(* Preemption.                                                             *)

\* The victims of an admission, as arbitrate_capacity chose them.
LEMMA VictimsAreJust ==
  ASSUME NumberInv, NEW p \in DOMAIN step.phases, NEW it \in Intents,
         NEW new, new.group = it.group, new.phase = p, new.prio = Priority(p, it.group),
         new.min = MinRate(p, it), it.group \in DOMAIN topology.cap,
         NEW v \in RequestVictims(p, it)
  PROVE  JustVictim(v, new, RequestVictims(p, it))
<1>1. PICK g, prio, V :
        /\ g = it.group /\ V = RequestVictims(p, it)
        /\ prio = IF InUnknownPhase(p) THEN 255 ELSE Priority(p, g)
  OBVIOUS
<1>2. PICK C : C = Displaceable(g, prio) OBVIOUS
<1>3. V = {i \in C : Available(g) + MinSum({j \in C : DisplacedBefore(j, i)}) < new.min}
  <2>1. V = Victims(g, prio, new.min) BY <1>1 DEF RequestVictims
  <2>2. V # {} BY <1>1
  <2> QED BY <1>2, <2>1, <2>2 DEF Victims
<1>4. v \in C /\ V \subseteq C /\ C \subseteq DOMAIN flows
  BY <1>1, <1>2, <1>3 DEF Displaceable, FlowsOf
<1>5. /\ flows[v].group = g /\ flows[v].prio > prio
      /\ Spec(flows[v].class).preemptible /\ ~Spec(flows[v].class).critical
  BY <1>2, <1>4 DEF Displaceable, FlowsOf
<1>6. ~InUnknownPhase(p)
  <2>1. flows[v].prio \in 0 .. 255 BY <1>4 DEF NumberInv, FlowNumbers
  <2> QED BY <1>1, <1>5, <2>1
<1>7. flows[v].prio > new.prio BY <1>1, <1>5, <1>6
<1>8. ASSUME \A w \in V : v = w \/ DisplacedBefore(w, v)
      PROVE  Available(g) + MinSum(V \ {v}) < new.min
  <2>1. PICK A : A = {j \in C : DisplacedBefore(j, v)} OBVIOUS
  <2>2. V \ {v} \subseteq A /\ A \subseteq DOMAIN flows BY <1>4, <1>8, <2>1
  <2>3. /\ MinSum(A) \in Nat /\ MinSum(V \ {v}) \in Nat
        /\ MinSum(A) = MinSum(V \ {v}) + MinSum(A \ (V \ {v}))
        /\ MinSum(A \ (V \ {v})) \in Nat
    BY <2>2, SumSubset
  <2>4. Available(g) + MinSum(A) < new.min BY <1>1, <1>3, <2>1
  <2>5. Available(g) \in Nat /\ new.min \in Nat BY <1>1, RateNumbers, ReachNumber
  <2> QED BY <2>3, <2>4, <2>5
<1> QED BY <1>1, <1>5, <1>6, <1>7, <1>8 DEF JustVictim

LEMMA NextJust ==
  ASSUME HeldInv, NumberInv, [Next]_vars, nextIntent \in DOMAIN flows',
         NEW v \in DOMAIN flows \ DOMAIN flows'
  PROVE  JustVictim(v, flows'[nextIntent], DOMAIN flows \ DOMAIN flows')
<1>1. PICK t \in Tokens, p \in 1 .. nextPhase, it \in Intents :
        FlowGranted(t, p, it) /\ flows'[nextIntent] = Flow(t, it, GrantOf(p, it))
  <2>1. nextIntent \notin DOMAIN flows BY DEF NumberInv
  <2>2. FlowsMove BY NextFlows
  <2>3. PICK i : i = nextIntent /\ i \in DOMAIN flows' OBVIOUS
  <2>4. \E t \in Tokens, p \in 1 .. nextPhase, it \in Intents :
          FlowGranted(t, p, it) /\ flows'[i] = Flow(t, it, GrantOf(p, it))
    BY <2>1, <2>2, <2>3 DEF FlowsMove
  <2> QED BY <2>3, <2>4
<1>2. Admitted(t, p, it) BY <1>1 DEF FlowGranted
<1>3. p \in DOMAIN step.phases /\ it.group \in DOMAIN topology.cap
  BY <1>2, AdmittedFlows DEF Admitted, Fits
<1>4. PICK V, new : V = RequestVictims(p, it) /\ new = Flow(t, it, GrantOf(p, it)) OBVIOUS
<1>5. DOMAIN flows \ DOMAIN flows' = V
  <2>1. flows' = Put(FlowsWithout(V), nextIntent, new) BY <1>2, <1>4, AdmittedFlows
  <2>2. V \subseteq DOMAIN flows BY <1>2, <1>4, AdmittedFlows DEF FlowsOf
  <2>3. nextIntent \notin DOMAIN flows BY DEF NumberInv
  <2> QED BY <2>1, <2>2, <2>3 DEF Put, FlowsWithout
<1>6. /\ new.group = it.group /\ new.phase = p /\ new.prio = Priority(p, it.group)
      /\ new.min = MinRate(p, it)
  BY <1>4 DEF Flow, GrantOf, Grant
<1> QED BY <1>1, <1>3, <1>4, <1>5, <1>6, VictimsAreJust

(***************************************************************************)
(* Preemption is explicit: an admission displaces only preemptible,        *)
(* non-critical, strictly less urgent flows of its own group, never for an *)
(* UNKNOWN phase, and none it could have spared, under every sequence of   *)
(* policies (arbitrate_capacity; decisions.md rule 5).                     *)
(***************************************************************************)
THEOREM PreemptionsAreJust == FabricSpec => PreemptionIsJust
<1>1. HeldInv /\ MatchInv /\ NumberInv /\ [Next]_vars =>
        [(nextIntent \in DOMAIN flows') =>
           \A v \in DOMAIN flows \ DOMAIN flows' :
             JustVictim(v, flows'[nextIntent], DOMAIN flows \ DOMAIN flows')]_vars
  BY NextJust
<1> QED BY <1>1, NumberInvariant, PTL DEF FabricSpec, PreemptionIsJust

-----------------------------------------------------------------------------
(* Types.                                                                  *)

JobTyped ==
  /\ incarnation \in Nat \ {0} /\ boot \in Boots
  /\ retiredSet \subseteq Nat /\ retired \in BOOLEAN
  /\ groups \subseteq Groups
  /\ topology.gen \in Nat /\ (topology.gen # 0 => topology.cap \in Evidence)

StepTyped ==
  /\ step.seen \in Nat /\ nextPhase \in Nat \ {0} /\ nextBurst \in Nat \ {0}
  /\ \A p \in DOMAIN step.phases : p # 0

RecordsTyped == DOMAIN decisions \subseteq Ids /\ DOMAIN receipts \subseteq Ids

LEMMA NextJobTyped == ASSUME JobTyped, [Next]_vars PROVE JobTyped'
<1>1. CASE UNCHANGED vars BY <1>1 DEF vars, authVars, configVars, JobTyped
<1>2. ASSUME Registration PROVE JobTyped'
  <2>1. ASSUME NEW t, NEW cap \in Evidence, PublishTopology(t, cap) PROVE JobTyped'
    <3>1. topology'.gen = topology.gen + 1 /\ topology'.cap = cap BY <2>1 DEF PublishTopology
    <3> QED BY <2>1, <3>1 DEF PublishTopology, authVars, JobTyped
  <2>2. ASSUME NEW k, ApplyPolicy(k) PROVE JobTyped'
    BY <2>2 DEF ApplyPolicy, authVars, JobTyped
  <2>3. ASSUME NEW e, RebaseEpoch(e) PROVE JobTyped'
    BY <2>3 DEF RebaseEpoch, configVars, JobTyped
  <2>4. ASSUME NEW t, NEW g \in Groups, RegisterGroup(t, g) PROVE JobTyped'
    BY <2>4 DEF RegisterGroup, authVars, JobTyped
  <2>5. ASSUME NEW t, RetireJob(t) PROVE JobTyped'
    BY <2>5 DEF RetireJob, configVars, JobTyped
  <2> QED BY <1>2, <2>1, <2>2, <2>3, <2>4, <2>5 DEF Registration
<1>3. ASSUME Lifecycle PROVE JobTyped'
  <2>1. UNCHANGED <<authVars, configVars>>
    BY <1>3 DEF Lifecycle, BeginStep, BeginPhase, EndPhase, EndStep
  <2> QED BY <2>1 DEF authVars, configVars, JobTyped
<1>4. ASSUME Traffic PROVE JobTyped'
  <2>1. UNCHANGED <<authVars, configVars>>
    BY ONLY <1>4, TrafficKeeps DEF TrafficKept, authVars, configVars
  <2> QED BY <2>1 DEF authVars, configVars, JobTyped
<1>5. ASSUME Recovery PROVE JobTyped'
  <2>1. ASSUME NEW e, NEW x, NEW b \in Boots, NEW r, AdmitReplacement(e, x, b, r)
        PROVE  JobTyped'
    <3>1. /\ incarnation' = incarnation + 1 /\ boot' = b
          /\ retiredSet' = retiredSet \cup {incarnation} /\ retired' = retired
          /\ UNCHANGED configVars
      BY <2>1 DEF AdmitReplacement
    <3>2. incarnation' \in Nat \ {0} BY <3>1 DEF JobTyped
    <3> QED BY <3>1, <3>2 DEF configVars, JobTyped
  <2>2. ASSUME NEW t, RetireIncarnation(t) PROVE JobTyped'
    <3>1. /\ UNCHANGED <<incarnation, boot, retired, configVars>>
          /\ retiredSet' = retiredSet \cup {incarnation}
      BY <2>2 DEF RetireIncarnation
    <3> QED BY <3>1 DEF configVars, JobTyped
  <2> QED BY <1>5, <2>1, <2>2 DEF Recovery
<1> QED BY <1>1, <1>2, <1>3, <1>4, <1>5 DEF Next

\* The phases and the counters of a step that leaves them be, or ends the step.
LEMMA StepStaysTyped ==
  ASSUME StepTyped, UNCHANGED <<nextPhase, nextBurst>>,
         \/ step'.seen \in Nat /\ step'.phases = step.phases
         \/ step' = NoStep
  PROVE  StepTyped'
BY DEF StepTyped, NoStep

LEMMA FenceTyped ==
  ASSUME StepTyped, FenceOpenStep, UNCHANGED <<nextPhase, nextBurst>>
  PROVE  StepTyped'
<1>1. step' = step \/ step' = NoStep BY DEF FenceOpenStep, CloseStep
<1> QED BY <1>1, StepStaysTyped DEF StepTyped

\* What a change of the books leaves of a step.
LEMMA BookTyped ==
  ASSUME HeldInv, StepTyped, UNCHANGED <<nextPhase, nextBurst>>, NEW a,
         step' = [step EXCEPT !.acct = a] \/ step' = [step EXCEPT !.seen = @ + 1]
           \/ step' = [step EXCEPT !.seen = @ + 1, !.acct = a]
  PROVE  StepTyped'
<1>1. step'.phases = step.phases /\ (step'.seen = step.seen \/ step'.seen = step.seen + 1)
  BY DEF HeldInv, StepShape
<1> QED BY <1>1, StepStaysTyped DEF StepTyped

LEMMA NextStepTyped == ASSUME HeldInv, StepTyped, [Next]_vars PROVE StepTyped'
<1>1. CASE UNCHANGED vars BY <1>1, StepStaysTyped DEF vars, ledgerVars, idVars, StepTyped
<1>2. ASSUME Registration PROVE StepTyped'
  <2>0. UNCHANGED <<nextPhase, nextBurst>>
    BY <1>2 DEF Registration, ApplyPolicy, RebaseEpoch, RegisterGroup, PublishTopology, RetireJob,
                idVars
  <2>1. ASSUME NEW S, Invalidate(S) PROVE StepTyped'
    BY <2>0, <2>1, BookTyped DEF Invalidate
  <2>2. ASSUME FenceOpenStep PROVE StepTyped' BY <2>0, <2>2, FenceTyped
  <2>3. ASSUME step' = step PROVE StepTyped'
    BY <2>0, <2>3, StepStaysTyped DEF StepTyped
  <2> QED BY <1>2, <2>1, <2>2, <2>3 DEF Registration, ApplyPolicy, RebaseEpoch, RegisterGroup,
                                        PublishTopology, RetireJob, ledgerVars
<1>3. ASSUME Lifecycle PROVE StepTyped'
  <2>1. ASSUME NEW t, NEW s, BeginStep(t, s) PROVE StepTyped'
    <3>1. step'.seen = 0 /\ step'.phases = <<>> /\ UNCHANGED <<nextPhase, nextBurst>>
      BY <2>1 DEF BeginStep, NoStep
    <3> QED BY <3>1 DEF StepTyped
  <2>2. ASSUME NEW t, NEW cls, NEW g, BeginPhase(t, cls, g) PROVE StepTyped'
    <3>1. PICK ph : step' = [step EXCEPT !.phases = Put(@, nextPhase, ph)]
      BY <2>2 DEF BeginPhase
    <3>2. step'.phases = Put(step.phases, nextPhase, ph) /\ step'.seen = step.seen
      BY <3>1 DEF HeldInv, StepShape
    <3>3. DOMAIN step'.phases = DOMAIN step.phases \cup {nextPhase} BY <3>2 DEF Put
    <3>4. nextPhase' = nextPhase + 1 /\ nextBurst' = nextBurst BY <2>2 DEF BeginPhase
    <3>5. nextPhase' \in Nat \ {0} BY <3>4 DEF StepTyped
    <3> QED BY <3>2, <3>3, <3>4, <3>5 DEF StepTyped
  <2>3. ASSUME NEW t, NEW p, EndPhase(t, p) PROVE StepTyped'
    <3>1. PICK a : step' = [step EXCEPT !.acct = a, !.phases[p].open = FALSE]
      BY <2>3 DEF EndPhase
    <3>2. step' = [id |-> step.id, incarnation |-> step.incarnation, seen |-> step.seen,
                   phases |-> [step.phases EXCEPT ![p].open = FALSE],
                   burst |-> step.burst, acct |-> a]
      BY <3>1 DEF HeldInv, StepShape
    <3>3. DOMAIN step'.phases = DOMAIN step.phases /\ step'.seen = step.seen BY <3>2
    <3>4. UNCHANGED <<nextPhase, nextBurst>> BY <2>3 DEF EndPhase, idVars
    <3> QED BY <3>3, <3>4 DEF StepTyped
  <2>4. ASSUME NEW t, EndStep(t) PROVE StepTyped'
    BY <2>4, StepStaysTyped DEF EndStep, CloseStep
  <2> QED BY <1>3, <2>1, <2>2, <2>3, <2>4 DEF Lifecycle
<1>4. ASSUME Traffic PROVE StepTyped'
  <2>1. ASSUME NEW t, NEW p, NEW it, RequestTraffic(t, p, it) PROVE StepTyped'
    <3>0. UNCHANGED <<nextPhase, nextBurst>> BY <2>1 DEF RequestTraffic
    <3>1. ASSUME NEW d, Refuse(d) PROVE StepTyped'
      BY <3>0, <3>1, BookTyped DEF Refuse
    <3>2. ASSUME Unresolved(t, p) PROVE StepTyped'
      BY <3>0, <3>2, StepStaysTyped DEF Unresolved, StepTyped
    <3>3. ASSUME Admitted(t, p, it) PROVE StepTyped'
      <4>1. PICK a : step' = [step EXCEPT !.seen = @ + 1, !.acct = a] BY <3>3 DEF Admitted
      <4> QED BY <3>0, <4>1, BookTyped
    <3> QED BY <2>1, <3>1, <3>2, <3>3 DEF RequestTraffic, Rejected, Held
  <2>2. ASSUME NEW t, NEW i, NEW bytes, NEW c, CompleteFlow(t, i, bytes, c) PROVE StepTyped'
    <3>1. PICK a : step' = [step EXCEPT !.acct = a] BY <2>2 DEF CompleteFlow
    <3> QED BY <2>2, <3>1, BookTyped DEF CompleteFlow, idVars
  <2>3. ASSUME NEW t, NEW i, RevalidateFlow(t, i) PROVE StepTyped'
    BY <2>3, StepStaysTyped DEF RevalidateFlow, ledgerVars, idVars, StepTyped
  <2>4. ASSUME NEW t, NEW g, BeginCheckpointBurst(t, g) PROVE StepTyped'
    <3>1. PICK a, b : step' = [step EXCEPT !.burst = b, !.acct = a]
      BY <2>4 DEF BeginCheckpointBurst
    <3>2. step'.phases = step.phases /\ step'.seen = step.seen
      BY <3>1 DEF HeldInv, StepShape
    <3>3. nextPhase' = nextPhase /\ nextBurst' = nextBurst + 1
      BY <2>4 DEF BeginCheckpointBurst
    <3>4. nextBurst' \in Nat \ {0} BY <3>3 DEF StepTyped
    <3> QED BY <3>2, <3>3, <3>4 DEF StepTyped
  <2>5. ASSUME NEW t, NEW b, EndCheckpointBurst(t, b) PROVE StepTyped'
    <3>1. step'.phases = step.phases /\ step'.seen = step.seen
      BY <2>5 DEF EndCheckpointBurst, HeldInv, StepShape
    <3> QED BY <2>5, <3>1, StepStaysTyped DEF EndCheckpointBurst, idVars, StepTyped
  <2> QED BY <1>4, <2>1, <2>2, <2>3, <2>4, <2>5 DEF Traffic
<1>5. ASSUME Recovery PROVE StepTyped'
  BY <1>5, FenceTyped DEF Recovery, AdmitReplacement, RetireIncarnation
<1> QED BY <1>1, <1>2, <1>3, <1>4, <1>5 DEF Next

\* No record is of an id that was not issued.
LEMMA RecordsStayTyped ==
  ASSUME NumberInv, RecordsTyped,
         DOMAIN receipts' \subseteq DOMAIN receipts \cup DOMAIN flows,
         \/ DOMAIN decisions' \subseteq DOMAIN decisions /\ nextIntent' = nextIntent
         \/ /\ DOMAIN decisions' \subseteq DOMAIN decisions \cup {nextIntent}
            /\ nextIntent' = nextIntent + 1
  PROVE  RecordsTyped'
BY DEF NumberInv, RecordsTyped, Ids

LEMMA NextRecordsTyped == ASSUME NumberInv, RecordsTyped, [Next]_vars PROVE RecordsTyped'
<1>1. CASE UNCHANGED vars BY <1>1, RecordsStayTyped DEF vars, idVars, recordVars
<1>2. ASSUME NEW S, S \subseteq DOMAIN flows, Invalidate(S), nextIntent' = nextIntent
      PROVE  RecordsTyped'
  BY <1>2, RecordsStayTyped DEF Invalidate, CancelledReceipts, Withdrawn
<1>3. ASSUME CloseStep, nextIntent' = nextIntent PROVE RecordsTyped'
  BY <1>3, RecordsStayTyped DEF CloseStep, CancelledReceipts, Withdrawn
<1>4. ASSUME decisions' = decisions, receipts' = receipts, nextIntent' = nextIntent
      PROVE  RecordsTyped'
  BY <1>4, RecordsStayTyped
<1>5. ASSUME FenceOpenStep, nextIntent' = nextIntent PROVE RecordsTyped'
  BY <1>3, <1>4, <1>5 DEF FenceOpenStep
<1>6. ASSUME Registration PROVE RecordsTyped'
  <2>1. \A doc : Invalidated(doc) \subseteq DOMAIN flows BY DEF Invalidated
  <2>2. nextIntent' = nextIntent
    BY <1>6 DEF Registration, ApplyPolicy, RebaseEpoch, RegisterGroup, PublishTopology, RetireJob,
                idVars
  <2> QED BY <1>2, <1>4, <1>5, <1>6, <2>1, <2>2
          DEF Registration, ApplyPolicy, RebaseEpoch, RegisterGroup, PublishTopology, RetireJob,
              recordVars
<1>7. ASSUME Lifecycle PROVE RecordsTyped'
  <2>1. ASSUME NEW t, NEW p, EndPhase(t, p) PROVE RecordsTyped'
    <3>1. PICK S : S \subseteq DOMAIN flows /\ receipts' = CancelledReceipts(S)
      BY <2>1 DEF EndPhase
    <3> QED BY <2>1, <3>1, RecordsStayTyped DEF EndPhase, CancelledReceipts, idVars
  <2> QED BY <1>3, <1>4, <1>7, <2>1 DEF Lifecycle, BeginStep, BeginPhase, EndStep, recordVars
<1>8. ASSUME Traffic PROVE RecordsTyped'
  <2>1. ASSUME NEW t, NEW p, NEW it, RequestTraffic(t, p, it) PROVE RecordsTyped'
    <3>0. nextIntent' = nextIntent + 1 BY <2>1 DEF RequestTraffic
    <3>1. \A decs, d : DOMAIN Recorded(decs, d) \subseteq DOMAIN decs \cup {nextIntent}
      BY DEF Recorded, Put
    <3>2. ASSUME NEW d, decisions' = Recorded(decisions, d), receipts' = receipts
          PROVE  RecordsTyped'
      <4>1. DOMAIN decisions' \subseteq DOMAIN decisions \cup {nextIntent} BY <3>1, <3>2
      <4> QED BY <3>0, <3>2, <4>1, RecordsStayTyped
    <3>3. ASSUME Admitted(t, p, it) PROVE RecordsTyped'
      <4>1. PICK V, d : /\ V = RequestVictims(p, it) /\ receipts' = CancelledReceipts(V)
                        /\ decisions' = Recorded(Withdrawn(V, "Defer"), d)
        BY <3>3 DEF Admitted
      <4>2. V \subseteq DOMAIN flows
        BY <4>1 DEF RequestVictims, Victims, Displaceable, FlowsOf
      <4>3. DOMAIN Withdrawn(V, "Defer") = DOMAIN decisions BY DEF Withdrawn
      <4>4. DOMAIN decisions' \subseteq DOMAIN decisions \cup {nextIntent}
        BY <3>1, <4>1, <4>3
      <4>5. DOMAIN receipts' \subseteq DOMAIN receipts \cup DOMAIN flows
        BY <4>1, <4>2 DEF CancelledReceipts
      <4> QED BY <3>0, <4>4, <4>5, RecordsStayTyped
    <3> QED BY <2>1, <3>2, <3>3 DEF RequestTraffic, Unresolved, Rejected, Held, Refuse
  <2>2. ASSUME NEW t, NEW i, NEW bytes, NEW c, CompleteFlow(t, i, bytes, c)
        PROVE  RecordsTyped'
    <3>1. DOMAIN receipts' = DOMAIN receipts \cup {i} /\ i \in DOMAIN flows
      BY <2>2 DEF CompleteFlow, Put
    <3> QED BY <2>2, <3>1, RecordsStayTyped DEF CompleteFlow, idVars
  <2>3. ASSUME NEW t, NEW i, RevalidateFlow(t, i) PROVE RecordsTyped'
    <3>1. DOMAIN decisions' = DOMAIN decisions BY <2>3 DEF RevalidateFlow
    <3> QED BY <2>3, <3>1, RecordsStayTyped DEF RevalidateFlow, idVars
  <2>4. ASSUME NEW t, NEW g, BeginCheckpointBurst(t, g) PROVE RecordsTyped'
    <3>1. PICK S : S = Displaced(g) OBVIOUS
    <3>2. S \subseteq DOMAIN flows BY <3>1 DEF Displaced, Exposed, FlowsOf
    <3>3. receipts' = CancelledReceipts(S) /\ nextIntent' = nextIntent
      BY <2>4, <3>1 DEF BeginCheckpointBurst
    <3>4. DOMAIN decisions' = DOMAIN Withdrawn(S, "Defer")
      BY <2>4, <3>1 DEF BeginCheckpointBurst
    <3>5. DOMAIN decisions' = DOMAIN decisions BY <3>4 DEF Withdrawn
    <3>6. DOMAIN receipts' \subseteq DOMAIN receipts \cup DOMAIN flows
      BY <3>2, <3>3 DEF CancelledReceipts
    <3> QED BY <3>3, <3>5, <3>6, RecordsStayTyped
  <2>5. ASSUME NEW t, NEW b, EndCheckpointBurst(t, b) PROVE RecordsTyped'
    BY <1>4, <2>5 DEF EndCheckpointBurst, idVars, recordVars
  <2> QED BY <1>8, <2>1, <2>2, <2>3, <2>4, <2>5 DEF Traffic
<1>9. ASSUME Recovery PROVE RecordsTyped'
  BY <1>5, <1>9 DEF Recovery, AdmitReplacement, RetireIncarnation
<1> QED BY <1>1, <1>6, <1>7, <1>8, <1>9 DEF Next

(***************************************************************************)
(* Every variable keeps the shape its C++ member has (state.hpp): what is  *)
(* recorded is of issued ids, the evidence is evidence that was published, *)
(* the policy in force one that was applied.                               *)
(***************************************************************************)
THEOREM TypesHold == FabricSpec => []TypeOK
<1>1. Init => JobTyped /\ StepTyped /\ RecordsTyped
  <2> SUFFICES ASSUME Init PROVE JobTyped /\ StepTyped /\ RecordsTyped
    OBVIOUS
  <2>1. JobTyped
    <3>1. topology.gen = 0 BY DEF Init
    <3>2. retired \in BOOLEAN BY DEF Init
    <3>3. incarnation \in Nat \ {0} /\ boot \in Boots /\ retiredSet = {} /\ groups = {}
      BY DEF Init
    <3> QED BY <3>1, <3>2, <3>3 DEF JobTyped
  <2>2. DOMAIN step.phases = {} /\ step.seen = 0 BY DEF Init, NoStep
  <2>3. StepTyped BY <2>2 DEF Init, StepTyped
  <2>4. DOMAIN decisions = {} /\ DOMAIN receipts = {} BY DEF Init
  <2> QED BY <2>1, <2>3, <2>4 DEF RecordsTyped
<1>2. JobTyped /\ [Next]_vars => JobTyped' BY NextJobTyped
<1>3. HeldInv /\ StepTyped /\ [Next]_vars => StepTyped' BY NextStepTyped
<1>4. NumberInv /\ RecordsTyped /\ [Next]_vars => RecordsTyped' BY NextRecordsTyped
<1>5. HeldInv /\ MatchInv /\ NumberInv /\ JobTyped /\ StepTyped /\ RecordsTyped => TypeOK
  <2> SUFFICES ASSUME HeldInv, MatchInv, NumberInv, JobTyped, StepTyped, RecordsTyped
               PROVE  TypeOK
    OBVIOUS
  <2>1. \A p \in DOMAIN step.phases : p \in 1 .. nextPhase - 1
    BY DEF MatchInv, StepTyped
  <2>2. DOMAIN flows \subseteq Ids /\ policyGen \in DOMAIN Policies /\ utilized \in [Groups -> Nat]
        /\ nextIntent \in Nat \ {0}
    BY DEF NumberInv, Ids
  <2>3. {epoch, step.id, highestStep, lastClosed} \subseteq Nat BY DEF HeldInv, StepShape
  <2> QED BY <2>1, <2>2, <2>3 DEF JobTyped, StepTyped, RecordsTyped, TypeOK
<1> QED BY <1>1, <1>2, <1>3, <1>4, <1>5, NumberInvariant, PTL DEF FabricSpec
=============================================================================
