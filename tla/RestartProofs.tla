---------------------------- MODULE RestartProofs ----------------------------
(***************************************************************************)
(* A job survives the restarts of its coordinator: what is stored is       *)
(* always what the codec accepts, and a restored job satisfies every       *)
(* invariant the fabric itself keeps.  The argument: the invariants of the *)
(* fabric bound what write_job can meet (Sound, of the stored job), and    *)
(* what read_job makes of a sound job satisfies the invariants again.      *)
(***************************************************************************)
EXTENDS Restart, GrantProofs

\* No more phases than a step may have.
WithinMax(S) == IsFiniteSet(S) /\ Cardinality(S) <= Contract.maxPhases

\* What the codec asks beyond the invariants of the fabric.
InputInv ==
  /\ IsFiniteSet(groups) /\ Cardinality(groups) <= Contract.maxGroups
  /\ \A p \in DOMAIN step.phases : step.phases[p].group \in groups
  /\ WithinMax(DOMAIN step.phases)
  /\ Len(history) <= Contract.historySteps
  /\ \A k \in DOMAIN history : WithinMax(DOMAIN history[k].phases)
  /\ incarnation # 0 /\ retiredSet \subseteq 0 .. incarnation

\* A restart loses the flows that were live: the counts of the step are not exact.
RunInv ==
  /\ HeldInv /\ MatchInv /\ NumberInv /\ HistoryInv /\ AccountInv(FALSE) /\ PhaseInv
  /\ StepTyped /\ InputInv

\* The retired incarnations of a stored job w are the latest of them.
SoundRetired(w) ==
  LET last == IF w.incarnation \in w.retiredSet THEN w.incarnation ELSE w.incarnation - 1
  IN  /\ w.incarnation \in Nat \ {0} /\ w.retiredSet \subseteq 0 .. w.incarnation
      /\ \A i \in w.retiredSet : i + MaxRetired > last

\* The open step of a stored job w.
SoundStep(w) ==
  /\ w.step = [id |-> w.step.id, incarnation |-> w.step.incarnation, seen |-> w.step.seen,
               phases |-> w.step.phases, burst |-> w.step.burst, acct |-> w.step.acct]
  /\ w.step.id \in Nat
  /\ w.step.id # 0 =>
       /\ ~w.retired
       /\ w.step.incarnation = w.incarnation /\ w.incarnation \notin w.retiredSet
       /\ w.step.id = w.highestStep /\ w.lastClosed < w.step.id
  /\ \A p \in DOMAIN w.step.phases :
       LET ph == w.step.phases[p]
       IN  /\ ph = [cls |-> ph.cls, group |-> ph.group, open |-> ph.open]
           /\ p \in Nat /\ p < w.nextPhase
           /\ ph.cls \in DOMAIN Policies[w.policyGen].classOf /\ ph.group \in w.groups
  /\ w.step.acct \in Accounts /\ Balanced(w.step.acct) /\ w.step.seen \in Nat

\* The phases of a stored job w and their books.
SoundPhases(w) ==
  /\ 0 \notin DOMAIN w.step.phases /\ WithinMax(DOMAIN w.step.phases)
  /\ DOMAIN w.phaseAcct = DOMAIN w.step.phases
  /\ \A p \in DOMAIN w.phaseAcct :
       /\ w.phaseAcct[p] \in PhaseBooks
       /\ w.phaseAcct[p].completed <= w.phaseAcct[p].committed
  /\ w.step.acct.bytesCompleted = CompletedSum(w.phaseAcct, w.nextPhase - 1)

\* The reports of a stored job w.
SoundReports(w) ==
  /\ Ordered(w.history, w.lastClosed) /\ Len(w.history) <= Contract.historySteps
  /\ \A k \in DOMAIN w.history :
       /\ Balanced(w.history[k].acct)
       /\ SummariesRight(w.history[k]) /\ WithinMax(DOMAIN w.history[k].phases)

\* A stored job, as the fabric leaves it behind.
Sound(w) ==
  /\ w = [epoch |-> w.epoch, incarnation |-> w.incarnation, boot |-> w.boot,
          retiredSet |-> w.retiredSet, retired |-> w.retired,
          groups |-> w.groups, topology |-> w.topology, policyGen |-> w.policyGen,
          step |-> w.step, phaseAcct |-> w.phaseAcct,
          highestStep |-> w.highestStep, lastClosed |-> w.lastClosed,
          nextPhase |-> w.nextPhase, nextIntent |-> w.nextIntent, nextBurst |-> w.nextBurst,
          history |-> w.history]
  /\ w.epoch \in Nat /\ w.highestStep \in Nat /\ w.lastClosed \in Nat
  /\ w.lastClosed <= w.highestStep /\ w.policyGen \in DOMAIN Policies
  /\ {w.nextPhase, w.nextIntent, w.nextBurst} \subseteq Nat \ {0}
  /\ IsFiniteSet(w.groups) /\ Cardinality(w.groups) <= Contract.maxGroups
  /\ \A g \in DOMAIN w.topology.cap : w.topology.cap[g] \in Nat
  /\ SoundRetired(w) /\ SoundStep(w) /\ SoundPhases(w) /\ SoundReports(w)

-----------------------------------------------------------------------------
(* The inputs of a job stay within its contract.                           *)

LEMMA PushedWithin ==
  ASSUME HistoryInv, InputInv, NEW r
  PROVE  Len(Pushed(r)) <= Contract.historySteps
<1>1. PICK R : history \in Seq(R) BY DEF HistoryInv, Ordered
<1>2. PICK h, b : h = Append(history, r) /\ b = MaxOf2(1, Contract.historySteps) OBVIOUS
<1>3. b = Contract.historySteps /\ b \in Nat \ {0}
  BY <1>2, FabricAssumption DEF FabricAssumption, MaxOf2
<1>4. history \in Seq(R \cup {r}) BY <1>1
<1>5. PICK Q : Q = R \cup {r} OBVIOUS
<1>6. h \in Seq(Q) /\ Len(h) \in Nat BY <1>2, <1>4, <1>5
<1>7. Pushed(r) = IF Len(h) > b THEN SubSeq(h, Len(h) - b + 1, Len(h)) ELSE h
  BY <1>2 DEF Pushed
<1>8. CASE Len(h) > b
  <2>1. PICK d \in Nat, n \in Nat : d = n - b /\ n = Len(h) /\ d < n BY <1>3, <1>6, <1>8
  <2>2. Len(SubSeq(h, d + 1, n)) = b BY <1>3, <1>6, <2>1
  <2>3. Pushed(r) = SubSeq(h, d + 1, n) BY <1>7, <1>8, <2>1
  <2> QED BY <1>3, <2>2, <2>3
<1>9. CASE ~(Len(h) > b)
  BY <1>3, <1>6, <1>7, <1>9
<1> QED BY <1>8, <1>9

LEMMA FenceHistory ==
  ASSUME HistoryInv, InputInv, FenceOpenStep
  PROVE  Len(history') <= Contract.historySteps
<1>1. history' = history \/ \E r : history' = Pushed(r)
  BY DEF FenceOpenStep, CloseStep
<1> QED BY <1>1, PushedWithin DEF InputInv

LEMMA NextHistory ==
  ASSUME HistoryInv, InputInv, [Next]_vars
  PROVE  Len(history') <= Contract.historySteps
<1>1. CASE history' = history BY <1>1 DEF InputInv
<1>2. CASE FenceOpenStep BY <1>2, FenceHistory
<1>3. CASE CloseStep
  <2>1. \E r : history' = Pushed(r) BY <1>3 DEF CloseStep
  <2> QED BY <2>1, PushedWithin
<1>4. CASE UNCHANGED vars BY <1>1, <1>4 DEF vars, recordVars
<1>5. ASSUME Registration PROVE history' = history \/ FenceOpenStep
  BY <1>5 DEF Registration, ApplyPolicy, RebaseEpoch, RegisterGroup, PublishTopology, RetireJob,
              recordVars
<1>6. ASSUME Lifecycle PROVE history' = history \/ CloseStep
  BY <1>6 DEF Lifecycle, BeginStep, BeginPhase, EndPhase, EndStep, recordVars
<1>7. ASSUME Traffic PROVE history' = history
  BY ONLY <1>7, TrafficKeeps DEF TrafficKept
<1>8. ASSUME Recovery PROVE FenceOpenStep
  BY <1>8 DEF Recovery, AdmitReplacement, RetireIncarnation
<1> QED BY <1>1, <1>2, <1>3, <1>4, <1>5, <1>6, <1>7, <1>8 DEF Next

\* A report has the phases of the step it closes.
LEMMA NextSummaries ==
  ASSUME HistoryInv, PhaseInv, InputInv, [Next]_vars
  PROVE  \A k \in DOMAIN history' : WithinMax(DOMAIN history'[k].phases)
<1>1. CASE history' = history BY <1>1 DEF InputInv
<1>2. CASE CloseStep
  <2>1. PICK r : /\ history' = Pushed(r) /\ r.phases = CancelledPhases(DOMAIN flows)
    BY <1>2 DEF CloseStep
  <2>2. DOMAIN r.phases = DOMAIN step.phases BY <2>1 DEF CancelledPhases, PhaseInv
  <2> QED BY <2>1, <2>2, PushedKeeps DEF InputInv
<1>3. CASE FenceOpenStep BY <1>1, <1>2, <1>3 DEF FenceOpenStep
<1>4. CASE UNCHANGED vars BY <1>1, <1>4 DEF vars, recordVars
<1>5. ASSUME Registration PROVE history' = history \/ FenceOpenStep
  BY <1>5 DEF Registration, ApplyPolicy, RebaseEpoch, RegisterGroup, PublishTopology, RetireJob,
              recordVars
<1>6. ASSUME Lifecycle PROVE history' = history \/ CloseStep
  BY <1>6 DEF Lifecycle, BeginStep, BeginPhase, EndPhase, EndStep, recordVars
<1>7. ASSUME Traffic PROVE history' = history
  BY ONLY <1>7, TrafficKeeps DEF TrafficKept
<1>8. ASSUME Recovery PROVE FenceOpenStep
  BY <1>8 DEF Recovery, AdmitReplacement, RetireIncarnation
<1> QED BY <1>1, <1>2, <1>3, <1>4, <1>5, <1>6, <1>7, <1>8 DEF Next

\* Phases are added one at a time, below the bound of the contract.
PhasesMove ==
  \/ DOMAIN step'.phases = DOMAIN step.phases \/ DOMAIN step'.phases = {}
  \/ \E p : /\ DOMAIN step'.phases = DOMAIN step.phases \cup {p}
            /\ Cardinality(DOMAIN step.phases) < Contract.maxPhases

LEMMA FencePhasesMove == ASSUME FenceOpenStep PROVE PhasesMove
BY DEF FenceOpenStep, CloseStep, NoStep, PhasesMove

LEMMA NextPhasesMove == ASSUME HeldInv, [Next]_vars PROVE PhasesMove
<1>1. ASSUME step' = step PROVE PhasesMove BY <1>1 DEF PhasesMove
<1>2. CASE UNCHANGED vars BY <1>1, <1>2 DEF vars, ledgerVars
<1>3. ASSUME Registration PROVE PhasesMove
  <2>1. ASSUME NEW S, Invalidate(S) PROVE PhasesMove
    BY <2>1 DEF Invalidate, HeldInv, StepShape, PhasesMove
  <2> QED BY <1>1, <1>3, <2>1, FencePhasesMove
       DEF Registration, ApplyPolicy, RebaseEpoch, RegisterGroup, PublishTopology, RetireJob,
           ledgerVars
<1>4. ASSUME Lifecycle PROVE PhasesMove
  <2>1. ASSUME NEW t, NEW s, BeginStep(t, s) PROVE PhasesMove
    BY <2>1 DEF BeginStep, NoStep, PhasesMove
  <2>2. ASSUME NEW t, NEW cls, NEW g, BeginPhase(t, cls, g) PROVE PhasesMove
    <3>1. PICK ph : step' = [step EXCEPT !.phases = Put(@, nextPhase, ph)]
      BY <2>2 DEF BeginPhase
    <3>2. step'.phases = Put(step.phases, nextPhase, ph) BY <3>1 DEF HeldInv, StepShape
    <3>3. DOMAIN step'.phases = DOMAIN step.phases \cup {nextPhase} BY <3>2 DEF Put
    <3> QED BY <2>2, <3>3 DEF BeginPhase, PhasesMove
  <2>3. ASSUME NEW t, NEW p, EndPhase(t, p) PROVE PhasesMove
    <3>1. PICK a : step' = [step EXCEPT !.acct = a, !.phases[p].open = FALSE]
      BY <2>3 DEF EndPhase
    <3>2. step'.phases = [step.phases EXCEPT ![p].open = FALSE]
      BY <3>1 DEF HeldInv, StepShape
    <3> QED BY <3>2 DEF PhasesMove
  <2>4. ASSUME NEW t, EndStep(t) PROVE PhasesMove
    BY <2>4 DEF EndStep, CloseStep, NoStep, PhasesMove
  <2> QED BY <1>4, <2>1, <2>2, <2>3, <2>4 DEF Lifecycle
<1>5. ASSUME Traffic PROVE PhasesMove
  <2>1. ASSUME NEW t, NEW p, NEW it, RequestTraffic(t, p, it) PROVE step'.phases = step.phases
    BY <2>1 DEF RequestTraffic, Rejected, Held, Refuse, Unresolved, Admitted, HeldInv, StepShape
  <2>2. ASSUME NEW t, NEW i, NEW bytes, NEW c, CompleteFlow(t, i, bytes, c)
        PROVE  step'.phases = step.phases
    BY <2>2 DEF CompleteFlow, HeldInv, StepShape
  <2>3. ASSUME NEW t, NEW i, RevalidateFlow(t, i) PROVE step' = step
    BY <2>3 DEF RevalidateFlow, ledgerVars
  <2>4. ASSUME NEW t, NEW g, BeginCheckpointBurst(t, g) PROVE step'.phases = step.phases
    <3>1. PICK a, b : step' = [step EXCEPT !.burst = b, !.acct = a]
      BY <2>4 DEF BeginCheckpointBurst
    <3> QED BY <3>1 DEF HeldInv, StepShape
  <2>5. ASSUME NEW t, NEW b, EndCheckpointBurst(t, b) PROVE step'.phases = step.phases
    BY <2>5 DEF EndCheckpointBurst, HeldInv, StepShape
  <2> QED BY <1>5, <2>1, <2>2, <2>3, <2>4, <2>5 DEF Traffic, PhasesMove
<1>6. ASSUME Recovery PROVE PhasesMove
  BY <1>6, FencePhasesMove DEF Recovery, AdmitReplacement, RetireIncarnation
<1> QED BY <1>2, <1>3, <1>4, <1>5, <1>6 DEF Next

\* Adding one below a bound keeps it.
LEMMA AddedWithin ==
  ASSUME NEW S, NEW x, NEW n \in Nat, IsFiniteSet(S), Cardinality(S) < n
  PROVE  IsFiniteSet(S \cup {x}) /\ Cardinality(S \cup {x}) <= n
<1>1. /\ IsFiniteSet(S \cup {x})
      /\ Cardinality(S \cup {x}) \in {Cardinality(S), Cardinality(S) + 1}
  BY FS_AddElement
<1>2. Cardinality(S) \in Nat BY FS_CardinalityType
<1> QED BY <1>1, <1>2

LEMMA NextRetired ==
  ASSUME HeldInv, InputInv, [Next]_vars
  PROVE  incarnation' # 0 /\ retiredSet' \subseteq 0 .. incarnation'
<1> USE DEF InputInv
<1>0. incarnation \in Nat BY DEF HeldInv, StepShape
<1>1. CASE UNCHANGED <<incarnation, retiredSet>> BY <1>1
<1>2. CASE UNCHANGED vars BY <1>1, <1>2 DEF vars, authVars
<1>3. ASSUME Registration PROVE UNCHANGED <<incarnation, retiredSet>>
  BY <1>3 DEF Registration, ApplyPolicy, RebaseEpoch, RegisterGroup, PublishTopology, RetireJob,
              authVars
<1>4. ASSUME Lifecycle PROVE UNCHANGED <<incarnation, retiredSet>>
  BY <1>4 DEF Lifecycle, BeginStep, BeginPhase, EndPhase, EndStep, authVars
<1>5. ASSUME Traffic PROVE UNCHANGED <<incarnation, retiredSet>>
  BY ONLY <1>5, TrafficKeeps DEF TrafficKept
<1>6. ASSUME Recovery PROVE incarnation' # 0 /\ retiredSet' \subseteq 0 .. incarnation'
  <2>1. /\ retiredSet' = retiredSet \cup {incarnation}
        /\ incarnation' = incarnation \/ incarnation' = incarnation + 1
    BY <1>6 DEF Recovery, AdmitReplacement, RetireIncarnation
  <2> QED BY <1>0, <2>1
<1> QED BY <1>1, <1>2, <1>3, <1>4, <1>5, <1>6 DEF Next

\* Groups are added one at a time, below the bound of the contract.
LEMMA NextGroup ==
  ASSUME [Next]_vars
  PROVE  \/ groups' = groups
         \/ \E g : /\ groups' = groups \cup {g} /\ g \notin groups
                   /\ Cardinality(groups) < Contract.maxGroups
<1>1. CASE UNCHANGED vars BY <1>1 DEF vars, configVars
<1>2. ASSUME Registration
      PROVE  \/ groups' = groups
             \/ \E g : /\ groups' = groups \cup {g} /\ g \notin groups
                       /\ Cardinality(groups) < Contract.maxGroups
  BY <1>2 DEF Registration, ApplyPolicy, RebaseEpoch, RegisterGroup, PublishTopology, RetireJob,
              configVars
<1>3. ASSUME Lifecycle PROVE groups' = groups
  BY <1>3 DEF Lifecycle, BeginStep, BeginPhase, EndPhase, EndStep, configVars
<1>4. ASSUME Traffic PROVE groups' = groups
  BY <1>4, TrafficKeeps DEF TrafficKept
<1>5. ASSUME Recovery PROVE groups' = groups
  BY <1>5 DEF Recovery, AdmitReplacement, RetireIncarnation, configVars
<1> QED BY <1>1, <1>2, <1>3, <1>4, <1>5 DEF Next

LEMMA NextInputs ==
  ASSUME HeldInv, MatchInv, NumberInv, HistoryInv, PhaseInv, InputInv, [Next]_vars
  PROVE  InputInv'
<1>1. IsFiniteSet(groups') /\ Cardinality(groups') <= Contract.maxGroups
  <2>1. CASE groups' = groups BY <2>1 DEF InputInv
  <2>2. ASSUME NEW g, groups' = groups \cup {g}, g \notin groups,
               Cardinality(groups) < Contract.maxGroups
        PROVE  IsFiniteSet(groups') /\ Cardinality(groups') <= Contract.maxGroups
    <3>1. Contract.maxGroups \in Nat BY FabricAssumption DEF FabricAssumption
    <3> QED BY <2>2, <3>1, AddedWithin DEF InputInv
  <2> QED BY <2>1, <2>2, NextGroup
<1>2. \A p \in DOMAIN step'.phases : step'.phases[p].group \in groups'
  BY NextConfig, NextGroups DEF ConfigMoves, InputInv
<1>3. WithinMax(DOMAIN step'.phases)
  <2>1. Contract.maxPhases \in Nat BY FabricAssumption DEF FabricAssumption
  <2>2. WithinMax({}) BY <2>1, FS_EmptySet DEF WithinMax
  <2>3. ASSUME NEW p, DOMAIN step'.phases = DOMAIN step.phases \cup {p},
               Cardinality(DOMAIN step.phases) < Contract.maxPhases
        PROVE  WithinMax(DOMAIN step'.phases)
    BY <2>1, <2>3, AddedWithin DEF InputInv, WithinMax
  <2> QED BY <2>2, <2>3, NextPhasesMove DEF PhasesMove, InputInv
<1>4. /\ Len(history') <= Contract.historySteps
      /\ \A k \in DOMAIN history' : WithinMax(DOMAIN history'[k].phases)
      /\ incarnation' # 0 /\ retiredSet' \subseteq 0 .. incarnation'
  BY NextHistory, NextSummaries, NextRetired
<1> QED BY <1>1, <1>2, <1>3, <1>4 DEF InputInv, WithinMax

LEMMA NextRun ==
  ASSUME RunInv, [Next]_vars
  PROVE  RunInv'
<1>1. HeldInv' /\ MatchInv' /\ NumberInv' /\ HistoryInv'
  BY NextHeld, NextMatches, NextNumbers, NextAdvances, FabricAssumption DEF RunInv, Advanced
<1>2. AccountInv(FALSE)' BY NextMoves, NextAccounts DEF RunInv
<1>3. InputInv' BY NextInputs DEF RunInv
<1>4. PhaseInv' BY NextPhases DEF RunInv, PhaseHyp, AccountInv
<1>5. StepTyped' BY NextStepTyped DEF RunInv
<1> QED BY <1>1, <1>2, <1>3, <1>4, <1>5 DEF RunInv

-----------------------------------------------------------------------------
(* write_job and read_job.                                                 *)

LEMMA AccountFields ==
  ASSUME NEW a \in Accounts
  PROVE  a = [admitted |-> a.admitted, completed |-> a.completed, cancelled |-> a.cancelled,
              active |-> a.active, activeMin |-> a.activeMin,
              bytesCommitted |-> a.bytesCommitted, bytesCompleted |-> a.bytesCompleted,
              bytesCancelled |-> a.bytesCancelled]
BY DEF Accounts

\* The commitments of live flows are released, and nothing is left to reconcile.
LEMMA ReconciledIsBalanced ==
  ASSUME NEW a \in Accounts
  PROVE  Reconciled(a) \in Accounts /\ Balanced(Reconciled(a))
<1>1. PICK b \in Nat : b = a.bytesCompleted + a.bytesCancelled
  <2>1. a.bytesCompleted \in Nat /\ a.bytesCancelled \in Nat BY DEF Accounts
  <2> QED BY <2>1
<1>2. PICK r : r = Reconciled(a) OBVIOUS
<1>3. r = [a EXCEPT !.active = 0, !.activeMin = 0, !.bytesCommitted = b]
  BY <1>1, <1>2 DEF Reconciled
<1>4. /\ r \in Accounts /\ r.active = 0 /\ r.activeMin = 0 /\ r.bytesCommitted = b
      /\ r.bytesCompleted = a.bytesCompleted /\ r.bytesCancelled = a.bytesCancelled
  BY <1>3 DEF Accounts
<1>5. Balanced(r) BY <1>1, <1>4 DEF Balanced
<1> QED BY <1>2, <1>4, <1>5

LEMMA BalancedStays ==
  ASSUME NEW a \in Accounts, Balanced(a)
  PROVE  Reconciled(a) = a /\ Booked(a) = a
<1>1. PICK x \in Nat, y \in Nat : x = a.bytesCompleted /\ y = a.bytesCancelled
  BY DEF Accounts
<1>2. a.active = 0 /\ a.activeMin = 0 /\ a.bytesCommitted = x + y BY <1>1 DEF Balanced
<1>3. Monus(x + y, x) = y BY DEF Monus
<1>4. Booked(a) = [a EXCEPT !.active = 0, !.activeMin = 0, !.bytesCancelled = y]
  BY <1>1, <1>2, <1>3 DEF Booked
<1>5. Reconciled(a) = [a EXCEPT !.active = 0, !.activeMin = 0, !.bytesCommitted = x + y]
  BY <1>1 DEF Reconciled
<1>6. Booked(a) = a BY <1>1, <1>2, <1>4, AccountFields
<1>7. Reconciled(a) = a BY <1>2, <1>5, AccountFields
<1> QED BY <1>6, <1>7

\* At most the latest MaxRetired of the retired incarnations are written.
LEMMA RetainedAreLatest ==
  ASSUME incarnation \in Nat \ {0}, retiredSet \subseteq 0 .. incarnation
  PROVE  /\ incarnation \in RetainedIncarnations <=> incarnation \in retiredSet
         /\ RetainedIncarnations \subseteq retiredSet
         /\ \A i \in RetainedIncarnations :
              i + MaxRetired > IF incarnation \in retiredSet THEN incarnation
                               ELSE incarnation - 1
BY RestartAssumption DEF RestartAssumption, RetainedIncarnations

\* A live flow's bytes are committed in the books of its phase.
LEMMA PhasesCovered ==
  ASSUME NumberInv, PhaseInv, NEW p \in DOMAIN phaseAcct
  PROVE  phaseAcct[p] \in PhaseBooks /\ phaseAcct[p].completed <= phaseAcct[p].committed
<1>1. PICK b \in PhaseBooks : b = phaseAcct[p] BY DEF PhaseInv, PhasesRight
<1>2. PICK U : U = OfPhase(p, DOMAIN flows) /\ U \subseteq DOMAIN flows BY DEF OfPhase
<1>3. PICK x \in Nat : x = BytesSum(U)
  <2>1. BytesSum(U) \in Nat BY <1>2, SumSubset
  <2> QED BY <2>1
<1>4. b.committed = b.completed + x BY <1>1, <1>2, <1>3 DEF PhaseInv, PhasesRight
<1> QED BY <1>1, <1>4 DEF PhaseBooks

LEMMA WrittenIsSound ==
  ASSUME RunInv
  PROVE  Sound(Written)
<1>1. PICK a \in Accounts : a = step.acct BY DEF RunInv, AccountInv
<1>2. PICK s : s = WrittenStep OBVIOUS
<1>3. s = [id |-> step.id, incarnation |-> step.incarnation, seen |-> step.seen,
           phases |-> step.phases, burst |-> step.burst, acct |-> Reconciled(a)]
  BY <1>1, <1>2 DEF WrittenStep, RunInv, HeldInv, StepShape
<1>4. /\ s.id = step.id /\ s.incarnation = step.incarnation /\ s.phases = step.phases
      /\ s.acct = Reconciled(a) /\ s.seen = step.seen
      /\ s = [id |-> s.id, incarnation |-> s.incarnation, seen |-> s.seen,
              phases |-> s.phases, burst |-> s.burst, acct |-> s.acct]
  BY <1>3
<1>5. PICK w : w = Written OBVIOUS
<1>6. /\ w = [epoch |-> w.epoch, incarnation |-> w.incarnation, boot |-> w.boot,
              retiredSet |-> w.retiredSet, retired |-> w.retired,
              groups |-> w.groups, topology |-> w.topology, policyGen |-> w.policyGen,
              step |-> w.step, phaseAcct |-> w.phaseAcct,
              highestStep |-> w.highestStep, lastClosed |-> w.lastClosed,
              nextPhase |-> w.nextPhase, nextIntent |-> w.nextIntent,
              nextBurst |-> w.nextBurst, history |-> w.history]
      /\ w.epoch = epoch /\ w.incarnation = incarnation
      /\ w.retiredSet = RetainedIncarnations /\ w.retired = retired /\ w.groups = groups
      /\ w.topology = topology /\ w.policyGen = policyGen /\ w.step = s
      /\ w.phaseAcct = phaseAcct
      /\ w.highestStep = highestStep /\ w.lastClosed = lastClosed /\ w.nextPhase = nextPhase
      /\ w.nextIntent = nextIntent /\ w.nextBurst = nextBurst /\ w.history = history
  BY <1>2, <1>5 DEF Written
<1>7. SoundStep(w)
  <2>0. incarnation \notin retiredSet <=> incarnation \notin w.retiredSet
    BY <1>6, RetainedAreLatest DEF RunInv, InputInv, HeldInv, StepShape
  <2>1. /\ s.acct \in Accounts /\ Balanced(s.acct) /\ s.seen \in Nat
    BY <1>4, ReconciledIsBalanced DEF RunInv, StepTyped
  <2>2. /\ s.id \in Nat
        /\ s.id # 0 => /\ ~retired
                       /\ s.incarnation = incarnation /\ incarnation \notin retiredSet
                       /\ s.id = highestStep /\ lastClosed < s.id
    BY <1>4 DEF RunInv, HeldInv, StepShape, OpenStepIsHeld
  <2>3. \A p \in DOMAIN step.phases :
          LET ph == step.phases[p]
          IN  /\ ph = [cls |-> ph.cls, group |-> ph.group, open |-> ph.open]
              /\ p \in Nat /\ p < nextPhase
              /\ ph.cls \in DOMAIN Policies[policyGen].classOf /\ ph.group \in groups
    BY DEF RunInv, HeldInv, StepShape, MatchInv, NumberInv, InputInv, Doc
  <2> QED BY <1>4, <1>6, <2>0, <2>1, <2>2, <2>3 DEF SoundStep
<1>8. SoundRetired(w)
  BY <1>6, RetainedAreLatest DEF SoundRetired, RunInv, InputInv, HeldInv, StepShape
<1>9. SoundPhases(w)
  <2>1. s.acct.bytesCompleted = CompletedSum(phaseAcct, nextPhase - 1)
    <3>1. s.acct.bytesCompleted = a.bytesCompleted BY <1>4 DEF Reconciled, Accounts
    <3> QED BY <1>1, <3>1 DEF RunInv, PhaseInv
  <2>2. /\ 0 \notin DOMAIN step.phases /\ DOMAIN phaseAcct = DOMAIN step.phases
        /\ WithinMax(DOMAIN step.phases)
    BY DEF RunInv, PhaseInv, InputInv
  <2>3. \A p \in DOMAIN phaseAcct :
          phaseAcct[p] \in PhaseBooks /\ phaseAcct[p].completed <= phaseAcct[p].committed
    BY PhasesCovered DEF RunInv
  <2> QED BY <1>4, <1>6, <2>1, <2>2, <2>3 DEF SoundPhases
<1>10. SoundReports(w)
  <2>1. /\ Ordered(history, lastClosed) /\ Len(history) <= Contract.historySteps
        /\ \A k \in DOMAIN history : /\ Balanced(history[k].acct)
                                     /\ SummariesRight(history[k])
                                     /\ WithinMax(DOMAIN history[k].phases)
    BY DEF RunInv, HistoryInv, AccountInv, ReportRight, PhaseInv, InputInv
  <2> QED BY <1>6, <2>1 DEF SoundReports
<1>11. /\ epoch \in Nat /\ highestStep \in Nat /\ lastClosed \in Nat
       /\ lastClosed <= highestStep /\ {nextPhase, nextIntent, nextBurst} \subseteq Nat \ {0}
       /\ policyGen \in DOMAIN Policies
       /\ IsFiniteSet(groups) /\ Cardinality(groups) <= Contract.maxGroups
       /\ \A g \in DOMAIN topology.cap : topology.cap[g] \in Nat
  BY DEF RunInv, HeldInv, StepShape, NumberInv, StepTyped, InputInv
<1>12. Sound(w) BY <1>6, <1>7, <1>8, <1>9, <1>10, <1>11 DEF Sound
<1> QED BY <1>5, <1>12

\* What the codec counts of a job is within what the reader accepts.
LEMMA RetiredAreFew ==
  ASSUME NEW w, SoundRetired(w)
  PROVE  Cardinality(w.retiredSet) <= ReaderMax.retired
<1>1. PICK m \in Nat \ {0}, r \in Nat : m = MaxRetired /\ r = ReaderMax.retired /\ m <= r
  BY RestartAssumption DEF RestartAssumption
<1>2. PICK n \in Nat : /\ n = IF w.incarnation \in w.retiredSet THEN w.incarnation
                              ELSE w.incarnation - 1
                      /\ \A i \in w.retiredSet : i + m > n
  BY <1>1 DEF SoundRetired
<1>3. \A i \in w.retiredSet : i \in Nat /\ i <= n BY <1>2 DEF SoundRetired
<1>4. PICK lo \in Int : lo = n - m + 1 OBVIOUS
<1>5. w.retiredSet \subseteq lo .. n BY <1>2, <1>3, <1>4
<1>6. IsFiniteSet(lo .. n) /\ Cardinality(lo .. n) = m
  BY <1>4, FS_Interval
<1>7. Cardinality(w.retiredSet) <= m /\ Cardinality(w.retiredSet) \in Nat
  BY <1>5, <1>6, FS_Subset, FS_CardinalityType
<1> QED BY <1>1, <1>7

LEMMA FewPhases ==
  ASSUME Contract.maxPhases <= ReaderMax.phases, NEW S, WithinMax(S)
  PROVE  Cardinality(S) <= ReaderMax.phases
<1>1. Contract.maxPhases \in Nat /\ ReaderMax.phases \in Nat
  BY FabricAssumption, RestartAssumption DEF FabricAssumption, RestartAssumption
<1>2. Cardinality(S) \in Nat BY FS_CardinalityType DEF WithinMax
<1> QED BY <1>1, <1>2 DEF WithinMax

\* A sound job is one that read_job accepts, if its evidence is of registered groups and
\* the reader takes as many phases as a step may have.
LEMMA SoundIsReadable ==
  ASSUME Contract.maxPhases <= ReaderMax.phases,
         NEW w, Sound(w), DOMAIN w.topology.cap \subseteq w.groups
  PROVE  Readable(w)
<1>1. ReadableStep(w)
  <2>1. w.step.id <= w.highestStep
    BY DEF Sound, SoundStep
  <2>2. w.step.acct.bytesCompleted + w.step.acct.bytesCancelled <= w.step.acct.bytesCommitted
    BY DEF Sound, SoundStep, Balanced, Accounts
  <2>3. \A p \in DOMAIN w.step.phases : p # 0 /\ w.step.phases[p].group \in w.groups
    BY DEF Sound, SoundStep, SoundPhases
  <2>4. Cardinality(DOMAIN w.step.phases) <= ReaderMax.phases
    BY FewPhases DEF Sound, SoundPhases
  <2>5. \A p \in DOMAIN w.phaseAcct : w.phaseAcct[p].completed <= w.phaseAcct[p].committed
    BY DEF Sound, SoundPhases
  <2> QED BY <2>1, <2>2, <2>3, <2>4, <2>5 DEF ReadableStep
<1>2. ReadableReports(w)
  <2>1. DOMAIN w.history = 1 .. Len(w.history) /\ Len(w.history) \in Nat
    BY DEF Sound, SoundReports, Ordered
  <2>2. ASSUME NEW k \in DOMAIN w.history, k > 1
        PROVE  w.history[k - 1].step < w.history[k].step
    <3>1. k \in 1 .. Len(w.history) /\ k - 1 \in 1 .. k - 1 BY <2>1, <2>2
    <3> QED BY <3>1 DEF Sound, SoundReports, Ordered
  <2>3. ASSUME NEW k \in DOMAIN w.history, NEW p \in DOMAIN w.history[k].phases
        PROVE  w.history[k].phases[p].completed <= w.history[k].phases[p].committed
    BY DEF Sound, SoundReports, SummariesRight, PhaseBooks
  <2>4. /\ Len(w.history) <= Contract.historySteps
        /\ \A k \in DOMAIN w.history :
             /\ Balanced(w.history[k].acct)
             /\ Cardinality(DOMAIN w.history[k].phases) <= ReaderMax.phases
    BY FewPhases DEF Sound, SoundReports
  <2> QED BY <2>2, <2>3, <2>4 DEF ReadableReports
<1>3. /\ w.incarnation # 0 /\ Cardinality(w.retiredSet) <= ReaderMax.retired
      /\ 0 \notin {w.nextPhase, w.nextIntent, w.nextBurst}
  BY RetiredAreFew DEF Sound, SoundRetired
<1> QED BY <1>1, <1>2, <1>3 DEF Sound, Readable

-----------------------------------------------------------------------------
(* A restart.                                                              *)

\* The open step comes back as it was stored.
LEMMA StepComesBack ==
  ASSUME Sound(stored), NEW e, Restart(e)
  PROVE  step' = stored.step
<1>1. PICK a \in Accounts : a = stored.step.acct /\ Balanced(a) BY DEF Sound, SoundStep
<1>2. step' = [stored.step EXCEPT !.acct = Booked(a)] BY <1>1 DEF Restart
<1>3. Booked(a) = a BY <1>1, BalancedStays
<1> QED BY <1>1, <1>2, <1>3 DEF Sound, SoundStep

LEMMA Predecessor == ASSUME NEW n \in Nat \ {0} PROVE n - 1 \in Nat
OBVIOUS

\* With the flows gone the phases have committed what they completed, and no more.
LEMMA RestoredPhases ==
  ASSUME Sound(stored), NEW e, Restart(e), step' = stored.step, DOMAIN flows' = {}, NumberInv'
  PROVE  PhaseInv'
<1>1. PICK was, now : /\ was = stored.phaseAcct /\ now = PhasesBooked(was)
                     /\ now = phaseAcct' /\ DOMAIN now = DOMAIN was
  BY DEF Restart, PhasesBooked
<1>2. ASSUME NEW p \in DOMAIN was
      PROVE  /\ now[p] \in PhaseBooks
             /\ now[p].completed = was[p].completed /\ now[p].committed = was[p].completed
  <2>1. PICK b \in PhaseBooks : b = was[p] BY <1>1 DEF Sound, SoundPhases
  <2>2. now[p] = [b EXCEPT !.committed = b.completed] BY <1>1, <2>1 DEF PhasesBooked
  <2> QED BY <2>1, <2>2 DEF PhaseBooks
<1>3. nextPhase' = stored.nextPhase /\ history' = stored.history BY DEF Restart
<1>4. nextPhase' # 0 /\ 0 \notin DOMAIN step'.phases /\ DOMAIN phaseAcct' = DOMAIN step'.phases
  BY <1>1, <1>3 DEF Sound, SoundPhases
<1>5. PhasesRight(phaseAcct, DOMAIN flows)'
  <2>1. nextIntent' - 1 \in Nat
    <3>1. nextIntent' \in Nat \ {0} BY DEF NumberInv
    <3> QED BY <3>1, Predecessor
  <2>2. BytesSum({})' = 0 BY <2>1, SumsAreTotalsNext, TotalEmpty
  <2>3. ASSUME NEW CONSTANT p PROVE BytesSum(OfPhase(p, DOMAIN flows))' = 0
    <3>1. OfPhase(p, DOMAIN flows)' = {} BY DEF OfPhase
    <3> QED BY <2>2, <3>1, PhaseSumNext
  <2>4. ASSUME NEW p \in DOMAIN phaseAcct'
        PROVE  /\ phaseAcct'[p] \in PhaseBooks
               /\ phaseAcct'[p].committed =
                    phaseAcct'[p].completed + BytesSum(OfPhase(p, DOMAIN flows))'
    <3>1. /\ now[p] \in PhaseBooks /\ now[p].committed = now[p].completed
          /\ now[p] = phaseAcct'[p]
      BY <1>1, <1>2
    <3> QED BY <2>3, <3>1 DEF PhaseBooks
  <2> QED BY <2>4 DEF PhasesRight
<1>6. step'.acct.bytesCompleted = CompletedSum(phaseAcct', nextPhase' - 1)
  <2>1. nextPhase' - 1 \in Nat BY <1>3, Predecessor DEF Sound
  <2>2. CompletedSum(now, nextPhase' - 1) = CompletedSum(was, nextPhase' - 1)
    BY <1>1, <1>2, <2>1, CompletedAgree
  <2>3. step'.acct.bytesCompleted = CompletedSum(was, nextPhase' - 1)
    BY <1>1, <1>3 DEF Sound, SoundPhases
  <2> QED BY <1>1, <2>2, <2>3
<1>7. \A k \in DOMAIN history' : SummariesRight(history'[k])
  BY <1>3 DEF Sound, SoundReports
<1> QED BY <1>4, <1>5, <1>6, <1>7 DEF PhaseInv

LEMMA RestoredRuns ==
  ASSUME Sound(stored), NEW e \in 1 .. MaxEpoch, Restart(e)
  PROVE  RunInv'
<1> USE FabricAssumption
<1>0. step' = stored.step /\ DOMAIN flows' = {}
  <2>1. flows' = <<>> BY DEF Restart
  <2> QED BY <2>1, StepComesBack
<1>1. HeldInv'
  <2>1. e \in Nat BY DEF FabricAssumption
  <2>2. StepShape' BY <1>0, <2>1 DEF Restart, Sound, SoundRetired, SoundStep, StepShape
  <2>3. FlowShape' BY <1>0 DEF FlowShape
  <2>4. OpenStepIsHeld' BY <1>0 DEF Restart, Sound, SoundStep, OpenStepIsHeld
  <2> QED BY <2>2, <2>3, <2>4 DEF HeldInv
<1>2. MatchInv' BY <1>0 DEF Restart, Sound, SoundStep, MatchInv, FlowsMatchPolicy
<1>3. NumberInv'
  BY <1>0 DEF Restart, Sound, SoundStep, NumberInv, NoUtilization, Doc
<1>4. HistoryInv' BY DEF Restart, Sound, SoundReports, HistoryInv
<1>5. AccountInv(FALSE)'
  <2>1. nextIntent' - 1 \in Nat
    <3>1. nextIntent' \in Nat \ {0} BY <1>3 DEF NumberInv
    <3> QED BY <3>1, Predecessor
  <2>2. MinSum({})' = 0 /\ BytesSum({})' = 0 BY <2>1, SumsAreTotalsNext, TotalEmpty
  <2>3. MinSum(DOMAIN flows)' = 0 /\ BytesSum(DOMAIN flows)' = 0 BY <1>0, <2>2, SumsNext
  <2>4. PICK a \in Accounts : a = step'.acct /\ Balanced(a) BY <1>0 DEF Sound, SoundStep
  <2>5. a.bytesCompleted \in Nat /\ a.bytesCancelled \in Nat BY DEF Accounts
  <2>6. /\ a.active = Cardinality(DOMAIN flows') /\ a.activeMin = MinSum(DOMAIN flows)'
        /\ a.bytesCommitted = a.bytesCompleted + a.bytesCancelled + BytesSum(DOMAIN flows)'
    <3>1. a.active = 0 /\ a.activeMin = 0 /\ a.bytesCommitted = a.bytesCompleted + a.bytesCancelled
      BY ONLY <2>4 DEF Balanced
    <3>2. Cardinality(DOMAIN flows') = 0
      <4>1. Cardinality({}) = 0 BY ONLY FS_EmptySet
      <4> QED BY ONLY <1>0, <4>1
    <3>3. a.bytesCompleted + a.bytesCancelled + 0 = a.bytesCompleted + a.bytesCancelled
      BY ONLY <2>5
    <3>4. a.bytesCommitted = a.bytesCompleted + a.bytesCancelled + BytesSum(DOMAIN flows)'
      BY ONLY <2>3, <3>1, <3>3
    <3> QED BY ONLY <2>3, <3>1, <3>2, <3>4
  <2>7. \A k \in DOMAIN history' : Balanced(history'[k].acct)
    BY DEF Restart, Sound, SoundReports
  <2> QED BY <2>4, <2>6, <2>7 DEF AccountInv, RightFor, ReportRight
<1>6. PhaseInv' BY <1>0, <1>3, RestoredPhases
<1>7. StepTyped' BY <1>0 DEF Restart, Sound, SoundStep, SoundPhases, StepTyped
<1>8. InputInv'
  <2>1. /\ WithinMax(DOMAIN step'.phases)
        /\ Len(history') <= Contract.historySteps
        /\ \A k \in DOMAIN history' : WithinMax(DOMAIN history'[k].phases)
    BY <1>0 DEF Restart, Sound, SoundPhases, SoundReports
  <2>2. incarnation' # 0 /\ retiredSet' \subseteq 0 .. incarnation'
    BY DEF Restart, Sound, SoundRetired
  <2>3. /\ IsFiniteSet(groups') /\ Cardinality(groups') <= Contract.maxGroups
        /\ \A p \in DOMAIN step'.phases : step'.phases[p].group \in groups'
    BY <1>0 DEF Restart, Sound, SoundStep
  <2> QED BY <2>1, <2>2, <2>3 DEF InputInv, WithinMax
<1> QED BY <1>1, <1>2, <1>3, <1>4, <1>5, <1>6, <1>7, <1>8 DEF RunInv

\* The incarnations that were retained are retained again.
LEMMA RetainedAgain ==
  ASSUME Sound(stored), NEW e, Restart(e)
  PROVE  RetainedIncarnations' = stored.retiredSet
BY DEF Restart, Sound, SoundRetired, RetainedIncarnations

\* The stored job w under the epoch e and with the books acct of its phases.
JobRecord(w, e, acct) ==
  [epoch |-> e, incarnation |-> w.incarnation, boot |-> w.boot,
   retiredSet |-> w.retiredSet, retired |-> w.retired,
   groups |-> w.groups, topology |-> w.topology, policyGen |-> w.policyGen,
   step |-> w.step, phaseAcct |-> acct,
   highestStep |-> w.highestStep, lastClosed |-> w.lastClosed,
   nextPhase |-> w.nextPhase, nextIntent |-> w.nextIntent, nextBurst |-> w.nextBurst,
   history |-> w.history]

LEMMA JobRebooked ==
  ASSUME NEW w, NEW e, NEW acct, w = JobRecord(w, w.epoch, w.phaseAcct)
  PROVE  [w EXCEPT !.epoch = e, !.phaseAcct = acct] = JobRecord(w, e, acct)
<1>1. PICK u, v : u = [w EXCEPT !.epoch = e, !.phaseAcct = acct] /\ v = JobRecord(w, e, acct)
  OBVIOUS
<1>2. PICK D : D = {"epoch", "incarnation", "boot", "retiredSet", "retired", "groups",
                    "topology", "policyGen", "step", "phaseAcct", "highestStep", "lastClosed",
                    "nextPhase", "nextIntent", "nextBurst", "history"}
  OBVIOUS
<1>3. DOMAIN w = D BY ONLY <1>2, w = JobRecord(w, w.epoch, w.phaseAcct) DEF JobRecord
<1>4. u = [k \in D |-> IF k = "phaseAcct" THEN acct ELSE IF k = "epoch" THEN e ELSE w[k]]
  BY ONLY <1>1, <1>2, <1>3
<1>5. v = [k \in D |-> IF k = "phaseAcct" THEN acct ELSE IF k = "epoch" THEN e ELSE w[k]]
  BY ONLY <1>1, <1>2 DEF JobRecord
<1> QED BY ONLY <1>1, <1>4, <1>5

LEMMA StoredAgain ==
  ASSUME Sound(stored), NEW e, Restart(e)
  PROVE  stored' = [stored EXCEPT !.epoch = epoch', !.phaseAcct = PhasesBooked(@)]
<1>1. step' = stored.step BY StepComesBack
<1>2. WrittenStep' = stored.step
  <2>1. PICK a \in Accounts : a = stored.step.acct /\ Balanced(a) BY DEF Sound, SoundStep
  <2>2. Reconciled(a) = a BY <2>1, BalancedStays
  <2>3. WrittenStep' = [stored.step EXCEPT !.acct = Reconciled(a)]
    BY <1>1, <2>1 DEF WrittenStep
  <2> QED BY <2>1, <2>2, <2>3 DEF Sound, SoundStep
<1>3. PICK acct : acct = PhasesBooked(stored.phaseAcct) OBVIOUS
<1>4. stored' = JobRecord(stored, epoch', acct)
  BY <1>2, <1>3, RetainedAgain DEF Restart, Written, JobRecord
<1>5. stored = JobRecord(stored, stored.epoch, stored.phaseAcct)
  BY ONLY Sound(stored) DEF Sound, JobRecord
<1>6. [stored EXCEPT !.epoch = epoch', !.phaseAcct = acct] = stored'
  BY ONLY <1>4, <1>5, JobRebooked
<1> QED BY ONLY <1>3, <1>6

\* Only the commitments of the phases differ.
LEMMA BookedAgain ==
  ASSUME Sound(stored), NEW e, Restart(e)
  PROVE  SameButCommitments(stored, stored')
<1>1. PICK pa : pa = PhasesBooked(stored.phaseAcct) OBVIOUS
<1>2. stored' = [stored EXCEPT !.epoch = epoch', !.phaseAcct = pa] BY <1>1, StoredAgain
<1>3. /\ stored'.phaseAcct = pa
      /\ stored' = [stored EXCEPT !.epoch = stored'.epoch, !.phaseAcct = stored'.phaseAcct]
  BY <1>2 DEF Sound
<1>4. ASSUME NEW p \in DOMAIN stored.phaseAcct
      PROVE  /\ pa[p].completed = stored.phaseAcct[p].completed
             /\ pa[p].committed = stored.phaseAcct[p].completed
  <2>1. PICK b \in PhaseBooks : b = stored.phaseAcct[p] BY DEF Sound, SoundPhases
  <2>2. pa[p] = [b EXCEPT !.committed = b.completed] BY <1>1, <2>1 DEF PhasesBooked
  <2> QED BY <2>1, <2>2 DEF PhaseBooks
<1>5. DOMAIN pa = DOMAIN stored.phaseAcct BY <1>1 DEF PhasesBooked
<1> QED BY <1>3, <1>4, <1>5 DEF SameButCommitments

RestartInv == RunInv /\ Sound(stored)

LEMMA InitRestart == RestartInit => RestartInv
<1> SUFFICES ASSUME RestartInit PROVE RestartInv
  OBVIOUS
<1> USE FabricAssumption
<1>1. HeldInv BY InitHeld DEF RestartInit
<1>2. MatchInv /\ NumberInv /\ StepTyped /\ InputInv
  <2>1. /\ DOMAIN flows = {} /\ DOMAIN step.phases = {} /\ nextPhase = 1 /\ nextIntent = 1
        /\ policyGen = 1 /\ DOMAIN topology.cap = {} /\ utilized = [g \in Groups |-> 0]
        /\ groups = {} /\ history = <<>> /\ DOMAIN history = {}
        /\ incarnation = 1 /\ retiredSet = {} /\ step.seen = 0 /\ nextBurst = 1
    BY DEF RestartInit, Init, NoStep
  <2>2. MatchInv BY <2>1 DEF MatchInv, FlowsMatchPolicy
  <2>3. NumberInv BY <2>1 DEF NumberInv, FabricAssumption
  <2>4. Len(history) = 0 /\ IsFiniteSet({}) /\ Cardinality({}) = 0
    BY <2>1, FS_EmptySet
  <2>5. StepTyped BY <2>1 DEF StepTyped
  <2>6. InputInv BY <2>1, <2>4 DEF InputInv, WithinMax, FabricAssumption
  <2> QED BY <2>2, <2>3, <2>5, <2>6
<1>3. HistoryInv
  <2>1. <<>> \in Seq({}) /\ Len(<<>>) = 0 OBVIOUS
  <2>2. Ordered(<<>>, 0) BY <2>1 DEF Ordered
  <2> QED BY <2>2 DEF RestartInit, Init, HistoryInv
<1>4. AccountInv(FALSE)
  <2>1. DOMAIN flows = {} /\ step.acct = NoAccounting /\ DOMAIN history = {}
    BY DEF RestartInit, Init, NoStep
  <2> QED BY <1>2, <2>1, NothingRight DEF AccountInv
<1>5. RunInv BY <1>1, <1>2, <1>3, <1>4, InitPhases DEF RestartInit, RunInv
<1> QED BY <1>5, WrittenIsSound DEF RestartInit, RestartInv

LEMMA NextRestart == RestartInv /\ [RestartNext]_<<vars, stored>> => RestartInv'
<1> SUFFICES ASSUME RestartInv, [RestartNext]_<<vars, stored>> PROVE RestartInv'
  OBVIOUS
<1>1. ASSUME [Next]_vars, stored' = stored PROVE RestartInv'
  BY <1>1, NextRun DEF RestartInv
<1>2. CASE Commit
  <2>1. [Next]_vars /\ stored' = Written BY <1>2 DEF Commit
  <2>2. RunInv' /\ Sound(Written) BY <2>1, NextRun, WrittenIsSound DEF RestartInv
  <2> QED BY <2>1, <2>2 DEF RestartInv
<1>3. ASSUME NEW e \in 1 .. MaxEpoch, Restart(e) PROVE RestartInv'
  <2>1. RunInv' BY <1>3, RestoredRuns DEF RestartInv
  <2>2. (RunInv => Sound(Written))' BY WrittenIsSound, PTL
  <2>3. PICK w : w = Written' OBVIOUS
  <2>4. stored' = w BY <1>3, <2>3 DEF Restart
  <2>5. Sound(w) BY <2>1, <2>2, <2>3
  <2> QED BY <2>1, <2>4, <2>5 DEF RestartInv
<1> QED BY <1>1, <1>2, <1>3 DEF RestartNext, Operate

(***************************************************************************)
(* The job as the fabric holds it and the job as it is stored satisfy      *)
(* their invariants in every reachable state, through every operation,     *)
(* commit, crash and restart (fabric_state.cpp: write_job, read_job).      *)
(***************************************************************************)
THEOREM RestartInvariant == RestartSpec => []RestartInv
BY InitRestart, NextRestart, PTL DEF RestartSpec

-----------------------------------------------------------------------------
(* What follows from it.                                                   *)

\* Evidence is of registered groups, in the fabric and on the disk.
EvidenceInv ==
  /\ DOMAIN topology.cap \subseteq groups
  /\ DOMAIN stored.topology.cap \subseteq stored.groups

LEMMA WrittenConfig == Written.topology = topology /\ Written.groups = groups
BY DEF Written

LEMMA NextEvidence ==
  ASSUME RegisteredEvidenceOnly, EvidenceInv, [RestartNext]_<<vars, stored>>
  PROVE  EvidenceInv'
<1>1. CASE UNCHANGED <<vars, stored>> BY <1>1 DEF vars, configVars, EvidenceInv
<1>2. CASE Operate BY <1>2 DEF Operate, EvidenceInv
<1>3. CASE Commit BY <1>3, WrittenConfig DEF Commit, vars, configVars, EvidenceInv
<1>4. ASSUME NEW e, Restart(e) PROVE EvidenceInv'
  <2>1. /\ topology' = stored.topology /\ groups' = stored.groups
        /\ stored'.topology = topology' /\ stored'.groups = groups'
    BY <1>4 DEF Restart, Written
  <2> QED BY <2>1 DEF EvidenceInv
<1> QED BY <1>1, <1>2, <1>3, <1>4 DEF RestartNext

(***************************************************************************)
(* Whatever its operations have made of a job, and however often it was    *)
(* restored before, read_job accepts what write_job would write of it now: *)
(* no job becomes unrestorable (fabric_state.cpp:668).  The hypotheses are *)
(* the callers' (publish_topology does not check it; see run unrestorable) *)
(* and the contract's author's (ContractDocument::validate allows 65536    *)
(* phases in a step, of which read_open_step takes 4096).                  *)
(***************************************************************************)
THEOREM JobsAreRestorable ==
  ASSUME RegisteredEvidenceOnly, Contract.maxPhases <= ReaderMax.phases
  PROVE  RestartSpec => []Restorable
<1>1. RestartInit => EvidenceInv
  BY WrittenConfig DEF RestartInit, Init, EvidenceInv
<1>2. EvidenceInv /\ [RestartNext]_<<vars, stored>> => EvidenceInv'
  BY NextEvidence
<1>3. RestartInv /\ EvidenceInv => Restorable
  <2> SUFFICES ASSUME RestartInv, EvidenceInv PROVE Restorable
    OBVIOUS
  <2>1. PICK w : w = Written OBVIOUS
  <2>2. Sound(w) BY <2>1, WrittenIsSound DEF RestartInv
  <2>3. DOMAIN w.topology.cap \subseteq w.groups BY <2>1, WrittenConfig DEF EvidenceInv
  <2> QED BY <2>1, <2>2, <2>3, SoundIsReadable DEF Restorable
<1> QED BY <1>1, <1>2, <1>3, RestartInvariant, PTL DEF RestartSpec

(***************************************************************************)
(* A restart stores the job it restored with nothing changed but the epoch *)
(* and the commitments of its phases, which become what they completed:    *)
(* neither write_open_step nor read_open_step makes the books of the step, *)
(* the allocators or the reports drift, however many restarts there are.   *)
(***************************************************************************)
THEOREM RoundTripsAreStable == RestartSpec => RoundTripStable
<1> DEFINE Step == \/ UNCHANGED vars
                   \/ UNCHANGED stored
                   \/ SameButCommitments(stored, stored')
<1>1. ASSUME RestartInv, [RestartNext]_<<vars, stored>> PROVE [Step]_<<vars, stored>>
  <2>1. ASSUME NEW e, Restart(e) PROVE Step BY <1>1, <2>1, BookedAgain DEF RestartInv
  <2> QED BY <1>1, <2>1 DEF RestartNext, Operate, Commit
<1>2. RestartSpec => [][Step]_<<vars, stored>>
  BY <1>1, RestartInvariant, PTL DEF RestartSpec
<1> QED BY <1>2 DEF RoundTripStable

(***************************************************************************)
(* The books of each phase count its own live flows, those of the phases   *)
(* add up to the step's, and no summary has a byte outstanding, across     *)
(* restarts too: what was committed to the flows that are gone is dropped  *)
(* from the books of their phases with them (read_open_step).              *)
(***************************************************************************)
THEOREM PhaseBooksBalanceAcrossRestarts == RestartSpec => []PhaseAccountsBalance
<1>1. RestartInv => PhaseAccountsBalance BY PhasesBalance DEF RestartInv, RunInv
<1> QED BY <1>1, RestartInvariant, PTL

(***************************************************************************)
(* A job that was stored under one policy and goes on under another, with  *)
(* restarts in between, still has no live flow whose class is not the one  *)
(* that the policy in force gives its phase (invalidate_for_generation_    *)
(* change, read_open_step).                                                *)
(***************************************************************************)
THEOREM ClassesFollowPolicyAcrossRestarts == RestartSpec => []FlowsMatchPolicy
<1>1. RestartInv => FlowsMatchPolicy BY DEF RestartInv, RunInv, MatchInv
<1> QED BY <1>1, RestartInvariant, PTL

LEMMA RestartAuthority ==
  ASSUME RestartInv, OwnersHold, [RestartNext]_<<vars, stored>>
  PROVE  OwnersHold'
<1>1. ASSUME [Next]_vars PROVE OwnersHold'
  <2>1. HeldInv BY DEF RestartInv, RunInv
  <2>2. AuthorityInv' BY <1>1, <2>1, FabricAssumption, NextAuthority DEF AuthorityInv
  <2> QED BY <2>2 DEF AuthorityInv
<1>2. ASSUME NEW e, Restart(e) PROVE OwnersHold'
  <2>1. DOMAIN flows' = {} BY <1>2 DEF Restart
  <2> QED BY <2>1 DEF OwnersHold, LiveFlowsHoldAuthority
<1> QED BY <1>1, <1>2 DEF RestartNext, Operate, Commit

(***************************************************************************)
(* The epoch, the incarnation and the step come back from what was stored, *)
(* maybe from before the flows of the process that died were granted: no   *)
(* live flow is ever held under what the restored job does not say         *)
(* (deserialize_state: the flows are not restored).                        *)
(***************************************************************************)
THEOREM AuthorityHoldsAcrossRestarts ==
  RestartSpec => [](OpenStepIsHeld /\ LiveFlowsHoldAuthority)
<1>1. RestartInit => OwnersHold
  BY DEF RestartInit, Init, OwnersHold, LiveFlowsHoldAuthority
<1>2. RestartInv /\ OwnersHold /\ [RestartNext]_<<vars, stored>> => OwnersHold'
  BY RestartAuthority
<1>3. RestartInv /\ OwnersHold => OpenStepIsHeld /\ LiveFlowsHoldAuthority
  BY DEF RestartInv, RunInv, HeldInv, OwnersHold
<1> QED BY <1>1, <1>2, <1>3, RestartInvariant, PTL DEF RestartSpec

LEMMA UtilizationComesBack ==
  ASSUME Sound(stored), NEW e \in 1 .. MaxEpoch, Restart(e)
  PROVE  UtilizationMatchesFlows' /\ InRegisteredGroups'
<1>1. NumberInv' BY RestoredRuns DEF RunInv
<1>2. DOMAIN flows' = {} /\ utilized' = NoUtilization BY DEF Restart
<1>3. nextIntent' - 1 \in Nat
  <2>1. nextIntent' \in Nat \ {0} BY <1>1 DEF NumberInv
  <2> QED BY <2>1, Predecessor
<1>4. MinSum({})' = 0 BY <1>3, SumsAreTotalsNext, TotalEmpty
<1>5. \A g \in Groups : FlowsOf(g)' = {} BY <1>2 DEF FlowsOf
<1>6. \A g \in Groups : MinSum(FlowsOf(g))' = 0 BY <1>4, <1>5, SumsNext
<1> QED BY <1>2, <1>6 DEF UtilizationMatchesFlows, InRegisteredGroups, NoUtilization

LEMMA RestartUtilization ==
  ASSUME RegisteredTrafficOnly, RestartInv, UtilizationMatchesFlows, InRegisteredGroups,
         [RestartNext]_<<vars, stored>>
  PROVE  UtilizationMatchesFlows' /\ InRegisteredGroups'
<1>1. ASSUME [Next]_vars PROVE UtilizationMatchesFlows' /\ InRegisteredGroups'
  BY <1>1, NextMoves, NextUtilization, NextInGroups DEF RestartInv, RunInv, UtilInv
<1>2. ASSUME NEW e \in 1 .. MaxEpoch, Restart(e)
      PROVE  UtilizationMatchesFlows' /\ InRegisteredGroups'
  BY <1>2, UtilizationComesBack DEF RestartInv
<1> QED BY <1>1, <1>2 DEF RestartNext, Operate, Commit

(***************************************************************************)
(* The utilisation of a group is the sum of the grants of its live flows   *)
(* across restarts too: the flows are not restored and the tables start    *)
(* again from nothing with them (deserialize_state).                       *)
(***************************************************************************)
THEOREM UtilizationIsExactAcrossRestarts ==
  ASSUME RegisteredTrafficOnly
  PROVE  RestartSpec => []UtilizationMatchesFlows
<1>1. RestartInit => UtilizationMatchesFlows /\ InRegisteredGroups
  <2> SUFFICES ASSUME RestartInit PROVE UtilizationMatchesFlows /\ InRegisteredGroups
    OBVIOUS
  <2>1. DOMAIN flows = {} /\ nextIntent = 1 /\ utilized = [g \in Groups |-> 0]
    BY DEF RestartInit, Init
  <2>2. SumTo([i \in Ids |-> IF i \in {} THEN flows[i].min ELSE 0], nextIntent - 1) = 0
    BY <2>1, SumToZero
  <2>3. \A g : FlowsOf(g) = {} BY <2>1 DEF FlowsOf
  <2> QED BY <2>1, <2>2, <2>3 DEF UtilizationMatchesFlows, InRegisteredGroups, MinSum
<1>2. ASSUME RestartInv, UtilizationMatchesFlows, InRegisteredGroups,
             [RestartNext]_<<vars, stored>>
      PROVE  UtilizationMatchesFlows' /\ InRegisteredGroups'
  BY <1>2, RestartUtilization
<1> QED BY <1>1, <1>2, RestartInvariant, PTL DEF RestartSpec

-----------------------------------------------------------------------------
(***************************************************************************)
(* What Fabric grants, across restarts.  The flows are not restored, their *)
(* bounds are: the evidence, the policy, the phases and the burst of the   *)
(* step come back, and what is granted from then on is bounded by them.    *)
(***************************************************************************)

EvidenceRight(topo) == topo.gen \in Nat /\ (topo.gen = 0 => DOMAIN topo.cap = {})

RestartBound == BoundInv /\ EvidenceRight(stored.topology)

LEMMA RestartKeepsBound ==
  ASSUME AllStrict, RestartInv, RestartBound, [RestartNext]_<<vars, stored>>
  PROVE  RestartBound'
<1>1. ASSUME [Next]_vars PROVE BoundInv'
  BY <1>1, NextBound DEF RestartInv, RunInv, RestartBound
<1>2. ASSUME stored' = Written, UNCHANGED vars PROVE EvidenceRight(stored'.topology)
  BY <1>2, WrittenConfig DEF RestartBound, BoundInv, EvidenceRight
<1>3. ASSUME NEW e \in 1 .. MaxEpoch, Restart(e) PROVE RestartBound'
  <2>1. DOMAIN flows' = {} /\ topology' = stored.topology /\ stored'.topology = topology'
    BY <1>3 DEF Restart, Written
  <2>2. policyGen' \in DOMAIN Policies BY <1>3 DEF Restart, RestartInv, Sound
  <2> QED BY <2>1, <2>2 DEF RestartBound, BoundInv, EvidenceRight, TopologyBound
<1>4. CASE Operate \/ UNCHANGED <<vars, stored>> BY <1>1, <1>4 DEF Operate, RestartBound
<1>5. CASE Commit BY <1>1, <1>2, <1>5 DEF Commit, RestartBound
<1> QED BY <1>3, <1>4, <1>5 DEF RestartNext

LEMMA InitRestartBound == RestartInit => RestartBound
<1> SUFFICES ASSUME RestartInit PROVE RestartBound
  OBVIOUS
<1>1. /\ policyGen \in DOMAIN Policies /\ topology = [gen |-> 0, cap |-> <<>>]
      /\ DOMAIN flows = {} /\ stored = Written
  BY FabricAssumption DEF FabricAssumption, RestartInit, Init
<1>2. stored.topology = topology BY <1>1, WrittenConfig
<1> QED BY <1>1, <1>2 DEF RestartBound, BoundInv, EvidenceRight, TopologyBound

RecordsRight == CreditInv /\ AgreeInv

LEMMA RestartKeepsRecords ==
  ASSUME AllStrict, RestartInv, RestartBound, RecordsRight, [RestartNext]_<<vars, stored>>
  PROVE  RecordsRight'
<1>1. ASSUME [Next]_vars PROVE RecordsRight'
  <2>1. CreditInv' BY <1>1, NextCredits DEF RecordsRight, Credited
  <2>2. AgreeInv'
    BY <1>1, FabricAssumption, NextAgrees DEF RestartInv, RunInv, RestartBound, RecordsRight
  <2> QED BY <2>1, <2>2 DEF RecordsRight
<1>2. ASSUME NEW e \in 1 .. MaxEpoch, Restart(e) PROVE RecordsRight'
  <2>1. DOMAIN flows' = {} /\ DOMAIN receipts' = {} /\ DOMAIN decisions' = {}
    BY <1>2 DEF Restart
  <2>2. nextIntent' \in Nat BY <1>2 DEF Restart, RestartInv, Sound
  <2> QED BY <2>1, <2>2 DEF RecordsRight, CreditInv, AgreeInv
<1> QED BY <1>1, <1>2 DEF RestartNext, Operate, Commit

(***************************************************************************)
(* Under strict policies, what is recorded of the decisions agrees with    *)
(* the flows, and these with the evidence in force, whatever was lost of   *)
(* both in a crash: an intent id that is minted again finds no decision    *)
(* and no receipt of the process that died (deserialize_state).            *)
(***************************************************************************)
THEOREM DecisionsTellTheTruthAcrossRestarts ==
  ASSUME AllStrict
  PROVE  RestartSpec => [](TopologyBound /\ DecisionsAgree)
<1>1. RestartInit => RestartBound /\ RecordsRight
  BY InitRestartBound DEF RestartInit, Init, RecordsRight, CreditInv, AgreeInv
<1>2. RestartInv /\ RestartBound /\ RecordsRight /\ [RestartNext]_<<vars, stored>>
        => RestartBound' /\ RecordsRight'
  BY RestartKeepsBound, RestartKeepsRecords
<1>3. RestartBound /\ RecordsRight => TopologyBound /\ DecisionsAgree
  BY AgreeSuffices DEF RestartBound, BoundInv, RecordsRight
<1> QED BY <1>1, <1>2, <1>3, RestartInvariant, PTL DEF RestartSpec

BurstIntact(b) == b = [id |-> b.id, group |-> b.group, active |-> b.active]

RestartIsolation == IsolationInv /\ BurstIntact(stored.step.burst)

LEMMA WrittenBurst == StepShape => Written.step.burst = step.burst
BY DEF StepShape, Written, WrittenStep

LEMMA RestartIsolates ==
  ASSUME AllStrict, RestartInv, RestartIsolation, [RestartNext]_<<vars, stored>>
  PROVE  RestartIsolation'
<1>1. ASSUME [Next]_vars PROVE IsolationInv'
  BY <1>1, NextIsolates DEF RestartInv, RunInv, RestartIsolation
<1>2. BurstIntact(Written.step.burst)
  BY WrittenBurst DEF RestartInv, RunInv, HeldInv, RestartIsolation, IsolationInv, ClassesKnown,
     BurstShape, BurstIntact
<1>3. ASSUME NEW e \in 1 .. MaxEpoch, Restart(e) PROVE RestartIsolation'
  <2>1. step' = stored.step /\ DOMAIN flows' = {} /\ policyGen' = stored.policyGen
    BY <1>3, StepComesBack DEF Restart, RestartInv
  <2>2. policyGen' \in DOMAIN Policies BY <2>1 DEF RestartInv, Sound
  <2>3. \A p \in DOMAIN step'.phases : step'.phases[p].cls \in DOMAIN Policies[policyGen'].classOf
    BY <2>1 DEF RestartInv, Sound, SoundStep
  <2>4. BurstShape' BY <2>1 DEF RestartIsolation, BurstIntact, BurstShape
  <2>5. IsolationInv'
    BY <2>1, <2>2, <2>3, <2>4 DEF IsolationInv, ClassesKnown, IsolationHolds, FlowsOf, Doc
  <2>6. BurstIntact(stored'.step.burst)
    <3>1. stored' = Written' BY <1>3 DEF Restart
    <3>2. RunInv' BY <1>3, RestoredRuns DEF RestartInv
    <3>3. StepShape' BY <3>2 DEF RunInv, HeldInv
    <3>4. Written'.step.burst = step'.burst BY <3>3 DEF StepShape, Written, WrittenStep
    <3> QED BY <2>4, <3>1, <3>4 DEF BurstShape, BurstIntact
  <2> QED BY <2>5, <2>6 DEF RestartIsolation
<1>4. CASE Operate \/ UNCHANGED <<vars, stored>>
  BY <1>1, <1>4 DEF Operate, RestartIsolation
<1>5. CASE Commit
  <2>1. stored' = Written /\ IsolationInv' BY <1>1, <1>5 DEF Commit
  <2> QED BY <1>2, <2>1 DEF RestartIsolation
<1> QED BY <1>3, <1>4, <1>5 DEF RestartNext

(***************************************************************************)
(* A burst that was active when the job was stored is active when it is    *)
(* restored, and isolates its group from what is granted then, in the      *)
(* classes of the policy that came back (read_open_step).                  *)
(***************************************************************************)
THEOREM BurstsIsolateAcrossRestarts ==
  ASSUME AllStrict
  PROVE  RestartSpec => []IsolationHolds
<1>1. RestartInit => RestartIsolation
  <2> SUFFICES ASSUME RestartInit PROVE RestartIsolation
    OBVIOUS
  <2>1. policyGen \in DOMAIN Policies BY FabricAssumption DEF FabricAssumption, RestartInit, Init
  <2>2. /\ DOMAIN flows = {} /\ DOMAIN step.phases = {} /\ step.burst = NoBurst
        /\ stored = Written /\ StepShape
    BY InitHeld DEF RestartInit, Init, NoStep, HeldInv
  <2>3. stored.step.burst = step.burst BY <2>2, WrittenBurst
  <2> QED BY <2>1, <2>2, <2>3
      DEF RestartIsolation, BurstIntact, IsolationInv, ClassesKnown, BurstShape, NoBurst,
          IsolationHolds, FlowsOf
<1>2. RestartInv /\ RestartIsolation /\ [RestartNext]_<<vars, stored>> => RestartIsolation'
  BY RestartIsolates
<1>3. RestartIsolation => IsolationHolds BY DEF RestartIsolation, IsolationInv
<1> QED BY <1>1, <1>2, <1>3, RestartInvariant, PTL DEF RestartSpec

LEMMA RestartCapacity ==
  ASSUME AllStrict, RestartInv, UtilizationMatchesFlows, UtilizationMatchesFlows',
         WithinCapacity, [RestartNext]_<<vars, stored>>
  PROVE  WithinCapacity'
<1>1. ASSUME [Next]_vars PROVE WithinCapacity'
  BY <1>1, NextWithinCapacity DEF RestartInv, RunInv
<1>2. ASSUME NEW e, Restart(e) PROVE WithinCapacity'
  <2>1. DOMAIN flows' = {} BY <1>2 DEF Restart
  <2> QED BY <2>1 DEF WithinCapacity, FlowsOf
<1> QED BY <1>1, <1>2 DEF RestartNext, Operate, Commit

(***************************************************************************)
(* A link is never over-committed across restarts: the utilisation starts  *)
(* from nothing with the flows, and the evidence that is restored is what  *)
(* the next admissions are held to, when every policy is strict and        *)
(* callers name registered groups (deserialize_state, arbitrate_capacity). *)
(***************************************************************************)
THEOREM CapacityHoldsAcrossRestarts ==
  ASSUME AllStrict, RegisteredTrafficOnly
  PROVE  RestartSpec => []WithinCapacity
<1>1. RestartInit => WithinCapacity BY DEF RestartInit, Init, WithinCapacity, FlowsOf
<1>2. /\ RestartInv /\ UtilizationMatchesFlows /\ UtilizationMatchesFlows'
      /\ WithinCapacity /\ [RestartNext]_<<vars, stored>>
      => WithinCapacity'
  BY RestartCapacity
<1> QED BY <1>1, <1>2, RestartInvariant, UtilizationIsExactAcrossRestarts, PTL DEF RestartSpec

LEMMA RestartCeilings ==
  ASSUME AllStrict, RestartInv, CapInv, [RestartNext]_<<vars, stored>>
  PROVE  CapInv'
<1>1. ASSUME [Next]_vars PROVE CapInv'
  BY <1>1, NextCapped DEF RestartInv, RunInv
<1>2. ASSUME NEW e, Restart(e) PROVE CapInv'
  <2>1. DOMAIN flows' = {} BY <1>2 DEF Restart
  <2> QED BY <2>1 DEF CapInv
<1> QED BY <1>1, <1>2 DEF RestartNext, Operate, Commit

(***************************************************************************)
(* No grant exceeds the ceiling that the restored policy gives its class,  *)
(* and UNKNOWN-phase traffic stays best effort under the UNKNOWN ceiling,  *)
(* if that is not zero and policies are strict (request_traffic).          *)
(***************************************************************************)
THEOREM CeilingsHoldAcrossRestarts ==
  ASSUME AllStrict, UnknownCapped
  PROVE  RestartSpec => []GrantsWithinCeilings
<1>1. RestartInit => CapInv BY DEF RestartInit, Init, CapInv
<1>2. RestartInv /\ CapInv /\ [RestartNext]_<<vars, stored>> => CapInv' BY RestartCeilings
<1>3. RestartInv /\ CapInv => GrantsWithinCeilings
  BY CappedFlows DEF RestartInv, RunInv
<1> QED BY <1>1, <1>2, <1>3, RestartInvariant, PTL DEF RestartSpec
===============================================================================
