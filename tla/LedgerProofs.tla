---------------------------- MODULE LedgerProofs -----------------------------
(***************************************************************************)
(* The books of Fabric (utilisation, step accounting, capacity) agree with *)
(* its live flows.  They are kept up to date by saturating subtractions    *)
(* and the invariants compare them with sums over the flows, so the module *)
(* begins with what SumTo computes.                                        *)
(***************************************************************************)
EXTENDS FabricProofs, WellFoundedInduction, FiniteSetTheorems

-----------------------------------------------------------------------------
(* Induction over the naturals, from the least element of a set of them    *)
(* (an instance of WFMin, which no operator parameter stands in the way    *)
(* of), and the sums that SumTo defines.                                   *)

LEMMA LeastElement ==
  ASSUME NEW T, T \subseteq Nat, T # {}
  PROVE  \E n \in T : \A m \in T : n <= m
<1> DEFINE Q(x, y) == <<y, x>> \in OpToRel(<, Nat)
<1>1. IsWellFoundedOn(OpToRel(<, Nat), Nat) BY NatLessThanWellFounded
<1>2. \E x \in T : \A y \in T : ~ Q(x, y) BY <1>1, WFMin
<1>3. \A x \in Nat, y \in Nat : Q(x, y) <=> y < x BY DEF OpToRel
<1> HIDE DEF Q
<1>4. PICK x \in T : \A y \in T : ~ Q(x, y) BY <1>2
<1>5. \A y \in T : x \in Nat /\ y \in Nat OBVIOUS
<1>6. \A y \in T : ~(y < x) BY <1>3, <1>4, <1>5
<1>7. \A y \in T : x <= y BY <1>5, <1>6
<1> QED BY <1>7

LEMMA Induction ==
  ASSUME NEW S, 0 \in S, \A n \in Nat : n \in S => n + 1 \in S
  PROVE  Nat \subseteq S
<1> SUFFICES ASSUME Nat \ S # {} PROVE FALSE
  OBVIOUS
<1>1. PICK n \in Nat \ S : \A m \in Nat \ S : n <= m BY LeastElement
<1>2. n # 0 /\ n - 1 \in Nat /\ n - 1 + 1 = n BY <1>1
<1>3. n - 1 \in S BY <1>1, <1>2
<1> QED BY <1>1, <1>2, <1>3

\* s holds the partial sums of w, up to the n-th.
PartialSums(s, w, n) == s = [k \in 0 .. n |-> IF k = 0 THEN 0 ELSE s[k - 1] + w[k]]

LEMMA PartialSumsExist ==
  ASSUME NEW w, NEW n \in Nat
  PROVE  \E s : PartialSums(s, w, n)
<1> DEFINE S == {m \in Nat : \E s : PartialSums(s, w, m)}
<1>1. 0 \in S
  <2>1. PartialSums([k \in 0 .. 0 |-> 0], w, 0) BY DEF PartialSums
  <2> QED BY <2>1
<1>2. ASSUME NEW m \in Nat, m \in S PROVE m + 1 \in S
  <2>1. PICK s : PartialSums(s, w, m) BY <1>2
  <2> DEFINE t == [k \in 0 .. m + 1 |-> IF k = m + 1 THEN s[m] + w[m + 1] ELSE s[k]]
  <2>2. \A k \in 0 .. m : s[k] = IF k = 0 THEN 0 ELSE s[k - 1] + w[k]
    BY <2>1 DEF PartialSums
  <2>3. \A k \in 0 .. m + 1 : t[k] = IF k = 0 THEN 0 ELSE t[k - 1] + w[k]
    <3> TAKE k \in 0 .. m + 1
    <3>1. CASE k = m + 1 BY <3>1
    <3>2. CASE k \in 0 .. m BY <2>2, <3>2
    <3> QED BY <3>1, <3>2
  <2>4. PartialSums(t, w, m + 1) BY <2>3 DEF PartialSums
  <2> QED BY <2>4
<1> HIDE DEF S
<1>3. Nat \subseteq S BY <1>1, <1>2, Induction
<1> QED BY <1>3 DEF S

LEMMA PartialSumsAgree ==
  ASSUME NEW w, NEW v, NEW m \in Nat, NEW n \in Nat, m <= n,
         \A k \in 1 .. m : w[k] = v[k],
         NEW s, PartialSums(s, w, m), NEW t, PartialSums(t, v, n)
  PROVE  \A k \in 0 .. m : s[k] = t[k]
<1> DEFINE S == {k \in Nat : k <= m => s[k] = t[k]}
<1>0. /\ \A k \in 0 .. m : s[k] = IF k = 0 THEN 0 ELSE s[k - 1] + w[k]
      /\ \A k \in 0 .. n : t[k] = IF k = 0 THEN 0 ELSE t[k - 1] + v[k]
  BY DEF PartialSums
<1>1. 0 \in S BY <1>0
<1>2. ASSUME NEW k \in Nat, k \in S PROVE k + 1 \in S
  <2> SUFFICES ASSUME k + 1 <= m PROVE s[k + 1] = t[k + 1]
    OBVIOUS
  <2>1. s[k] = t[k] BY <1>2
  <2>2. s[k + 1] = s[k] + w[k + 1] /\ t[k + 1] = t[k] + v[k + 1] BY <1>0
  <2> QED BY <2>1, <2>2
<1> HIDE DEF S
<1>3. Nat \subseteq S BY <1>1, <1>2, Induction
<1> QED BY <1>3 DEF S

LEMMA SumToIsPartialSum ==
  ASSUME NEW w, NEW n \in Nat
  PROVE  \E s : PartialSums(s, w, n) /\ SumTo(w, n) = s[n]
<1> DEFINE s == CHOOSE s : PartialSums(s, w, n)
<1>1. PartialSums(s, w, n) BY PartialSumsExist
<1>2. SumTo(w, n) = s[n] BY DEF SumTo, PartialSums
<1> QED BY <1>1, <1>2

\* The recurrence that SumTo solves.
LEMMA SumToZero == ASSUME NEW w PROVE SumTo(w, 0) = 0
<1>1. PICK s : PartialSums(s, w, 0) /\ SumTo(w, 0) = s[0] BY SumToIsPartialSum
<1> QED BY <1>1 DEF PartialSums

LEMMA SumToNext ==
  ASSUME NEW w, NEW n \in Nat
  PROVE  SumTo(w, n + 1) = SumTo(w, n) + w[n + 1]
<1>1. PICK s : PartialSums(s, w, n) /\ SumTo(w, n) = s[n] BY SumToIsPartialSum
<1>2. PICK t : PartialSums(t, w, n + 1) /\ SumTo(w, n + 1) = t[n + 1] BY SumToIsPartialSum
<1>3. PICK v : v = w OBVIOUS
<1>4. PartialSums(t, v, n + 1) /\ n + 1 \in Nat /\ n <= n + 1 BY <1>2, <1>3
<1>5. \A k \in 1 .. n : w[k] = v[k] BY <1>3
<1>6. \A k \in 0 .. n : s[k] = t[k] BY <1>1, <1>4, <1>5, PartialSumsAgree
<1>7. t[n + 1] = t[n] + w[n + 1] BY <1>2 DEF PartialSums
<1> QED BY <1>1, <1>2, <1>6, <1>7

LEMMA SumToAgree ==
  ASSUME NEW n \in Nat, NEW w, NEW v, \A k \in 1 .. n : w[k] = v[k]
  PROVE  SumTo(w, n) = SumTo(v, n)
<1>1. PICK s : PartialSums(s, w, n) /\ SumTo(w, n) = s[n] BY SumToIsPartialSum
<1>2. PICK t : PartialSums(t, v, n) /\ SumTo(v, n) = t[n] BY SumToIsPartialSum
<1>3. \A k \in 0 .. n : s[k] = t[k] BY <1>1, <1>2, PartialSumsAgree
<1> QED BY <1>1, <1>2, <1>3

LEMMA SumToNat ==
  ASSUME NEW n \in Nat, NEW w, \A k \in 1 .. n : w[k] \in Nat
  PROVE  SumTo(w, n) \in Nat
<1> DEFINE S == {m \in Nat : m <= n => SumTo(w, m) \in Nat}
<1>1. 0 \in S BY SumToZero
<1>2. ASSUME NEW m \in Nat, m \in S PROVE m + 1 \in S
  BY <1>2, SumToNext
<1> HIDE DEF S
<1>3. Nat \subseteq S BY <1>1, <1>2, Induction
<1> QED BY <1>3 DEF S

\* Sums of numbers add up entry by entry.
LEMMA SumToPlus ==
  ASSUME NEW n \in Nat, NEW u, NEW v, NEW w,
         \A k \in 1 .. n : v[k] \in Nat /\ w[k] \in Nat /\ u[k] = v[k] + w[k]
  PROVE  SumTo(u, n) = SumTo(v, n) + SumTo(w, n)
<1> DEFINE S == {m \in Nat : m <= n => SumTo(u, m) = SumTo(v, m) + SumTo(w, m)}
<1>1. 0 \in S BY SumToZero
<1>2. ASSUME NEW m \in Nat, m \in S PROVE m + 1 \in S
  <2> SUFFICES ASSUME m + 1 <= n PROVE SumTo(u, m + 1) = SumTo(v, m + 1) + SumTo(w, m + 1)
    OBVIOUS
  <2>1. SumTo(u, m) = SumTo(v, m) + SumTo(w, m) BY <1>2
  <2>2. SumTo(v, m) \in Nat /\ SumTo(w, m) \in Nat BY SumToNat
  <2>3. v[m + 1] \in Nat /\ w[m + 1] \in Nat /\ u[m + 1] = v[m + 1] + w[m + 1] OBVIOUS
  <2>4. /\ SumTo(u, m + 1) = SumTo(u, m) + u[m + 1]
        /\ SumTo(v, m + 1) = SumTo(v, m) + v[m + 1]
        /\ SumTo(w, m + 1) = SumTo(w, m) + w[m + 1]
    BY SumToNext
  <2> QED BY <2>1, <2>2, <2>3, <2>4
<1> HIDE DEF S
<1>3. Nat \subseteq S BY <1>1, <1>2, Induction
<1> QED BY <1>3 DEF S

-----------------------------------------------------------------------------
(* Sums over sets of intents.                                              *)

\* The entries of f of the ids in S, among 1 .. n.
Part(n, S, f) == [i \in 1 .. n |-> IF i \in S THEN f[i] ELSE 0]
Total(n, S, f) == SumTo(Part(n, S, f), n)

LEMMA TotalNat ==
  ASSUME NEW n \in Nat, NEW S, NEW f, \A i \in S \cap (1 .. n) : f[i] \in Nat
  PROVE  Total(n, S, f) \in Nat
<1>1. \A i \in 1 .. n : Part(n, S, f)[i] \in Nat BY DEF Part
<1> QED BY <1>1, SumToNat DEF Total

LEMMA TotalSplit ==
  ASSUME NEW n \in Nat, NEW S, NEW T, NEW U, NEW f, \A i \in S \cap (1 .. n) : f[i] \in Nat,
         S = T \cup U, T \cap U = {}
  PROVE  Total(n, S, f) = Total(n, T, f) + Total(n, U, f)
<1>1. PICK s, t, u : s = Part(n, S, f) /\ t = Part(n, T, f) /\ u = Part(n, U, f)
  OBVIOUS
<1>2. \A i \in 1 .. n : t[i] \in Nat /\ u[i] \in Nat /\ s[i] = t[i] + u[i]
  BY <1>1 DEF Part
<1>3. SumTo(s, n) = SumTo(t, n) + SumTo(u, n) BY <1>2, SumToPlus
<1> QED BY <1>1, <1>3 DEF Total

LEMMA TotalEmpty == ASSUME NEW n \in Nat, NEW f PROVE Total(n, {}, f) = 0
<1>1. Total(n, {}, f) \in Nat BY TotalNat
<1>2. PICK s, t : s = Part(n, {}, f) /\ t = Part(n, {}, f) OBVIOUS
<1>3. \A i \in 1 .. n : s[i] \in Nat /\ t[i] \in Nat /\ s[i] = s[i] + t[i]
  BY <1>2 DEF Part
<1>4. SumTo(s, n) = SumTo(s, n) + SumTo(t, n) BY <1>3, SumToPlus
<1>5. PICK x \in Nat : x = Total(n, {}, f) BY <1>1
<1>6. x = x + x BY <1>2, <1>4, <1>5 DEF Total
<1>7. x = 0 BY <1>6
<1> QED BY <1>5, <1>7

LEMMA TotalSubset ==
  ASSUME NEW n \in Nat, NEW S, NEW T, T \subseteq S, NEW f,
         \A i \in S \cap (1 .. n) : f[i] \in Nat
  PROVE  /\ Total(n, S, f) = Total(n, T, f) + Total(n, S \ T, f)
         /\ {Total(n, S, f), Total(n, T, f), Total(n, S \ T, f)} \subseteq Nat
         /\ Total(n, T, f) <= Total(n, S, f)
<1>1. PICK U : U = S \ T OBVIOUS
<1>2. S = T \cup U /\ T \cap U = {} BY <1>1
<1>3. Total(n, S, f) = Total(n, T, f) + Total(n, U, f) BY <1>2, TotalSplit
<1>4. Total(n, S, f) \in Nat /\ Total(n, T, f) \in Nat /\ Total(n, U, f) \in Nat
  BY <1>1, TotalNat
<1> QED BY <1>1, <1>3, <1>4

LEMMA TotalSame ==
  ASSUME NEW n \in Nat, NEW S, NEW f, NEW h, \A i \in S \cap (1 .. n) : f[i] = h[i]
  PROVE  Total(n, S, f) = Total(n, S, h)
<1>1. \A i \in 1 .. n : Part(n, S, f)[i] = Part(n, S, h)[i] BY DEF Part
<1> QED BY <1>1, SumToAgree DEF Total

\* One more id, in the set or not.
LEMMA TotalNext ==
  ASSUME NEW n \in Nat, NEW S, NEW f
  PROVE  Total(n + 1, S, f) = Total(n, S, f) + (IF n + 1 \in S THEN f[n + 1] ELSE 0)
<1>1. PICK s, t : s = Part(n, S, f) /\ t = Part(n + 1, S, f) OBVIOUS
<1>2. \A i \in 1 .. n : s[i] = t[i] BY <1>1 DEF Part
<1>3. SumTo(s, n) = SumTo(t, n) BY <1>2, SumToAgree
<1>4. t[n + 1] = IF n + 1 \in S THEN f[n + 1] ELSE 0 BY <1>1 DEF Part
<1>5. SumTo(t, n + 1) = SumTo(t, n) + t[n + 1] BY SumToNext
<1> QED BY <1>1, <1>3, <1>4, <1>5 DEF Total

LEMMA TotalPlus ==
  ASSUME NEW n \in Nat, NEW S, NEW f, NEW h, NEW d,
         \A i \in S \cap (1 .. n) : h[i] \in Nat /\ d[i] \in Nat /\ f[i] = h[i] + d[i]
  PROVE  Total(n, S, f) = Total(n, S, h) + Total(n, S, d)
<1>1. PICK s, t, u : s = Part(n, S, f) /\ t = Part(n, S, h) /\ u = Part(n, S, d)
  OBVIOUS
<1>2. \A i \in 1 .. n : t[i] \in Nat /\ u[i] \in Nat /\ s[i] = t[i] + u[i]
  BY <1>1 DEF Part
<1>3. SumTo(s, n) = SumTo(t, n) + SumTo(u, n) BY <1>2, SumToPlus
<1> QED BY <1>1, <1>3 DEF Total

-----------------------------------------------------------------------------
(* What a step does to the books: one case per way of moving them.         *)

BooksKept ==
  /\ UNCHANGED <<flows, utilized, history>>
  /\ nextIntent' = nextIntent \/ nextIntent' = nextIntent + 1
  /\ step'.acct = step.acct \/ (DOMAIN flows = {} /\ step'.acct = NoAccounting)

GroupOpened(g) ==
  /\ g \in Groups /\ g \notin groups /\ utilized' = [utilized EXCEPT ![g] = 0]
  /\ UNCHANGED <<flows, step, history, nextIntent>>

FlowsCancelled(S) ==
  /\ S \subseteq DOMAIN flows
  /\ flows' = FlowsWithout(S) /\ utilized' = UtilizedWithout(S)
  /\ step'.acct = CancelledAccounting(S)
  /\ UNCHANGED <<history, nextIntent>>

StepClosed == CloseStep /\ nextIntent' = nextIntent

FlowGranted(t, p, it) ==
  /\ Admitted(t, p, it) /\ nextIntent' = nextIntent + 1 /\ history' = history
  /\ RegisteredTrafficOnly => it.group \in groups

BooksMove ==
  \/ BooksKept
  \/ \E g \in Groups : GroupOpened(g)
  \/ \E S \in SUBSET DOMAIN flows : FlowsCancelled(S)
  \/ StepClosed
  \/ \E t \in Tokens, i \in Ids, bytes \in Reports, cancelled \in BOOLEAN :
       CompleteFlow(t, i, bytes, cancelled)
  \/ \E t \in Tokens, p \in 1 .. nextPhase, it \in Intents : FlowGranted(t, p, it)
  \/ \E t \in Tokens, g \in Groups : BeginCheckpointBurst(t, g)

LEMMA Moves ==
  /\ BooksKept => BooksMove
  /\ StepClosed => BooksMove
  /\ \A g \in Groups : GroupOpened(g) => BooksMove
  /\ \A S \in SUBSET DOMAIN flows : FlowsCancelled(S) => BooksMove
BY DEF BooksMove

LEMMA InvalidateMoves ==
  ASSUME HeldInv, NEW doc, Invalidate(Invalidated(doc)), UNCHANGED <<history, nextIntent>>
  PROVE  BooksMove
<1>1. PICK S : S = Invalidated(doc) OBVIOUS
<1>2. S \in SUBSET DOMAIN flows BY <1>1 DEF Invalidated
<1>3. step' = [step EXCEPT !.acct = CancelledAccounting(S)] BY <1>1 DEF Invalidate
<1>4. step'.acct = CancelledAccounting(S) BY <1>3 DEF HeldInv, StepShape
<1>5. FlowsCancelled(S) BY <1>1, <1>2, <1>4 DEF FlowsCancelled, Invalidate
<1> QED BY <1>2, <1>5, Moves

LEMMA FenceMoves ==
  ASSUME FenceOpenStep, nextIntent' = nextIntent
  PROVE  BooksMove
<1>1. BooksKept \/ StepClosed BY DEF FenceOpenStep, BooksKept, StepClosed
<1> QED BY <1>1, Moves

LEMMA RegistrationMoves ==
  ASSUME HeldInv, Registration
  PROVE  BooksMove
<1>1. ASSUME NEW k, ApplyPolicy(k) PROVE BooksMove
  BY <1>1, InvalidateMoves DEF ApplyPolicy, idVars
<1>2. ASSUME NEW e, RebaseEpoch(e) PROVE BooksMove
  <2>1. BooksKept BY <1>2 DEF RebaseEpoch, ledgerVars, idVars, recordVars, BooksKept
  <2> QED BY <2>1, Moves
<1>3. ASSUME NEW t, NEW g \in Groups, RegisterGroup(t, g) PROVE BooksMove
  <2>1. GroupOpened(g) BY <1>3 DEF RegisterGroup, idVars, recordVars, GroupOpened
  <2> QED BY <2>1, Moves
<1>4. ASSUME NEW t, NEW cap, PublishTopology(t, cap) PROVE BooksMove
  BY <1>4, InvalidateMoves DEF PublishTopology, idVars
<1>5. ASSUME NEW t, RetireJob(t) PROVE BooksMove
  BY <1>5, FenceMoves DEF RetireJob
<1> QED BY <1>1, <1>2, <1>3, <1>4, <1>5 DEF Registration

LEMMA LifecycleMoves ==
  ASSUME HeldInv, Lifecycle
  PROVE  BooksMove
<1>1. ASSUME NEW t, NEW s, BeginStep(t, s) PROVE BooksMove
  <2>1. DOMAIN flows = {} /\ step'.acct = NoAccounting
    BY <1>1 DEF BeginStep, NoStep, HeldInv, OpenStepIsHeld
  <2>2. BooksKept BY <1>1, <2>1 DEF BeginStep, recordVars, BooksKept
  <2> QED BY <2>2, Moves
<1>2. ASSUME NEW t, NEW cls, NEW g, BeginPhase(t, cls, g) PROVE BooksMove
  <2>1. PICK ph : step' = [step EXCEPT !.phases = ph] BY <1>2 DEF BeginPhase
  <2>2. step'.acct = step.acct BY <2>1 DEF HeldInv, StepShape
  <2>3. BooksKept BY <1>2, <2>2 DEF BeginPhase, recordVars, BooksKept
  <2> QED BY <2>3, Moves
<1>3. ASSUME NEW t, NEW p, EndPhase(t, p) PROVE BooksMove
  <2>1. PICK S : S = {i \in DOMAIN flows : flows[i].phase = p} OBVIOUS
  <2>2. step' = [step EXCEPT !.acct = CancelledAccounting(S), !.phases[p].open = FALSE]
    BY <1>3, <2>1 DEF EndPhase
  <2>3. step'.acct = CancelledAccounting(S)
    <3>1. step' = [id |-> step.id, incarnation |-> step.incarnation, seen |-> step.seen,
                   phases |-> [step.phases EXCEPT ![p].open = FALSE],
                   burst |-> step.burst, acct |-> CancelledAccounting(S)]
      BY <2>2 DEF HeldInv, StepShape
    <3> QED BY <3>1
  <2>4. FlowsCancelled(S) BY <1>3, <2>1, <2>3 DEF EndPhase, FlowsCancelled, idVars
  <2>5. S \in SUBSET DOMAIN flows BY <2>1
  <2> QED BY <2>4, <2>5, Moves
<1>4. ASSUME NEW t, EndStep(t) PROVE BooksMove
  <2>1. StepClosed BY <1>4 DEF EndStep, StepClosed
  <2> QED BY <2>1, Moves
<1> QED BY <1>1, <1>2, <1>3, <1>4 DEF Lifecycle

LEMMA TrafficMoves ==
  ASSUME HeldInv, Traffic
  PROVE  BooksMove
<1>1. ASSUME NEW t \in Tokens, NEW p \in 1 .. nextPhase, NEW it \in Intents,
             RequestTraffic(t, p, it)
      PROVE  BooksMove
  <2>1. ASSUME NEW d, Refuse(d) PROVE BooksMove
    <3>1. step'.acct = step.acct BY <2>1 DEF Refuse, HeldInv, StepShape
    <3>2. BooksKept BY <1>1, <2>1, <3>1 DEF RequestTraffic, Refuse, BooksKept
    <3> QED BY <3>2, Moves
  <2>2. CASE Unresolved(t, p)
    <3>1. BooksKept BY <1>1, <2>2 DEF RequestTraffic, Unresolved, BooksKept
    <3> QED BY <3>1, Moves
  <2>3. CASE Rejected(t, p, it) BY <2>1, <2>3 DEF Rejected
  <2>4. CASE Held(t, p, it) BY <2>1, <2>4 DEF Held
  <2>5. CASE Admitted(t, p, it)
    <3>1. FlowGranted(t, p, it) BY <1>1, <2>5 DEF RequestTraffic, FlowGranted
    <3> QED BY <3>1 DEF BooksMove
  <2> QED BY <1>1, <2>2, <2>3, <2>4, <2>5 DEF RequestTraffic
<1>2. ASSUME NEW t \in Tokens, NEW i \in Ids, NEW bytes \in Reports,
             NEW cancelled \in BOOLEAN, CompleteFlow(t, i, bytes, cancelled)
      PROVE  BooksMove
  BY <1>2 DEF BooksMove
<1>3. ASSUME NEW t, NEW i, RevalidateFlow(t, i) PROVE BooksMove
  <2>1. BooksKept BY <1>3 DEF RevalidateFlow, ledgerVars, idVars, BooksKept
  <2> QED BY <2>1, Moves
<1>4. ASSUME NEW t \in Tokens, NEW g \in Groups, BeginCheckpointBurst(t, g) PROVE BooksMove
  BY <1>4 DEF BooksMove
<1>5. ASSUME NEW t, NEW b, EndCheckpointBurst(t, b) PROVE BooksMove
  <2>1. step'.acct = step.acct BY <1>5 DEF EndCheckpointBurst, HeldInv, StepShape
  <2>2. BooksKept BY <1>5, <2>1 DEF EndCheckpointBurst, idVars, recordVars, BooksKept
  <2> QED BY <2>2, Moves
<1> QED BY <1>1, <1>2, <1>3, <1>4, <1>5 DEF Traffic

LEMMA NextMoves == ASSUME HeldInv, [Next]_vars PROVE BooksMove
<1>1. CASE UNCHANGED vars
  <2>1. BooksKept BY <1>1 DEF vars, ledgerVars, idVars, recordVars, BooksKept
  <2> QED BY <2>1, Moves
<1>2. ASSUME Recovery PROVE BooksMove
  <2>1. FenceOpenStep /\ nextIntent' = nextIntent
    BY <1>2 DEF Recovery, AdmitReplacement, RetireIncarnation
  <2> QED BY <2>1, FenceMoves
<1> QED BY <1>1, <1>2, RegistrationMoves, LifecycleMoves, TrafficMoves DEF Next

-----------------------------------------------------------------------------
(* Rates, bytes and priorities stay numbers.                               *)

LEMMA PolicyFacts ==
  ASSUME NEW k \in DOMAIN Policies
  PROVE  /\ \A p \in DOMAIN Policies[k].classOf : Policies[k].classOf[p] \in DOMAIN Policies[k].spec
         /\ \A l \in DOMAIN Policies : DOMAIN Policies[l].classOf = DOMAIN Policies[k].classOf
         /\ \A c \in DOMAIN Policies[k].spec :
              /\ Policies[k].spec[c].floor \in Nat /\ Policies[k].spec[c].ceiling \in Nat
              /\ Policies[k].spec[c].isolationCeiling \in Nat
              /\ Policies[k].spec[c].priority \in 0 .. 200
         /\ Policies[k].isoPriority \in 0 .. 255 /\ Policies[k].unknownCeiling \in Nat
         /\ Policies[k].classOf[UnknownPhase] = BestEffort
<1>1. ValidPolicy(Policies[k])
  BY ONLY FabricAssumption, k \in DOMAIN Policies DEF FabricAssumption
<1>2. /\ \A l \in DOMAIN Policies : DOMAIN Policies[l].classOf = DOMAIN Policies[k].classOf
      /\ Policies[k].isoPriority \in 0 .. 255 /\ Policies[k].unknownCeiling \in Nat
  BY ONLY FabricAssumption, k \in DOMAIN Policies DEF FabricAssumption
<1>3. ASSUME NEW c \in DOMAIN Policies[k].spec
      PROVE  /\ Policies[k].spec[c].floor \in Nat /\ Policies[k].spec[c].ceiling \in Nat
             /\ Policies[k].spec[c].isolationCeiling \in Nat
  <2>1. {Policies[k].spec[c].floor, Policies[k].spec[c].ceiling,
         Policies[k].spec[c].isolationCeiling} \subseteq Nat
    BY ONLY FabricAssumption, k \in DOMAIN Policies, c \in DOMAIN Policies[k].spec
       DEF FabricAssumption
  <2> QED BY ONLY <2>1
<1>4. /\ \A p \in DOMAIN Policies[k].classOf : Policies[k].classOf[p] \in DOMAIN Policies[k].spec
      /\ \A c \in DOMAIN Policies[k].spec : Policies[k].spec[c].priority \in 0 .. 200
      /\ Policies[k].classOf[UnknownPhase] = BestEffort
  BY ONLY <1>1 DEF ValidPolicy
<1>5. \A c \in DOMAIN Policies[k].spec :
        /\ Policies[k].spec[c].floor \in Nat /\ Policies[k].spec[c].ceiling \in Nat
        /\ Policies[k].spec[c].isolationCeiling \in Nat
        /\ Policies[k].spec[c].priority \in 0 .. 200
  BY ONLY <1>3, <1>4
<1> QED BY ONLY <1>2, <1>4, <1>5

LEMMA SpecFacts ==
  ASSUME NEW k \in DOMAIN Policies, NEW c \in DOMAIN Policies[k].spec
  PROVE  /\ Policies[k].spec[c].floor \in Nat /\ Policies[k].spec[c].ceiling \in Nat
         /\ Policies[k].spec[c].isolationCeiling \in Nat
         /\ Policies[k].spec[c].priority \in 0 .. 200
BY PolicyFacts

FlowNumbers(f) ==
  /\ f.group \in Groups /\ f.min \in Nat /\ f.max \in Nat /\ f.min <= f.max
  /\ f.bytes \in Nat /\ f.prio \in 0 .. 255

NumberInv ==
  /\ nextIntent \in Nat \ {0} /\ DOMAIN flows \subseteq 1 .. nextIntent - 1
  /\ policyGen \in DOMAIN Policies
  /\ \A g \in DOMAIN topology.cap : topology.cap[g] \in Nat
  /\ \A p \in DOMAIN step.phases : step.phases[p].cls \in DOMAIN Doc.classOf
  /\ \A i \in DOMAIN flows : FlowNumbers(flows[i])
  /\ utilized \in [Groups -> Nat]

\* The phases and the evidence that the flows are judged by.
ConfigMoves ==
  /\ policyGen' \in DOMAIN Policies
  /\ topology' = topology \/ topology'.cap \in Evidence
  /\ \A p \in DOMAIN step'.phases :
       /\ step'.phases[p].cls \in DOMAIN Doc.classOf
       /\ \/ step'.phases[p].group \in groups
          \/ p \in DOMAIN step.phases /\ step'.phases[p].group = step.phases[p].group
  /\ \/ step'.phases = <<>>
     \/ \A p \in DOMAIN step.phases :
          p \in DOMAIN step'.phases /\ step'.phases[p].cls = step.phases[p].cls

\* The phases and the burst outlive a change of the books alone.
LEMMA BookKept ==
  ASSUME HeldInv, NEW a, NEW n,
         step' = [step EXCEPT !.acct = a] \/ step' = [step EXCEPT !.seen = n]
           \/ step' = [step EXCEPT !.seen = n, !.acct = a]
  PROVE  step'.burst = step.burst /\ step'.phases = step.phases
BY DEF HeldInv, StepShape

LEMMA SamePhases ==
  ASSUME NumberInv, policyGen' \in DOMAIN Policies,
         topology' = topology \/ topology'.cap \in Evidence,
         step'.phases = step.phases \/ step'.phases = <<>>
  PROVE  ConfigMoves
BY DEF NumberInv, ConfigMoves

LEMMA FenceConfig ==
  ASSUME NumberInv, FenceOpenStep, UNCHANGED configVars
  PROVE  ConfigMoves
<1>1. step'.phases = step.phases \/ step'.phases = <<>>
  BY DEF FenceOpenStep, CloseStep, NoStep
<1> QED BY <1>1, SamePhases DEF NumberInv, configVars

LEMMA RegistrationConfig ==
  ASSUME HeldInv, NumberInv, Registration
  PROVE  ConfigMoves
<1>1. ASSUME NEW k \in DOMAIN Policies, ApplyPolicy(k) PROVE ConfigMoves
  <2>1. PICK a : step' = [step EXCEPT !.acct = a] BY <1>1 DEF ApplyPolicy, Invalidate
  <2>2. step'.phases = step.phases BY <2>1, BookKept
  <2> QED BY <1>1, <2>2, SamePhases DEF ApplyPolicy
<1>2. ASSUME NEW e, RebaseEpoch(e) PROVE ConfigMoves
  BY <1>2, SamePhases DEF RebaseEpoch, configVars, ledgerVars, NumberInv
<1>3. ASSUME NEW t, NEW g, RegisterGroup(t, g) PROVE ConfigMoves
  BY <1>3, SamePhases DEF RegisterGroup, NumberInv
<1>4. ASSUME NEW t, NEW cap \in Evidence, PublishTopology(t, cap) PROVE ConfigMoves
  <2>1. PICK a : step' = [step EXCEPT !.acct = a] BY <1>4 DEF PublishTopology, Invalidate
  <2>2. step'.phases = step.phases BY <2>1, BookKept
  <2>3. topology'.cap \in Evidence /\ policyGen' = policyGen BY <1>4 DEF PublishTopology
  <2> QED BY <2>2, <2>3, SamePhases DEF NumberInv
<1>5. ASSUME NEW t, RetireJob(t) PROVE ConfigMoves
  BY <1>5, FenceConfig DEF RetireJob
<1> QED BY <1>1, <1>2, <1>3, <1>4, <1>5 DEF Registration

LEMMA LifecycleConfig ==
  ASSUME HeldInv, MatchInv, NumberInv, Lifecycle
  PROVE  ConfigMoves
<1>0. UNCHANGED configVars BY DEF Lifecycle, BeginStep, BeginPhase, EndPhase, EndStep
<1>1. ASSUME NEW t, NEW s, BeginStep(t, s) PROVE ConfigMoves
  <2>1. step'.phases = <<>> BY <1>1 DEF BeginStep, NoStep
  <2> QED BY <1>0, <2>1, SamePhases DEF configVars, NumberInv
<1>2. ASSUME NEW t, NEW cls \in DOMAIN Doc.classOf, NEW g, BeginPhase(t, cls, g)
      PROVE  ConfigMoves
  <2>1. PICK ph : ph = [cls |-> cls, group |-> g, open |-> TRUE] OBVIOUS
  <2>2. step' = [step EXCEPT !.phases = Put(@, nextPhase, ph)]
    BY <1>2, <2>1 DEF BeginPhase
  <2>3. step'.phases = Put(step.phases, nextPhase, ph)
    BY <2>2 DEF HeldInv, StepShape
  <2>4. \A p \in DOMAIN step'.phases :
          \/ p \in DOMAIN step.phases /\ step'.phases[p] = step.phases[p]
          \/ step'.phases[p] = ph
    BY <2>3 DEF Put
  <2>5. ph.cls = cls /\ ph.group \in groups BY <1>2, <2>1 DEF BeginPhase
  <2>6. \A p \in DOMAIN step.phases : p \in DOMAIN step'.phases /\ step'.phases[p] = step.phases[p]
    BY <2>3 DEF Put, MatchInv
  <2> QED BY <1>0, <2>4, <2>5, <2>6 DEF configVars, NumberInv, ConfigMoves
<1>3. ASSUME NEW t, NEW p, EndPhase(t, p) PROVE ConfigMoves
  <2>1. PICK a : /\ step' = [step EXCEPT !.acct = a, !.phases[p].open = FALSE]
                 /\ p \in DOMAIN step.phases
    BY <1>3 DEF EndPhase
  <2>2. step'.phases = [step.phases EXCEPT ![p].open = FALSE]
    <3>1. step' = [id |-> step.id, incarnation |-> step.incarnation, seen |-> step.seen,
                   phases |-> [step.phases EXCEPT ![p].open = FALSE],
                   burst |-> step.burst, acct |-> a]
      BY <2>1 DEF HeldInv, StepShape
    <3> QED BY <3>1
  <2>3. \A q \in DOMAIN step'.phases :
          /\ q \in DOMAIN step.phases
          /\ step'.phases[q].cls = step.phases[q].cls
          /\ step'.phases[q].group = step.phases[q].group
    <3>1. DOMAIN step'.phases = DOMAIN step.phases BY <2>2
    <3>2. \A q \in DOMAIN step.phases : q # p => step'.phases[q] = step.phases[q] BY <2>2
    <3>3. step'.phases[p] = [step.phases[p] EXCEPT !.open = FALSE] BY <2>1, <2>2
    <3>4. /\ step'.phases[p].cls = step.phases[p].cls
          /\ step'.phases[p].group = step.phases[p].group
      BY <2>1, <3>3 DEF HeldInv, StepShape
    <3> QED BY <3>1, <3>2, <3>4
  <2>4. DOMAIN step'.phases = DOMAIN step.phases BY <2>2
  <2> QED BY <1>0, <2>3, <2>4 DEF configVars, NumberInv, ConfigMoves
<1>4. ASSUME NEW t, EndStep(t) PROVE ConfigMoves
  <2>1. step'.phases = <<>> BY <1>4 DEF EndStep, CloseStep, NoStep
  <2> QED BY <1>0, <2>1, SamePhases DEF configVars, NumberInv
<1> QED BY <1>1, <1>2, <1>3, <1>4 DEF Lifecycle

LEMMA TrafficConfig ==
  ASSUME HeldInv, NumberInv, Traffic
  PROVE  ConfigMoves
<1>0. UNCHANGED configVars
  BY TrafficKeeps DEF TrafficKept, configVars
<1>1. step'.phases = step.phases
  <2>1. ASSUME NEW t, NEW p, NEW it, RequestTraffic(t, p, it) PROVE step'.phases = step.phases
    <3>1. ASSUME NEW d, Refuse(d) PROVE step'.phases = step.phases
      BY <3>1, BookKept DEF Refuse
    <3>2. ASSUME Admitted(t, p, it) PROVE step'.phases = step.phases
      <4>1. PICK n, a : step' = [step EXCEPT !.seen = n, !.acct = a] BY <3>2 DEF Admitted
      <4> QED BY <4>1, BookKept
    <3> QED BY <2>1, <3>1, <3>2 DEF RequestTraffic, Unresolved, Rejected, Held
  <2>2. ASSUME NEW t, NEW i, NEW bytes, NEW c, CompleteFlow(t, i, bytes, c)
        PROVE  step'.phases = step.phases
    <3>1. PICK a : step' = [step EXCEPT !.acct = a] BY <2>2 DEF CompleteFlow
    <3> QED BY <3>1, BookKept
  <2>3. ASSUME NEW t, NEW i, RevalidateFlow(t, i) PROVE step'.phases = step.phases
    BY <2>3 DEF RevalidateFlow, ledgerVars
  <2>4. ASSUME NEW t, NEW g, BeginCheckpointBurst(t, g) PROVE step'.phases = step.phases
    <3>1. PICK a, b : step' = [step EXCEPT !.burst = b, !.acct = a]
      BY <2>4 DEF BeginCheckpointBurst
    <3> QED BY <3>1 DEF HeldInv, StepShape
  <2>5. ASSUME NEW t, NEW b, EndCheckpointBurst(t, b) PROVE step'.phases = step.phases
    BY <2>5 DEF EndCheckpointBurst, HeldInv, StepShape
  <2> QED BY <2>1, <2>2, <2>3, <2>4, <2>5 DEF Traffic
<1> QED BY <1>0, <1>1, SamePhases DEF configVars, NumberInv

LEMMA NextConfig == ASSUME HeldInv, MatchInv, NumberInv, [Next]_vars PROVE ConfigMoves
<1>1. CASE UNCHANGED vars
  BY <1>1, SamePhases DEF vars, configVars, ledgerVars, NumberInv
<1>2. ASSUME Recovery PROVE ConfigMoves
  <2>1. FenceOpenStep /\ UNCHANGED configVars
    BY <1>2 DEF Recovery, AdmitReplacement, RetireIncarnation
  <2> QED BY <2>1, FenceConfig
<1> QED BY <1>1, <1>2, RegistrationConfig, LifecycleConfig, TrafficConfig DEF Next

-----------------------------------------------------------------------------
(* The sums over live flows.                                               *)

Mins(fl, n) == [i \in 1 .. n |-> fl[i].min]
Sizes(fl, n) == [i \in 1 .. n |-> fl[i].bytes]

LEMMA FieldTotals ==
  ASSUME NEW fl, NEW n, NEW S
  PROVE  /\ SumTo([i \in 1 .. n |-> IF i \in S THEN fl[i].min ELSE 0], n)
              = Total(n, S, Mins(fl, n))
         /\ SumTo([i \in 1 .. n |-> IF i \in S THEN fl[i].bytes ELSE 0], n)
              = Total(n, S, Sizes(fl, n))
<1>1. [i \in 1 .. n |-> IF i \in S THEN fl[i].min ELSE 0] = Part(n, S, Mins(fl, n))
  BY DEF Part, Mins
<1>2. [i \in 1 .. n |-> IF i \in S THEN fl[i].bytes ELSE 0] = Part(n, S, Sizes(fl, n))
  BY DEF Part, Sizes
<1> QED BY <1>1, <1>2 DEF Total

LEMMA SumsAreTotals ==
  ASSUME NEW S
  PROVE  /\ MinSum(S) = Total(nextIntent - 1, S, Mins(flows, nextIntent - 1))
         /\ BytesSum(S) = Total(nextIntent - 1, S, Sizes(flows, nextIntent - 1))
BY FieldTotals DEF MinSum, BytesSum, Ids

LEMMA SumsAreTotalsNext ==
  ASSUME NEW CONSTANT S
  PROVE  /\ MinSum(S)' = Total(nextIntent' - 1, S, Mins(flows', nextIntent' - 1))
         /\ BytesSum(S)' = Total(nextIntent' - 1, S, Sizes(flows', nextIntent' - 1))
BY FieldTotals DEF MinSum, BytesSum, Ids

LEMMA SumSubset ==
  ASSUME NumberInv, NEW S, S \subseteq DOMAIN flows, NEW T, T \subseteq S
  PROVE  /\ MinSum(S) \in Nat /\ MinSum(T) \in Nat /\ MinSum(S \ T) \in Nat
         /\ MinSum(S) = MinSum(T) + MinSum(S \ T)
         /\ BytesSum(S) \in Nat /\ BytesSum(T) \in Nat /\ BytesSum(S \ T) \in Nat
         /\ BytesSum(S) = BytesSum(T) + BytesSum(S \ T)
<1>1. PICK n \in Nat : n = nextIntent - 1 BY DEF NumberInv
<1>2. PICK f, h : f = Mins(flows, n) /\ h = Sizes(flows, n) OBVIOUS
<1>3. \A i \in S \cap (1 .. n) : f[i] \in Nat /\ h[i] \in Nat
  BY <1>2 DEF Mins, Sizes, NumberInv, FlowNumbers
<1>4. /\ Total(n, S, f) = Total(n, T, f) + Total(n, S \ T, f)
      /\ {Total(n, S, f), Total(n, T, f), Total(n, S \ T, f)} \subseteq Nat
  BY <1>3, TotalSubset
<1>5. /\ Total(n, S, h) = Total(n, T, h) + Total(n, S \ T, h)
      /\ {Total(n, S, h), Total(n, T, h), Total(n, S \ T, h)} \subseteq Nat
  BY <1>3, TotalSubset
<1>6. \A U : MinSum(U) = Total(n, U, f) /\ BytesSum(U) = Total(n, U, h)
  BY <1>1, <1>2, SumsAreTotals
<1> QED BY <1>4, <1>5, <1>6

LEMMA SumEmpty == ASSUME NumberInv PROVE MinSum({}) = 0 /\ BytesSum({}) = 0
<1>1. nextIntent - 1 \in Nat BY DEF NumberInv
<1> QED BY <1>1, SumsAreTotals, TotalEmpty

\* Flows that a step leaves as they are weigh as much after it, whether or not
\* an id was issued meanwhile.
LEMMA SumSame ==
  ASSUME NumberInv, nextIntent' = nextIntent \/ nextIntent' = nextIntent + 1,
         NEW CONSTANT S, S \subseteq DOMAIN flows, \A i \in S : flows'[i] = flows[i]
  PROVE  MinSum(S)' = MinSum(S) /\ BytesSum(S)' = BytesSum(S)
<1>1. PICK n \in Nat : n = nextIntent - 1 BY DEF NumberInv
<1>2. PICK m : m = nextIntent' - 1 OBVIOUS
<1>3. m \in Nat /\ (m = n \/ m = n + 1)
  <2>1. nextIntent \in Nat \ {0} BY DEF NumberInv
  <2>2. CASE nextIntent' = nextIntent BY <1>1, <1>2, <2>1, <2>2
  <2>3. CASE nextIntent' = nextIntent + 1 BY <1>1, <1>2, <2>1, <2>3
  <2> QED BY <2>2, <2>3
<1>4. PICK f, h, f1, h1 : /\ f = Mins(flows, n) /\ h = Sizes(flows, n)
                         /\ f1 = Mins(flows', m) /\ h1 = Sizes(flows', m)
  OBVIOUS
<1>5. \A i \in S : i \in 1 .. n BY <1>1 DEF NumberInv
<1>6. \A i \in S \cap (1 .. n) : f1[i] = f[i] /\ h1[i] = h[i]
  BY <1>3, <1>4 DEF Mins, Sizes
<1>7. Total(n, S, f1) = Total(n, S, f) /\ Total(n, S, h1) = Total(n, S, h)
  BY <1>6, TotalSame
<1>8. Total(m, S, f1) = Total(n, S, f1) /\ Total(m, S, h1) = Total(n, S, h1)
  <2>1. CASE m = n BY <2>1
  <2>2. CASE m = n + 1
    <3>1. n + 1 \notin S BY <1>5
    <3>2. Total(n, S, f1) \in Nat /\ Total(n, S, h1) \in Nat
      <4>1. \A i \in S \cap (1 .. n) : f1[i] \in Nat /\ h1[i] \in Nat
        <5>1. \A i \in S \cap (1 .. n) : f[i] \in Nat /\ h[i] \in Nat
          BY <1>4 DEF Mins, Sizes, NumberInv, FlowNumbers
        <5> QED BY <1>6, <5>1
      <4> QED BY <4>1, TotalNat
    <3>3. /\ Total(n + 1, S, f1) = Total(n, S, f1) + 0
          /\ Total(n + 1, S, h1) = Total(n, S, h1) + 0
      BY <3>1, TotalNext
    <3> QED BY <2>2, <3>2, <3>3
  <2> QED BY <1>3, <2>1, <2>2
<1>9. MinSum(S) = Total(n, S, f) /\ BytesSum(S) = Total(n, S, h)
  BY <1>1, <1>4, SumsAreTotals
<1>10. MinSum(S)' = Total(m, S, f1) /\ BytesSum(S)' = Total(m, S, h1)
  BY <1>2, <1>4, SumsAreTotalsNext
<1> QED BY <1>7, <1>8, <1>9, <1>10

-----------------------------------------------------------------------------
(* What a step does to one flow.                                           *)

\* The envelope request_traffic grants.
GrantOf(p, it) ==
  Grant(p, it, MinRate(p, it),
        MaxOf2(MinRate(p, it), MinOf2(MaxRate(p, it), Reach(p, it))))

FlowsMove ==
  \A i \in DOMAIN flows' :
    \/ i \in DOMAIN flows /\ flows'[i] = flows[i]
    \/ /\ i \in DOMAIN flows /\ i \in Exposed(flows[i].group)
       /\ IsolationCeiling(i) < flows[i].min
       /\ flows'[i] = Squeezed(flows[i], IsolationCeiling(i))
    \/ i = nextIntent /\ \E t \in Tokens, p \in 1 .. nextPhase, it \in Intents :
         FlowGranted(t, p, it) /\ flows'[i] = Flow(t, it, GrantOf(p, it))

LEMMA AdmittedFlows ==
  ASSUME NEW t, NEW p, NEW it, Admitted(t, p, it)
  PROVE  /\ RequestVictims(p, it) \subseteq FlowsOf(it.group)
         /\ flows' = Put(FlowsWithout(RequestVictims(p, it)), nextIntent,
                         Flow(t, it, GrantOf(p, it)))
         /\ p \in DOMAIN step.phases
BY DEF Admitted, GrantOf, RequestVictims, Victims, Displaceable, InPhase

\* The class of every phase and of every live flow is one the policy defines.
LEMMA ClassKnown ==
  ASSUME NumberInv, NEW p \in DOMAIN step.phases
  PROVE  ClassOf(p) \in DOMAIN Doc.spec
<1>1. policyGen \in DOMAIN Policies /\ step.phases[p].cls \in DOMAIN Doc.classOf
  BY ONLY NumberInv, p \in DOMAIN step.phases DEF NumberInv
<1>2. \A x \in DOMAIN Policies[policyGen].classOf :
        Policies[policyGen].classOf[x] \in DOMAIN Policies[policyGen].spec
  BY ONLY <1>1, PolicyFacts
<1> QED BY ONLY <1>1, <1>2 DEF ClassOf, Doc

LEMMA SpecNumbers ==
  ASSUME NumberInv, NEW c \in DOMAIN Doc.spec
  PROVE  /\ Spec(c).floor \in Nat /\ Spec(c).ceiling \in Nat
         /\ Spec(c).isolationCeiling \in Nat /\ Spec(c).priority \in 0 .. 200
<1>1. policyGen \in DOMAIN Policies BY ONLY NumberInv DEF NumberInv
<1>2. c \in DOMAIN Policies[policyGen].spec BY ONLY c \in DOMAIN Doc.spec DEF Doc
<1>3. /\ Policies[policyGen].spec[c].floor \in Nat
      /\ Policies[policyGen].spec[c].ceiling \in Nat
      /\ Policies[policyGen].spec[c].isolationCeiling \in Nat
      /\ Policies[policyGen].spec[c].priority \in 0 .. 200
  BY ONLY <1>1, <1>2, SpecFacts
<1> QED BY ONLY <1>3 DEF Spec, Doc

LEMMA PriorityNumbers ==
  ASSUME NumberInv, NEW p \in DOMAIN step.phases, NEW g
  PROVE  Priority(p, g) \in 0 .. 255 /\ (~Isolated(g) => Priority(p, g) <= 200)
<1>1. ClassOf(p) \in DOMAIN Doc.spec BY ClassKnown
<1>2. PICK b \in 0 .. 200 : b = Doc.spec[ClassOf(p)].priority
  BY <1>1, SpecNumbers DEF Spec
<1>3. PICK q \in 0 .. 255 : q = Doc.isoPriority
  <2>1. policyGen \in DOMAIN Policies BY ONLY NumberInv DEF NumberInv
  <2>2. Policies[policyGen].isoPriority \in 0 .. 255 BY <2>1, PolicyFacts
  <2> QED BY <2>2 DEF Doc
<1>4. MaxOf2(b, MinOf2(200, q + 1)) \in 0 .. 255
  <2>1. PICK m \in 0 .. 200 : m = MinOf2(200, q + 1) BY ONLY <1>3 DEF MinOf2
  <2>2. MaxOf2(b, m) = b \/ MaxOf2(b, m) = m BY ONLY DEF MaxOf2
  <2> QED BY ONLY <1>2, <2>1, <2>2
<1>5. \/ EffectivePriority(Doc, ClassOf(p), Isolated(g)) = b
      \/ EffectivePriority(Doc, ClassOf(p), Isolated(g)) = q
      \/ EffectivePriority(Doc, ClassOf(p), Isolated(g)) = MaxOf2(b, MinOf2(200, q + 1))
  <2>1. PICK c, d, iso : c = ClassOf(p) /\ d = Doc /\ iso = Isolated(g) OBVIOUS
  <2>2. c \in DOMAIN d.spec /\ d.spec[c].priority = b /\ d.isoPriority = q
    BY <1>1, <1>2, <1>3, <2>1
  <2>3. \/ EffectivePriority(d, c, iso) = b \/ EffectivePriority(d, c, iso) = q
        \/ EffectivePriority(d, c, iso) = MaxOf2(b, MinOf2(200, q + 1))
    BY <2>2 DEF EffectivePriority
  <2> QED BY <2>1, <2>3
<1>6. ~Isolated(g) => EffectivePriority(Doc, ClassOf(p), Isolated(g)) = b
  BY <1>1, <1>2 DEF EffectivePriority
<1> QED BY <1>4, <1>5, <1>6 DEF Priority

LEMMA ReachNumber ==
  ASSUME NumberInv, NEW p, NEW it \in Intents, it.group \in Groups, it.group \in DOMAIN topology.cap
  PROVE  Available(it.group) \in Nat /\ Reach(p, it) \in Nat
<1>1. Available(it.group) \in Nat BY DEF NumberInv, Available, Monus
<1>2. RequestVictims(p, it) \subseteq DOMAIN flows
  BY DEF RequestVictims, Victims, Displaceable, FlowsOf
<1>3. MinSum(RequestVictims(p, it)) \in Nat BY <1>2, SumSubset
<1> QED BY <1>1, <1>3 DEF Reach

LEMMA RateNumbers ==
  ASSUME NumberInv, NEW p \in DOMAIN step.phases, NEW it \in Intents
  PROVE  /\ it.group \in Groups /\ it.bytes \in Nat
         /\ MinRate(p, it) \in Nat /\ MaxRate(p, it) \in Nat /\ Ceiling(p) \in Nat
<1>1. it.min \in Nat /\ it.max \in Nat /\ it.bytes \in Nat /\ it.group \in Groups
  BY FabricAssumption DEF FabricAssumption
<1>2. Spec(ClassOf(p)).floor \in Nat /\ Spec(ClassOf(p)).ceiling \in Nat
  BY ClassKnown, SpecNumbers
<1>3. Doc.unknownCeiling \in Nat
  <2>1. policyGen \in DOMAIN Policies BY DEF NumberInv
  <2>2. Policies[policyGen].unknownCeiling \in Nat BY <2>1, PolicyFacts
  <2> QED BY <2>2 DEF Doc
<1>4. Ceiling(p) \in Nat BY <1>2, <1>3 DEF Ceiling, MinOf2
<1> QED BY <1>1, <1>2, <1>4 DEF MinRate, MaxRate, MaxOf2, MinOf2

LEMMA GrantNumbers ==
  ASSUME NumberInv, NEW t, NEW p, NEW it \in Intents, Admitted(t, p, it)
  PROVE  /\ FlowNumbers(Flow(t, it, GrantOf(p, it)))
         /\ Flow(t, it, GrantOf(p, it)).min = MinRate(p, it)
         /\ Flow(t, it, GrantOf(p, it)).bytes = it.bytes
         /\ Flow(t, it, GrantOf(p, it)).group = it.group
<1>1. p \in DOMAIN step.phases /\ it.group \in DOMAIN topology.cap
  BY AdmittedFlows DEF Admitted, Fits
<1>2. PICK lo \in Nat, hi \in Nat, top \in Nat :
        lo = MinRate(p, it) /\ hi = MaxRate(p, it) /\ top = Reach(p, it)
  BY <1>1, RateNumbers, ReachNumber
<1>3. PICK max : max = MaxOf2(lo, MinOf2(hi, top)) OBVIOUS
<1>4. max \in Nat /\ lo <= max BY <1>3 DEF MaxOf2, MinOf2
<1>5. Priority(p, it.group) \in 0 .. 255 BY <1>1, PriorityNumbers
<1>6. it.group \in Groups /\ it.bytes \in Nat BY <1>1, RateNumbers
<1>7. GrantOf(p, it) = Grant(p, it, lo, max) BY <1>2, <1>3 DEF GrantOf
<1> QED BY <1>2, <1>4, <1>5, <1>6, <1>7 DEF Flow, Grant, FlowNumbers

LEMMA FewerFlows ==
  ASSUME \A i \in DOMAIN flows' : i \in DOMAIN flows /\ flows'[i] = flows[i]
  PROVE  FlowsMove
BY DEF FlowsMove

LEMMA GrantedMove ==
  ASSUME NEW t \in Tokens, NEW p \in 1 .. nextPhase, NEW it \in Intents, FlowGranted(t, p, it)
  PROVE  FlowsMove
<1>1. PICK new, victims :
        /\ new = Flow(t, it, GrantOf(p, it)) /\ victims = RequestVictims(p, it)
        /\ flows' = Put(FlowsWithout(victims), nextIntent, new)
  BY AdmittedFlows DEF FlowGranted
<1>2. \A i \in DOMAIN flows' :
        \/ i \in DOMAIN flows /\ flows'[i] = flows[i]
        \/ i = nextIntent /\ flows'[i] = new
  BY <1>1 DEF Put, FlowsWithout
<1> QED BY <1>1, <1>2 DEF FlowsMove

LEMMA BurstMove ==
  ASSUME HeldInv, NEW t, NEW g, BeginCheckpointBurst(t, g)
  PROVE  FlowsMove
<1> SUFFICES ASSUME NEW i \in DOMAIN flows', flows'[i] # flows[i]
             PROVE  /\ i \in DOMAIN flows /\ i \in Exposed(flows[i].group)
                    /\ IsolationCeiling(i) < flows[i].min
                    /\ flows'[i] = Squeezed(flows[i], IsolationCeiling(i))
  BY BurstFlows DEF FlowsMove, HeldInv
<1>1. /\ i \in DOMAIN flows /\ i \in Throttled(g)
      /\ flows'[i] = Squeezed(flows[i], IsolationCeiling(i))
  BY BurstFlows DEF HeldInv
<1>2. i \in Exposed(g) /\ flows[i].min > IsolationCeiling(i)
  BY <1>1 DEF Throttled
<1>3. flows[i].group = g BY <1>2 DEF Exposed, FlowsOf
<1> QED BY <1>1, <1>2, <1>3

LEMMA BooksMoveFlows == ASSUME HeldInv, BooksMove PROVE FlowsMove
<1>1. ASSUME BooksKept \/ \E g \in Groups : GroupOpened(g) PROVE FlowsMove
  BY <1>1, FewerFlows DEF BooksKept, GroupOpened
<1>2. ASSUME NEW S, FlowsCancelled(S) PROVE FlowsMove
  BY <1>2, FewerFlows DEF FlowsCancelled, FlowsWithout
<1>3. ASSUME StepClosed PROVE FlowsMove
  BY <1>3, FewerFlows DEF StepClosed, CloseStep
<1>4. ASSUME NEW t, NEW i, NEW bytes, NEW c, CompleteFlow(t, i, bytes, c) PROVE FlowsMove
  BY <1>4, FewerFlows DEF CompleteFlow, FlowsWithout
<1> QED BY <1>1, <1>2, <1>3, <1>4, GrantedMove, BurstMove DEF BooksMove

LEMMA NextFlows == ASSUME HeldInv, [Next]_vars PROVE FlowsMove
BY NextMoves, BooksMoveFlows

\* A throttled flow keeps all but its rates, and both fall to the ceiling.
Rated(f, lo, hi) ==
  [group |-> f.group, phase |-> f.phase, class |-> f.class, prio |-> f.prio,
   min |-> lo, max |-> hi, bytes |-> f.bytes, authority |-> f.authority]

LEMMA RatedRecord ==
  ASSUME NEW f, NEW lo, NEW hi, NEW c
  PROVE  Squeezed(Rated(f, lo, hi), c) = Rated(f, c, MinOf2(hi, c))
<1> DEFINE R(a, b) == Rated(f, a, b)
           m == MinOf2(hi, c)
<1>1. [R(lo, hi) EXCEPT !.min = c] = R(c, hi) BY DEF Rated
<1>2. [R(c, hi) EXCEPT !.max = m] = R(c, m) BY DEF Rated
<1>3. R(lo, hi).max = hi BY DEF Rated
<1> HIDE DEF R
<1>4. Squeezed(R(lo, hi), c) = [R(lo, hi) EXCEPT !.min = c, !.max = m] BY <1>3 DEF Squeezed
<1> HIDE DEF m
<1>5. Squeezed(R(lo, hi), c) = R(c, m) BY <1>1, <1>2, <1>4
<1> QED BY <1>5 DEF R, m

LEMMA SqueezedFlow ==
  ASSUME HeldInv, MatchInv, NumberInv, NEW i \in DOMAIN flows,
         i \in Exposed(flows[i].group), IsolationCeiling(i) < flows[i].min
  PROVE  /\ FlowNumbers(Squeezed(flows[i], IsolationCeiling(i)))
         /\ IsolationCeiling(i) \in Nat
         /\ Squeezed(flows[i], IsolationCeiling(i)) =
              Rated(flows[i], IsolationCeiling(i), IsolationCeiling(i))
<1>1. IsolationCeiling(i) \in Nat BY SpecNumbers DEF Exposed, IsolationCeiling
<1>2. FlowNumbers(flows[i]) BY DEF NumberInv
<1>3. MinOf2(flows[i].max, IsolationCeiling(i)) = IsolationCeiling(i)
  BY <1>1, <1>2 DEF FlowNumbers, MinOf2
<1>4. PICK c \in Nat : c = IsolationCeiling(i) BY <1>1
<1>5. Squeezed(flows[i], c) = Rated(flows[i], c, c)
  <2>1. PICK f : f = flows[i] OBVIOUS
  <2>2. f = Rated(f, f.min, f.max) BY <2>1 DEF HeldInv, FlowShape, Rated
  <2>3. MinOf2(f.max, c) = c BY <1>3, <1>4, <2>1
  <2> QED BY <2>1, <2>2, <2>3, RatedRecord
<1>6. FlowNumbers(Rated(flows[i], c, c)) BY <1>2 DEF FlowNumbers, Rated
<1> QED BY <1>4, <1>5, <1>6

\* An id is issued at most, and is the only one that becomes live.
LEMMA IdsMove ==
  ASSUME BooksMove
  PROVE  /\ nextIntent' = nextIntent \/ nextIntent' = nextIntent + 1
         /\ \/ DOMAIN flows' \subseteq DOMAIN flows
            \/ nextIntent' = nextIntent + 1
<1>1. ASSUME BooksKept \/ \E g \in Groups : GroupOpened(g)
      PROVE  /\ nextIntent' = nextIntent \/ nextIntent' = nextIntent + 1
             /\ DOMAIN flows' \subseteq DOMAIN flows
  BY <1>1 DEF BooksKept, GroupOpened
<1>2. ASSUME NEW S, FlowsCancelled(S)
      PROVE  nextIntent' = nextIntent /\ DOMAIN flows' \subseteq DOMAIN flows
  BY <1>2 DEF FlowsCancelled, FlowsWithout
<1>3. ASSUME StepClosed
      PROVE  nextIntent' = nextIntent /\ DOMAIN flows' \subseteq DOMAIN flows
  BY <1>3 DEF StepClosed, CloseStep
<1>4. ASSUME NEW t, NEW i, NEW bytes, NEW c, CompleteFlow(t, i, bytes, c)
      PROVE  nextIntent' = nextIntent /\ DOMAIN flows' \subseteq DOMAIN flows
  BY <1>4 DEF CompleteFlow, FlowsWithout, idVars
<1>5. ASSUME NEW t, NEW p, NEW it, FlowGranted(t, p, it)
      PROVE  nextIntent' = nextIntent + 1
  BY <1>5 DEF FlowGranted
<1>6. ASSUME NEW t, NEW g, BeginCheckpointBurst(t, g)
      PROVE  nextIntent' = nextIntent /\ DOMAIN flows' \subseteq DOMAIN flows
  <2>1. PICK out, cut :
          flows' = [i \in DOMAIN flows \ out |->
                     IF i \in cut THEN Squeezed(flows[i], IsolationCeiling(i)) ELSE flows[i]]
    BY <1>6 DEF BeginCheckpointBurst
  <2> QED BY <1>6, <2>1 DEF BeginCheckpointBurst
<1> QED BY <1>1, <1>2, <1>3, <1>4, <1>5, <1>6 DEF BooksMove

LEMMA NextNumbers == HeldInv /\ MatchInv /\ NumberInv /\ [Next]_vars => NumberInv'
<1> SUFFICES ASSUME HeldInv, MatchInv, NumberInv, [Next]_vars PROVE NumberInv'
  OBVIOUS
<1>1. BooksMove /\ FlowsMove /\ ConfigMoves BY NextMoves, NextFlows, NextConfig
<1>2. nextIntent' = nextIntent \/ nextIntent' = nextIntent + 1 BY <1>1, IdsMove
<1>3. nextIntent \in DOMAIN flows' => nextIntent' = nextIntent + 1
  <2>1. nextIntent \notin DOMAIN flows BY DEF NumberInv
  <2> QED BY <1>1, <2>1, IdsMove
<1>4. nextIntent' \in Nat \ {0} BY <1>2 DEF NumberInv
<1>5. \A i \in DOMAIN flows' : i \in 1 .. nextIntent' - 1
  <2> TAKE i \in DOMAIN flows'
  <2>1. CASE i \in DOMAIN flows BY <1>2, <2>1 DEF NumberInv
  <2>2. CASE i = nextIntent BY <1>3, <2>2 DEF NumberInv
  <2> QED BY <1>1, <2>1, <2>2 DEF FlowsMove
<1>6. \A i \in DOMAIN flows' : FlowNumbers(flows'[i])
  <2> TAKE i \in DOMAIN flows'
  <2>1. CASE i \in DOMAIN flows /\ flows'[i] = flows[i] BY <2>1 DEF NumberInv
  <2>2. CASE /\ i \in DOMAIN flows /\ i \in Exposed(flows[i].group)
             /\ IsolationCeiling(i) < flows[i].min
             /\ flows'[i] = Squeezed(flows[i], IsolationCeiling(i))
    BY <2>2, SqueezedFlow
  <2>3. ASSUME NEW t, NEW p, NEW it \in Intents,
               FlowGranted(t, p, it), flows'[i] = Flow(t, it, GrantOf(p, it))
        PROVE  FlowNumbers(flows'[i])
    BY <2>3, GrantNumbers DEF FlowGranted
  <2> QED BY <1>1, <2>1, <2>2, <2>3 DEF FlowsMove
<1>7. utilized' \in [Groups -> Nat]
  <2>1. \A S \in SUBSET DOMAIN flows : UtilizedWithout(S) \in [Groups -> Nat]
    <3> TAKE S \in SUBSET DOMAIN flows
    <3>1. \A g \in Groups : MinSum(S \cap FlowsOf(g)) \in Nat
      <4> TAKE g \in Groups
      <4>1. S \cap FlowsOf(g) \subseteq DOMAIN flows OBVIOUS
      <4> QED BY <4>1, SumSubset
    <3> QED BY <3>1 DEF UtilizedWithout, Monus, NumberInv
  <2>2. ASSUME BooksKept \/ \E g \in Groups : GroupOpened(g) PROVE utilized' \in [Groups -> Nat]
    BY <2>2 DEF BooksKept, GroupOpened, NumberInv
  <2>3. ASSUME NEW S, FlowsCancelled(S) PROVE utilized' \in [Groups -> Nat]
    BY <2>1, <2>3 DEF FlowsCancelled
  <2>4. ASSUME StepClosed PROVE utilized' \in [Groups -> Nat]
    BY <2>1, <2>4 DEF StepClosed, CloseStep
  <2>5. ASSUME NEW t, NEW i, NEW bytes, NEW c, CompleteFlow(t, i, bytes, c)
        PROVE  utilized' \in [Groups -> Nat]
    BY <2>1, <2>5 DEF CompleteFlow
  <2>6. ASSUME NEW t, NEW p, NEW it \in Intents, FlowGranted(t, p, it)
        PROVE  utilized' \in [Groups -> Nat]
    <3>1. PICK u : u = UtilizedWithout(RequestVictims(p, it)) OBVIOUS
    <3>2. RequestVictims(p, it) \in SUBSET DOMAIN flows
      BY <2>6, AdmittedFlows DEF FlowGranted, FlowsOf
    <3>3. u \in [Groups -> Nat] BY <2>1, <3>1, <3>2
    <3>4. utilized' = [u EXCEPT ![it.group] = @ + MinRate(p, it)]
      BY <2>6, <3>1 DEF FlowGranted, Admitted, Grant
    <3>5. PICK min \in Nat : min = MinRate(p, it)
      BY <2>6, RateNumbers DEF FlowGranted, Admitted, InPhase
    <3>6. it.group \in Groups BY <2>6, RateNumbers DEF FlowGranted, Admitted, InPhase
    <3>7. u[it.group] + min \in Nat BY <3>3, <3>6
    <3> QED BY <3>3, <3>4, <3>5, <3>6, <3>7
  <2>7. ASSUME NEW t, NEW g \in Groups, BeginCheckpointBurst(t, g)
        PROVE  utilized' \in [Groups -> Nat]
    <3>1. PICK u, slack : /\ u = UtilizedWithout(Displaced(g))
                          /\ slack = SumTo([i \in Ids |-> IF i \in Throttled(g)
                                 THEN flows[i].min - IsolationCeiling(i) ELSE 0], nextIntent - 1)
      OBVIOUS
    <3>2. u \in [Groups -> Nat] BY <2>1, <3>1 DEF Displaced, Exposed, FlowsOf
    <3>3. utilized' = [u EXCEPT ![g] = Monus(@, slack)]
      BY <2>7, <3>1 DEF BeginCheckpointBurst
    <3>4. slack \in Nat
      <4>1. \A i \in 1 .. nextIntent - 1 :
              i \in Throttled(g) => flows[i].min - IsolationCeiling(i) \in Nat
        <5> TAKE i \in 1 .. nextIntent - 1
        <5> HAVE i \in Throttled(g)
        <5>1. i \in Exposed(g) /\ flows[i].min > IsolationCeiling(i) BY DEF Throttled
        <5>2. i \in DOMAIN flows /\ i \in Exposed(flows[i].group)
          BY <5>1 DEF Exposed, FlowsOf
        <5>3. flows[i].min \in Nat BY <5>2 DEF NumberInv, FlowNumbers
        <5>4. IsolationCeiling(i) \in Nat
          BY <5>1, SpecNumbers DEF Exposed, IsolationCeiling
        <5> QED BY <5>1, <5>3, <5>4
      <4>2. PICK w : w = [i \in Ids |-> IF i \in Throttled(g)
                             THEN flows[i].min - IsolationCeiling(i) ELSE 0]
        OBVIOUS
      <4>3. \A i \in 1 .. nextIntent - 1 : w[i] \in Nat BY <4>1, <4>2 DEF Ids
      <4>4. nextIntent - 1 \in Nat BY DEF NumberInv
      <4> QED BY <3>1, <4>2, <4>3, <4>4, SumToNat
    <3> QED BY <3>2, <3>3, <3>4 DEF Monus
  <2> QED BY <1>1, <2>2, <2>3, <2>4, <2>5, <2>6, <2>7 DEF BooksMove
<1>8. \A g \in DOMAIN topology'.cap : topology'.cap[g] \in Nat
  <2>1. CASE topology' = topology BY <2>1 DEF NumberInv
  <2>2. CASE topology'.cap \in Evidence
    BY <2>2, FabricAssumption DEF FabricAssumption
  <2> QED BY <1>1, <2>1, <2>2 DEF ConfigMoves
<1>9. \A p \in DOMAIN step'.phases : step'.phases[p].cls \in DOMAIN Doc'.classOf
  <2>1. policyGen \in DOMAIN Policies /\ policyGen' \in DOMAIN Policies
    BY <1>1 DEF NumberInv, ConfigMoves
  <2>2. DOMAIN Doc'.classOf = DOMAIN Doc.classOf BY <2>1, PolicyFacts DEF Doc
  <2> QED BY <1>1, <2>2 DEF ConfigMoves
<1> QED BY <1>1, <1>4, <1>5, <1>6, <1>7, <1>8, <1>9 DEF NumberInv, ConfigMoves

\* Every counter, rate and id is a natural number, ids in use were minted, and the
\* policy in force is one of the documents (register_job, and every id minted as
\* state.next_...++), in every reachable state.
THEOREM NumberInvariant == FabricSpec => [](HeldInv /\ MatchInv /\ NumberInv)
<1>1. Init => HeldInv /\ MatchInv /\ NumberInv
  <2> SUFFICES ASSUME Init PROVE HeldInv /\ MatchInv /\ NumberInv
    OBVIOUS
  <2>1. HeldInv BY InitHeld
  <2>2. DOMAIN flows = {} /\ DOMAIN step.phases = {} /\ DOMAIN topology.cap = {}
    BY DEF Init, NoStep
  <2>3. policyGen \in DOMAIN Policies BY FabricAssumption DEF FabricAssumption, Init
  <2>4. MatchInv BY <2>2 DEF MatchInv, FlowsMatchPolicy, Init
  <2>5. NumberInv BY <2>2, <2>3 DEF NumberInv, Init
  <2> QED BY <2>1, <2>4, <2>5
<1>2. HeldInv /\ MatchInv /\ NumberInv /\ [Next]_vars => (HeldInv /\ MatchInv /\ NumberInv)'
  BY NextHeld, NextMatches, NextNumbers, FabricAssumption
<1> QED BY <1>1, <1>2, PTL DEF FabricSpec

-----------------------------------------------------------------------------
(* How a step changes the sums.                                            *)

LEMMA SumsNext ==
  ASSUME NEW CONSTANT g, NEW CONSTANT T
  PROVE  /\ FlowsOf(g)' = T => MinSum(FlowsOf(g))' = MinSum(T)'
         /\ DOMAIN flows' = T => /\ MinSum(DOMAIN flows)' = MinSum(T)'
                                /\ BytesSum(DOMAIN flows)' = BytesSum(T)'
BY DEF FlowsOf, MinSum, BytesSum, Ids

\* A new flow adds its own weight.
LEMMA SumGrown ==
  ASSUME NumberInv, nextIntent' = nextIntent + 1,
         NEW CONSTANT n, n = nextIntent, NEW CONSTANT T, T \subseteq DOMAIN flows,
         \A i \in T : flows'[i] = flows[i], flows'[n].min \in Nat, flows'[n].bytes \in Nat
  PROVE  /\ MinSum(T \cup {n})' = MinSum(T) + flows'[n].min
         /\ BytesSum(T \cup {n})' = BytesSum(T) + flows'[n].bytes
<1>1. PICK m \in Nat : m = nextIntent - 1 BY DEF NumberInv
<1>2. n = m + 1 /\ nextIntent' - 1 = m + 1 BY <1>1 DEF NumberInv
<1>3. PICK f, h, f1, h1 : /\ f = Mins(flows, m) /\ h = Sizes(flows, m)
                         /\ f1 = Mins(flows', m + 1) /\ h1 = Sizes(flows', m + 1)
  OBVIOUS
<1>4. T \subseteq 1 .. m BY <1>1 DEF NumberInv
<1>5. \A i \in T : f1[i] = f[i] /\ h1[i] = h[i] BY <1>3, <1>4 DEF Mins, Sizes
<1>6. /\ \A i \in (T \cup {n}) \cap (1 .. m) : i \in T
      /\ \A i \in T : i \in (T \cup {n}) \cap (1 .. m)
  BY <1>2, <1>4
<1>7. PICK S : S = T \cup {n} OBVIOUS
<1>8. Total(m, S, f1) = Total(m, T, f) /\ Total(m, S, h1) = Total(m, T, h)
  <2>1. \A i \in 1 .. m : /\ Part(m, S, f1)[i] = Part(m, T, f)[i]
                          /\ Part(m, S, h1)[i] = Part(m, T, h)[i]
    BY <1>5, <1>6, <1>7 DEF Part
  <2> QED BY <2>1, SumToAgree DEF Total
<1>9. f1[m + 1] = flows'[n].min /\ h1[m + 1] = flows'[n].bytes
  BY <1>2, <1>3 DEF Mins, Sizes
<1>10. /\ Total(m + 1, S, f1) = Total(m, S, f1) + f1[m + 1]
       /\ Total(m + 1, S, h1) = Total(m, S, h1) + h1[m + 1]
  <2>1. m + 1 \in S BY <1>2, <1>7
  <2> QED BY <2>1, TotalNext
<1>11. MinSum(T) = Total(m, T, f) /\ BytesSum(T) = Total(m, T, h)
  BY <1>1, <1>3, SumsAreTotals
<1>12. MinSum(S)' = Total(m + 1, S, f1) /\ BytesSum(S)' = Total(m + 1, S, h1)
  BY <1>2, <1>3, SumsAreTotalsNext
<1> QED BY <1>7, <1>8, <1>9, <1>10, <1>11, <1>12

\* What throttling the flows of g gives back.
Slack(g) ==
  SumTo([i \in Ids |-> IF i \in Throttled(g) THEN flows[i].min - IsolationCeiling(i) ELSE 0],
        nextIntent - 1)

LEMMA BurstDoes ==
  ASSUME HeldInv, MatchInv, NumberInv, NEW t, NEW g, BeginCheckpointBurst(t, g)
  PROVE  /\ Displaced(g) \subseteq FlowsOf(g) /\ Throttled(g) \subseteq FlowsOf(g) \ Displaced(g)
         /\ DOMAIN flows' = DOMAIN flows \ Displaced(g)
         /\ \A i \in DOMAIN flows' \ Throttled(g) : flows'[i] = flows[i]
         /\ \A i \in Throttled(g) :
              /\ flows'[i] = Rated(flows[i], IsolationCeiling(i), IsolationCeiling(i))
              /\ IsolationCeiling(i) \in Nat /\ IsolationCeiling(i) < flows[i].min
         /\ nextIntent' = nextIntent
<1>1. /\ Displaced(g) \subseteq FlowsOf(g) /\ Throttled(g) \subseteq FlowsOf(g) \ Displaced(g)
      /\ FlowsOf(g) \subseteq DOMAIN flows
  BY DEF Displaced, Throttled, Exposed, FlowsOf
<1>2. PICK out, cut : out = Displaced(g) /\ cut = Throttled(g) OBVIOUS
<1>3. flows' = [i \in DOMAIN flows \ out |->
                 IF i \in cut THEN Squeezed(flows[i], IsolationCeiling(i)) ELSE flows[i]]
  BY <1>2 DEF BeginCheckpointBurst
<1>4. ASSUME NEW i \in cut
      PROVE  /\ i \in DOMAIN flows /\ i \notin out
             /\ i \in Exposed(flows[i].group) /\ IsolationCeiling(i) < flows[i].min
             /\ flows[i].min \in Nat /\ IsolationCeiling(i) \in Nat
  <2>1. i \in Exposed(g) /\ flows[i].min > IsolationCeiling(i) BY <1>2, <1>4 DEF Throttled
  <2>2. i \in DOMAIN flows /\ flows[i].group = g BY <2>1 DEF Exposed, FlowsOf
  <2>3. flows[i].min \in Nat BY <2>2 DEF NumberInv, FlowNumbers
  <2>4. IsolationCeiling(i) \in Nat BY <2>1, SpecNumbers DEF Exposed, IsolationCeiling
  <2> QED BY <1>1, <1>2, <2>1, <2>2, <2>3, <2>4
<1>5. \A i \in cut : flows'[i] = Rated(flows[i], IsolationCeiling(i), IsolationCeiling(i))
  BY <1>3, <1>4, SqueezedFlow
<1>6. nextIntent' = nextIntent BY DEF BeginCheckpointBurst
<1> QED BY <1>1, <1>2, <1>3, <1>4, <1>5, <1>6

\* The throttled flows weigh less by the slack.
LEMMA SumThrottled ==
  ASSUME HeldInv, MatchInv, NumberInv, NEW t, NEW g, BeginCheckpointBurst(t, g),
         NEW CONSTANT S, Throttled(g) \subseteq S, S \subseteq DOMAIN flows'
  PROVE  /\ MinSum(S) = MinSum(S)' + Slack(g) /\ {MinSum(S)', Slack(g)} \subseteq Nat
         /\ BytesSum(S)' = BytesSum(S)
<1>1. PICK n \in Nat : n = nextIntent - 1 BY DEF NumberInv
<1>2. nextIntent' - 1 = n BY <1>1, BurstDoes
<1>3. PICK cut, d : /\ cut = Throttled(g)
                    /\ d = [i \in 1 .. n |->
                             IF i \in cut THEN flows[i].min - IsolationCeiling(i) ELSE 0]
  OBVIOUS
<1>4. Slack(g) = SumTo(d, n) BY <1>1, <1>3 DEF Slack, Ids
<1>5. PICK f, h, f1, h1 : /\ f = Mins(flows, n) /\ h = Sizes(flows, n)
                         /\ f1 = Mins(flows', n) /\ h1 = Sizes(flows', n)
  OBVIOUS
<1>6. S \subseteq DOMAIN flows /\ S \subseteq 1 .. n BY <1>1, BurstDoes DEF NumberInv
<1>7. ASSUME NEW i \in S
      PROVE  /\ f1[i] \in Nat /\ d[i] \in Nat /\ f[i] = f1[i] + d[i]
             /\ h1[i] = h[i]
  <2>1. i \in 1 .. n /\ i \in DOMAIN flows' /\ flows[i].min \in Nat
    BY <1>6 DEF NumberInv, FlowNumbers
  <2>2. /\ f[i] = flows[i].min /\ f1[i] = flows'[i].min
        /\ h[i] = flows[i].bytes /\ h1[i] = flows'[i].bytes
    BY <1>5, <2>1 DEF Mins, Sizes
  <2>3. CASE i \in cut
    <3>1. PICK c \in Nat : c = IsolationCeiling(i) /\ c < flows[i].min
      BY <1>3, <2>3, BurstDoes
    <3>2. flows'[i] = Rated(flows[i], c, c) BY <1>3, <2>3, <3>1, BurstDoes
    <3>3. flows'[i].min = c /\ flows'[i].bytes = flows[i].bytes BY <3>2 DEF Rated
    <3>4. d[i] = flows[i].min - c BY <1>3, <2>1, <2>3, <3>1
    <3> QED BY <2>1, <2>2, <3>1, <3>3, <3>4
  <2>4. CASE i \notin cut
    <3>1. flows'[i] = flows[i] BY <1>3, <2>1, <2>4, BurstDoes
    <3>2. d[i] = 0 BY <1>3, <2>1, <2>4
    <3> QED BY <2>1, <2>2, <3>1, <3>2
  <2> QED BY <2>3, <2>4
<1>8. Total(n, S, f) = Total(n, S, f1) + Total(n, S, d) BY <1>7, TotalPlus
<1>9. Total(n, S, f1) \in Nat /\ Total(n, S, d) \in Nat BY <1>7, TotalNat
<1>10. Total(n, S, d) = SumTo(d, n)
  <2>1. \A i \in 1 .. n : Part(n, S, d)[i] = d[i] BY <1>3 DEF Part
  <2> QED BY <2>1, SumToAgree DEF Total
<1>11. Total(n, S, h) = Total(n, S, h1) BY <1>7, TotalSame
<1>12. MinSum(S) = Total(n, S, f) /\ BytesSum(S) = Total(n, S, h)
  BY <1>1, <1>5, SumsAreTotals
<1>13. MinSum(S)' = Total(n, S, f1) /\ BytesSum(S)' = Total(n, S, h1)
  BY <1>2, <1>5, SumsAreTotalsNext
<1> QED BY <1>4, <1>8, <1>9, <1>10, <1>11, <1>12, <1>13

-----------------------------------------------------------------------------
(* Utilisation.                                                            *)

\* The flows that live only in registered groups: request_traffic does not
\* look, and register_group starts the utilisation of a new group at zero.
InRegisteredGroups == \A i \in DOMAIN flows : flows[i].group \in groups

UtilInv == NumberInv /\ UtilizationMatchesFlows /\ InRegisteredGroups

LEMMA Released ==
  ASSUME NumberInv, UtilizationMatchesFlows, NEW S, S \subseteq DOMAIN flows, NEW g \in Groups
  PROVE  /\ UtilizedWithout(S)[g] = MinSum(FlowsOf(g) \ S)
         /\ MinSum(FlowsOf(g) \ S) \in Nat
<1>1. PICK F, T : F = FlowsOf(g) /\ T = S \cap FlowsOf(g) OBVIOUS
<1>2. F \subseteq DOMAIN flows /\ T \subseteq F BY <1>1 DEF FlowsOf
<1>3. /\ MinSum(F) = MinSum(T) + MinSum(F \ T)
      /\ MinSum(F) \in Nat /\ MinSum(T) \in Nat /\ MinSum(F \ T) \in Nat
  BY <1>2, SumSubset
<1>4. F \ T = F \ S BY <1>1
<1>5. UtilizedWithout(S)[g] = Monus(utilized[g], MinSum(T)) BY <1>1 DEF UtilizedWithout
<1>6. utilized[g] = MinSum(F) BY <1>1 DEF UtilizationMatchesFlows
<1>7. PICK a \in Nat, b \in Nat, c \in Nat :
        a = MinSum(F) /\ b = MinSum(T) /\ c = MinSum(F \ T) /\ a = b + c
  BY <1>3
<1>8. Monus(a, b) = c BY <1>7 DEF Monus
<1> QED BY <1>1, <1>4, <1>5, <1>6, <1>7, <1>8

LEMMA ClosedUtilization ==
  ASSUME NumberInv, UtilizationMatchesFlows, NEW S, S \subseteq DOMAIN flows,
         DOMAIN flows' = DOMAIN flows \ S, \A i \in DOMAIN flows' : flows'[i] = flows[i],
         utilized' = UtilizedWithout(S), nextIntent' = nextIntent
  PROVE  UtilizationMatchesFlows'
<1> SUFFICES ASSUME NEW g \in Groups PROVE utilized'[g] = MinSum(FlowsOf(g))'
  BY DEF UtilizationMatchesFlows
<1>1. PICK T : T = FlowsOf(g) \ S OBVIOUS
<1>2. FlowsOf(g)' = T BY <1>1 DEF FlowsOf
<1>3. T \subseteq DOMAIN flows /\ \A i \in T : flows'[i] = flows[i] BY <1>1 DEF FlowsOf
<1>4. MinSum(FlowsOf(g))' = MinSum(T)' BY <1>2, SumsNext
<1>5. MinSum(T)' = MinSum(T) BY <1>3, SumSame
<1> QED BY <1>1, <1>4, <1>5, Released

LEMMA KeptUtilization ==
  ASSUME NumberInv, UtilizationMatchesFlows, BooksKept
  PROVE  UtilizationMatchesFlows'
<1> SUFFICES ASSUME NEW g \in Groups PROVE utilized'[g] = MinSum(FlowsOf(g))'
  BY DEF UtilizationMatchesFlows
<1>1. PICK T : T = FlowsOf(g) OBVIOUS
<1>2. FlowsOf(g)' = T BY <1>1 DEF FlowsOf, BooksKept
<1>3. T \subseteq DOMAIN flows /\ \A i \in T : flows'[i] = flows[i]
  BY <1>1 DEF FlowsOf, BooksKept
<1>4. MinSum(FlowsOf(g))' = MinSum(T)' BY <1>2, SumsNext
<1>5. MinSum(T)' = MinSum(T) BY <1>3, SumSame DEF BooksKept
<1> QED BY <1>1, <1>4, <1>5 DEF BooksKept, UtilizationMatchesFlows

\* A group is opened at zero: nothing lives in it.
LEMMA OpenedUtilization ==
  ASSUME UtilInv, NEW o \in Groups, GroupOpened(o)
  PROVE  UtilizationMatchesFlows'
<1> SUFFICES ASSUME NEW g \in Groups PROVE utilized'[g] = MinSum(FlowsOf(g))'
  BY DEF UtilizationMatchesFlows
<1>0. NumberInv BY DEF UtilInv
<1>1. PICK T : T = FlowsOf(g) OBVIOUS
<1>2. FlowsOf(g)' = T BY <1>1 DEF FlowsOf, GroupOpened
<1>3. T \subseteq DOMAIN flows /\ \A i \in T : flows'[i] = flows[i]
  BY <1>1 DEF FlowsOf, GroupOpened
<1>4. MinSum(FlowsOf(g))' = MinSum(T)' BY <1>2, SumsNext
<1>5. MinSum(T)' = MinSum(T) BY <1>0, <1>3, SumSame DEF GroupOpened
<1>6. utilized \in [Groups -> Nat] /\ utilized' = [utilized EXCEPT ![o] = 0]
  BY <1>0 DEF NumberInv, GroupOpened
<1>7. CASE g = o
  <2>1. T = {} BY <1>1, <1>7 DEF FlowsOf, UtilInv, InRegisteredGroups, GroupOpened
  <2>2. MinSum(T) = 0 BY <1>0, <2>1, SumEmpty
  <2> QED BY <1>4, <1>5, <1>6, <1>7, <2>2
<1>8. CASE g # o
  <2>1. utilized'[g] = utilized[g] BY <1>6, <1>8
  <2> QED BY <1>1, <1>4, <1>5, <2>1 DEF UtilInv, UtilizationMatchesFlows
<1> QED BY <1>7, <1>8

\* What an admission leaves: the flows but the victims, and the new one.
LEMMA GrantDoes ==
  ASSUME NumberInv, NEW t, NEW p, NEW it \in Intents, FlowGranted(t, p, it)
  PROVE  \E n, V :
         /\ n = nextIntent /\ V = RequestVictims(p, it)
         /\ V \subseteq FlowsOf(it.group) /\ n \notin DOMAIN flows /\ nextIntent' = nextIntent + 1
         /\ DOMAIN flows' = (DOMAIN flows \ V) \cup {n}
         /\ \A i \in DOMAIN flows \ V : flows'[i] = flows[i]
         /\ flows'[n] = Flow(t, it, GrantOf(p, it))
         /\ flows'[n].min = MinRate(p, it) /\ flows'[n].min \in Nat
         /\ flows'[n].bytes = it.bytes /\ flows'[n].bytes \in Nat
         /\ flows'[n].group = it.group /\ it.group \in Groups
<1>0. PICK n, V : n = nextIntent /\ V = RequestVictims(p, it) OBVIOUS
<1>1. Admitted(t, p, it) /\ nextIntent' = nextIntent + 1 BY DEF FlowGranted
<1>2. PICK f : f = Flow(t, it, GrantOf(p, it)) OBVIOUS
<1>3. V \subseteq FlowsOf(it.group) /\ flows' = Put(FlowsWithout(V), n, f)
  BY <1>0, <1>1, <1>2, AdmittedFlows
<1>4. n \notin DOMAIN flows BY <1>0 DEF NumberInv
<1>5. /\ DOMAIN flows' = (DOMAIN flows \ V) \cup {n}
      /\ \A i \in DOMAIN flows \ V : flows'[i] = flows[i]
      /\ flows'[n] = f
  BY <1>3, <1>4 DEF Put, FlowsWithout
<1>6. /\ FlowNumbers(f) /\ f.min = MinRate(p, it) /\ f.bytes = it.bytes /\ f.group = it.group
  BY <1>1, <1>2, GrantNumbers
<1> QED BY <1>0, <1>1, <1>2, <1>3, <1>4, <1>5, <1>6 DEF FlowNumbers

LEMMA GrantedUtilization ==
  ASSUME UtilInv, NEW t, NEW p, NEW it \in Intents, FlowGranted(t, p, it)
  PROVE  UtilizationMatchesFlows'
<1> SUFFICES ASSUME NEW g \in Groups PROVE utilized'[g] = MinSum(FlowsOf(g))'
  BY DEF UtilizationMatchesFlows
<1>0. NumberInv /\ UtilizationMatchesFlows BY DEF UtilInv
<1>1. PICK n, V :
        /\ n = nextIntent /\ V = RequestVictims(p, it)
        /\ V \subseteq FlowsOf(it.group) /\ n \notin DOMAIN flows /\ nextIntent' = nextIntent + 1
        /\ DOMAIN flows' = (DOMAIN flows \ V) \cup {n}
        /\ \A i \in DOMAIN flows \ V : flows'[i] = flows[i]
        /\ flows'[n] = Flow(t, it, GrantOf(p, it))
        /\ flows'[n].min = MinRate(p, it) /\ flows'[n].min \in Nat
        /\ flows'[n].bytes = it.bytes /\ flows'[n].bytes \in Nat
        /\ flows'[n].group = it.group /\ it.group \in Groups
  BY <1>0, GrantDoes
<1>2. PICK T : T = FlowsOf(g) \ V OBVIOUS
<1>3. T \subseteq DOMAIN flows /\ \A i \in T : flows'[i] = flows[i]
  BY <1>1, <1>2 DEF FlowsOf
<1>4. PICK u : u = UtilizedWithout(V) OBVIOUS
<1>5. u \in [Groups -> Nat] /\ u[g] = MinSum(T) /\ MinSum(T) \in Nat
  <2>0. V \subseteq DOMAIN flows BY <1>1 DEF FlowsOf
  <2>1. \A h \in Groups : u[h] \in Nat BY <1>0, <2>0, <1>4, Released
  <2>2. DOMAIN u = Groups /\ u = [h \in Groups |-> u[h]] BY <1>4 DEF UtilizedWithout
  <2>3. u \in [Groups -> Nat] BY <2>1, <2>2
  <2> QED BY <1>0, <1>2, <1>4, <2>0, <2>3, Released
<1>6. utilized' = [u EXCEPT ![it.group] = @ + MinRate(p, it)]
  BY <1>1, <1>4 DEF FlowGranted, Admitted, Grant
<1>7. CASE g = it.group
  <2>1. FlowsOf(g)' = T \cup {n} BY <1>1, <1>2, <1>3, <1>7 DEF FlowsOf
  <2>2. MinSum(FlowsOf(g))' = MinSum(T \cup {n})' BY <2>1, SumsNext
  <2>3. MinSum(T \cup {n})' = MinSum(T) + flows'[n].min
    BY <1>0, <1>1, <1>2, <1>3, SumGrown
  <2>4. utilized'[g] = u[g] + MinRate(p, it) BY <1>5, <1>6, <1>7
  <2> QED BY <1>1, <1>5, <2>2, <2>3, <2>4
<1>8. CASE g # it.group
  <2>1. FlowsOf(g)' = T BY <1>1, <1>2, <1>3, <1>8 DEF FlowsOf
  <2>2. MinSum(FlowsOf(g))' = MinSum(T)' BY <2>1, SumsNext
  <2>3. MinSum(T)' = MinSum(T) BY <1>0, <1>1, <1>3, SumSame
  <2>4. utilized'[g] = u[g] BY <1>5, <1>6, <1>8
  <2> QED BY <1>5, <2>2, <2>3, <2>4
<1> QED BY <1>7, <1>8

LEMMA BurstUtilization ==
  ASSUME HeldInv, MatchInv, UtilInv, NEW t, NEW b \in Groups, BeginCheckpointBurst(t, b)
  PROVE  UtilizationMatchesFlows'
<1> SUFFICES ASSUME NEW g \in Groups PROVE utilized'[g] = MinSum(FlowsOf(g))'
  BY DEF UtilizationMatchesFlows
<1>0. NumberInv /\ UtilizationMatchesFlows BY DEF UtilInv
<1>1. PICK out, cut, T : out = Displaced(b) /\ cut = Throttled(b) /\ T = FlowsOf(g) \ out
  OBVIOUS
<1>2. /\ out \subseteq FlowsOf(b) /\ out \subseteq DOMAIN flows /\ cut \subseteq FlowsOf(b) \ out
      /\ DOMAIN flows' = DOMAIN flows \ out
      /\ \A i \in DOMAIN flows' \ cut : flows'[i] = flows[i]
      /\ \A i \in cut : flows'[i].group = flows[i].group
      /\ nextIntent' = nextIntent
  <2>1. FlowsOf(b) \subseteq DOMAIN flows BY DEF FlowsOf
  <2>2. \A i \in cut : flows'[i].group = flows[i].group
    <3>1. \A i \in Throttled(b) :
            flows'[i] = Rated(flows[i], IsolationCeiling(i), IsolationCeiling(i))
      BY <1>0, BurstDoes
    <3> TAKE i \in cut
    <3>2. PICK f, c : f = flows[i] /\ flows'[i] = Rated(f, c, c) BY <1>1, <3>1
    <3> QED BY <3>2 DEF Rated
  <2> QED BY <1>0, <1>1, <2>1, <2>2, BurstDoes
<1>3. T \subseteq DOMAIN flows' BY <1>1, <1>2 DEF FlowsOf
<1>4. FlowsOf(g)' = T
  <2>1. \A i \in DOMAIN flows' : flows'[i].group = flows[i].group BY <1>2
  <2> QED BY <1>1, <1>2, <2>1 DEF FlowsOf
<1>5. MinSum(FlowsOf(g))' = MinSum(T)' BY <1>4, SumsNext
<1>6. PICK u, slack : u = UtilizedWithout(out) /\ slack = Slack(b) OBVIOUS
<1>7. u[g] = MinSum(T) /\ MinSum(T) \in Nat /\ DOMAIN u = Groups
  BY <1>0, <1>1, <1>2, <1>6, Released DEF UtilizedWithout
<1>8. utilized' = [u EXCEPT ![b] = Monus(@, slack)]
  BY <1>1, <1>6 DEF BeginCheckpointBurst, Slack
<1>9. CASE g = b
  <2>1. cut \subseteq T BY <1>1, <1>2, <1>9
  <2>2. MinSum(T) = MinSum(T)' + slack /\ {MinSum(T)', slack} \subseteq Nat
    BY <1>0, <1>1, <1>3, <1>6, <1>9, <2>1, SumThrottled
  <2>3. utilized'[g] = Monus(u[g], slack) BY <1>7, <1>8, <1>9
  <2>4. PICK x \in Nat, y \in Nat : x = MinSum(T)' /\ y = slack /\ MinSum(T) = x + y
    BY <2>2
  <2>5. Monus(x + y, y) = x BY DEF Monus
  <2> QED BY <1>5, <1>7, <2>3, <2>4, <2>5
<1>10. CASE g # b
  <2>1. \A i \in T : flows'[i] = flows[i] BY <1>1, <1>2, <1>3, <1>10 DEF FlowsOf
  <2>2. T \subseteq DOMAIN flows BY <1>1 DEF FlowsOf
  <2>3. MinSum(T)' = MinSum(T) BY <1>0, <1>2, <2>1, <2>2, SumSame
  <2>4. utilized'[g] = u[g] BY <1>7, <1>8, <1>10
  <2> QED BY <1>5, <1>7, <2>3, <2>4
<1> QED BY <1>9, <1>10

LEMMA NextUtilization ==
  ASSUME HeldInv, MatchInv, UtilInv, BooksMove
  PROVE  UtilizationMatchesFlows'
<1>0. NumberInv /\ UtilizationMatchesFlows BY DEF UtilInv
<1>1. ASSUME BooksKept PROVE UtilizationMatchesFlows' BY <1>0, <1>1, KeptUtilization
<1>2. ASSUME NEW g \in Groups, GroupOpened(g) PROVE UtilizationMatchesFlows'
  BY <1>2, OpenedUtilization
<1>3. ASSUME NEW S \in SUBSET DOMAIN flows, FlowsCancelled(S) PROVE UtilizationMatchesFlows'
  BY <1>0, <1>3, ClosedUtilization DEF FlowsCancelled, FlowsWithout
<1>4. ASSUME StepClosed PROVE UtilizationMatchesFlows'
  <2>1. PICK S : S = DOMAIN flows OBVIOUS
  <2>2. /\ DOMAIN flows' = {} /\ utilized' = UtilizedWithout(S) /\ nextIntent' = nextIntent
    BY <1>4, <2>1 DEF StepClosed, CloseStep
  <2>3. DOMAIN flows' = DOMAIN flows \ S BY <2>1, <2>2
  <2> QED BY <1>0, <2>1, <2>2, <2>3, ClosedUtilization
<1>5. ASSUME NEW t, NEW i, NEW bytes, NEW c, CompleteFlow(t, i, bytes, c)
      PROVE  UtilizationMatchesFlows'
  <2>1. PICK S : S = {i} OBVIOUS
  <2>2. /\ S \subseteq DOMAIN flows /\ utilized' = UtilizedWithout(S)
        /\ flows' = FlowsWithout(S) /\ nextIntent' = nextIntent
    BY <1>5, <2>1 DEF CompleteFlow, idVars
  <2>3. DOMAIN flows' = DOMAIN flows \ S /\ \A j \in DOMAIN flows' : flows'[j] = flows[j]
    BY <2>2 DEF FlowsWithout
  <2> QED BY <1>0, <2>2, <2>3, ClosedUtilization
<1>6. ASSUME NEW t, NEW p, NEW it \in Intents, FlowGranted(t, p, it)
      PROVE  UtilizationMatchesFlows'
  BY <1>6, GrantedUtilization
<1>7. ASSUME NEW t, NEW g \in Groups, BeginCheckpointBurst(t, g) PROVE UtilizationMatchesFlows'
  BY <1>7, BurstUtilization
<1> QED BY <1>1, <1>2, <1>3, <1>4, <1>5, <1>6, <1>7 DEF BooksMove

\* Groups are never dropped.
LEMMA NextGroups == ASSUME [Next]_vars PROVE groups \subseteq groups'
<1>1. CASE UNCHANGED vars BY <1>1 DEF vars, configVars
<1>2. ASSUME Registration PROVE groups \subseteq groups'
  BY <1>2 DEF Registration, ApplyPolicy, RebaseEpoch, RegisterGroup, PublishTopology, RetireJob,
              configVars
<1>3. ASSUME Lifecycle PROVE groups \subseteq groups'
  BY <1>3 DEF Lifecycle, BeginStep, BeginPhase, EndPhase, EndStep, configVars
<1>4. ASSUME Traffic PROVE groups \subseteq groups'
  BY <1>4, TrafficKeeps DEF TrafficKept
<1>5. ASSUME Recovery PROVE groups \subseteq groups'
  BY <1>5 DEF Recovery, AdmitReplacement, RetireIncarnation, configVars
<1> QED BY <1>1, <1>2, <1>3, <1>4, <1>5 DEF Next

LEMMA NextInGroups ==
  ASSUME RegisteredTrafficOnly, HeldInv, MatchInv, NumberInv, InRegisteredGroups, [Next]_vars
  PROVE  InRegisteredGroups'
<1> SUFFICES ASSUME NEW i \in DOMAIN flows' PROVE flows'[i].group \in groups'
  BY DEF InRegisteredGroups
<1>1. groups \subseteq groups' /\ FlowsMove BY NextGroups, NextFlows
<1>2. CASE i \in DOMAIN flows /\ flows'[i] = flows[i]
  BY <1>1, <1>2 DEF InRegisteredGroups
<1>3. CASE /\ i \in DOMAIN flows /\ i \in Exposed(flows[i].group)
           /\ IsolationCeiling(i) < flows[i].min
           /\ flows'[i] = Squeezed(flows[i], IsolationCeiling(i))
  <2>1. PICK f, c : f = flows[i] /\ flows'[i] = Rated(f, c, c) BY <1>3, SqueezedFlow
  <2>2. flows'[i].group = flows[i].group BY <2>1 DEF Rated
  <2> QED BY <1>1, <1>3, <2>2 DEF InRegisteredGroups
<1>4. ASSUME NEW t, NEW p, NEW it \in Intents,
             FlowGranted(t, p, it), flows'[i] = Flow(t, it, GrantOf(p, it))
      PROVE  flows'[i].group \in groups'
  <2>1. it.group \in groups BY <1>4 DEF FlowGranted
  <2>2. flows'[i].group = it.group BY <1>4, GrantNumbers DEF FlowGranted
  <2> QED BY <1>1, <2>1, <2>2
<1> QED BY <1>1, <1>2, <1>3, <1>4 DEF FlowsMove

(***************************************************************************)
(* The utilisation kept per group (open_flow, close_flow,                  *)
(* release_utilization and the throttling of begin_checkpoint_burst) is    *)
(* the sum of the grants of the group's live flows in every reachable      *)
(* state, as long as callers name registered groups only.                  *)
(***************************************************************************)
THEOREM UtilizationIsExact ==
  ASSUME RegisteredTrafficOnly
  PROVE  FabricSpec => []UtilizationMatchesFlows
<1> DEFINE I == UtilizationMatchesFlows /\ InRegisteredGroups
<1>1. Init => I
  <2> SUFFICES ASSUME Init PROVE I
    OBVIOUS
  <2>1. DOMAIN flows = {} /\ nextIntent = 1 BY DEF Init
  <2>2. SumTo([i \in Ids |-> IF i \in {} THEN flows[i].min ELSE 0], nextIntent - 1) = 0
    BY <2>1, SumToZero
  <2>3. \A g : FlowsOf(g) = {} BY <2>1 DEF FlowsOf
  <2> QED BY <2>1, <2>2, <2>3 DEF UtilizationMatchesFlows, InRegisteredGroups, MinSum, Init
<1>2. (HeldInv /\ MatchInv /\ NumberInv) /\ I /\ [Next]_vars => I'
  BY NextMoves, NextUtilization, NextInGroups DEF UtilInv
<1>3. I => UtilizationMatchesFlows OBVIOUS
<1> HIDE DEF I
<1> QED BY <1>1, <1>2, <1>3, NumberInvariant, PTL DEF FabricSpec

-----------------------------------------------------------------------------
(* The accounts of the open step and of the reports kept.                  *)

Accounts ==
  [admitted : Nat, completed : Nat, cancelled : Nat, active : Nat, activeMin : Nat,
   bytesCommitted : Nat, bytesCompleted : Nat, bytesCancelled : Nat]

\* The account a is right with the flows of S live.  A restart loses the flows that were
\* live, so after one the counts are not exact; commitments and bytes are right still.
RightFor(a, S, exact) ==
  /\ a.active = Cardinality(S) /\ a.activeMin = MinSum(S)
  /\ a.bytesCommitted = a.bytesCompleted + a.bytesCancelled + BytesSum(S)
  /\ exact => a.admitted = a.completed + a.cancelled + a.active

ReportRight(r, exact) ==
  /\ Balanced(r.acct)
  /\ exact => r.acct.admitted = r.acct.completed + r.acct.cancelled

AccountInv(exact) ==
  /\ step.acct \in Accounts /\ RightFor(step.acct, DOMAIN flows, exact)
  /\ \A k \in DOMAIN history : ReportRight(history[k], exact)

LEMMA FiniteFlows ==
  ASSUME NumberInv, NEW S, S \subseteq DOMAIN flows
  PROVE  /\ IsFiniteSet(S) /\ Cardinality(S) \in Nat
         /\ IsFiniteSet(DOMAIN flows \ S)
         /\ Cardinality(DOMAIN flows) = Cardinality(S) + Cardinality(DOMAIN flows \ S)
         /\ Cardinality(DOMAIN flows \ S) \in Nat
<1>1. PICK n \in Nat : n = nextIntent - 1 BY DEF NumberInv
<1>2. IsFiniteSet(1 .. n) BY <1>1, FS_Interval
<1>3. PICK D : D = DOMAIN flows OBVIOUS
<1>4. D \in SUBSET (1 .. n) BY <1>1, <1>3 DEF NumberInv
<1>5. IsFiniteSet(D) BY <1>2, <1>4, FS_Subset
<1>6. IsFiniteSet(S) BY <1>3, <1>5, FS_Subset
<1>7. /\ IsFiniteSet(D \ S)
      /\ Cardinality(D \ S) = Cardinality(D) - Cardinality(D \cap S)
  BY <1>5, FS_Difference
<1>8. D \cap S = S BY <1>3
<1>9. Cardinality(D) \in Nat /\ Cardinality(S) \in Nat /\ Cardinality(D \ S) \in Nat
  BY <1>5, <1>6, <1>7, FS_CardinalityType
<1> QED BY <1>3, <1>6, <1>7, <1>8, <1>9

\* An account after flows were cancelled, and its fields.
Cancelling(a, c, ac, am, bc) ==
  [a EXCEPT !.cancelled = c, !.active = ac, !.activeMin = am, !.bytesCommitted = bc]

LEMMA CancelledEntry ==
  ASSUME NEW a, a \in Accounts, NEW c, NEW ac, NEW am, NEW bc, {c, ac, am, bc} \subseteq Nat,
         NEW r, r = Cancelling(a, c, ac, am, bc)
  PROVE  /\ r \in Accounts
         /\ r.admitted = a.admitted /\ r.completed = a.completed /\ r.cancelled = c
         /\ r.active = ac /\ r.activeMin = am /\ r.bytesCommitted = bc
         /\ r.bytesCompleted = a.bytesCompleted /\ r.bytesCancelled = a.bytesCancelled
BY DEF Accounts, Cancelling

LEMMA CancelledRight ==
  ASSUME NEW CONSTANT exact, NumberInv, AccountInv(exact), NEW S, S \subseteq DOMAIN flows
  PROVE  /\ CancelledAccounting(S) \in Accounts
         /\ RightFor(CancelledAccounting(S), DOMAIN flows \ S, exact)
         /\ CancelledAccounting(S).cancelled = step.acct.cancelled + Cardinality(S)
<1>1. PICK a \in Accounts : a = step.acct BY DEF AccountInv
<1>2. PICK D, T : D = DOMAIN flows /\ T = DOMAIN flows \ S OBVIOUS
<1>3. PICK x \in Nat, y \in Nat : /\ x = Cardinality(S) /\ y = Cardinality(T)
                                  /\ Cardinality(D) = x + y
  BY <1>2, FiniteFlows
<1>4. /\ MinSum(D) = MinSum(S) + MinSum(T) /\ MinSum(S) \in Nat /\ MinSum(T) \in Nat
      /\ BytesSum(D) = BytesSum(S) + BytesSum(T) /\ BytesSum(S) \in Nat /\ BytesSum(T) \in Nat
  BY <1>2, SumSubset
<1>5. PICK u \in Nat, v \in Nat : u = MinSum(S) /\ v = MinSum(T) /\ MinSum(D) = u + v
  BY <1>4
<1>6. PICK p \in Nat, q \in Nat : p = BytesSum(S) /\ q = BytesSum(T) /\ BytesSum(D) = p + q
  BY <1>4
<1>7. /\ a.active = x + y /\ a.activeMin = u + v
      /\ a.bytesCommitted = a.bytesCompleted + a.bytesCancelled + (p + q)
      /\ exact => a.admitted = a.completed + a.cancelled + (x + y)
  <2>1. RightFor(a, D, exact) BY <1>1, <1>2 DEF AccountInv
  <2> QED BY <1>3, <1>5, <1>6, <2>1 DEF RightFor
<1>8. /\ a.completed \in Nat /\ a.cancelled \in Nat /\ a.bytesCompleted \in Nat
      /\ a.bytesCancelled \in Nat
  BY DEF Accounts
<1>9. PICK c \in Nat, ac \in Nat, am \in Nat, bc \in Nat :
        /\ c = a.cancelled + x /\ ac = y /\ am = v
        /\ bc = a.bytesCompleted + a.bytesCancelled + q
  <2>1. a.cancelled + x \in Nat /\ a.bytesCompleted + a.bytesCancelled + q \in Nat BY <1>8
  <2> QED BY <2>1
<1>10. PICK r : r = CancelledAccounting(S) OBVIOUS
<1>11. r = Cancelling(a, c, ac, am, bc)
  <2>1. Monus(x + y, x) = y /\ Monus(u + v, u) = v BY DEF Monus
  <2>2. Monus(a.bytesCompleted + a.bytesCancelled + (p + q), p) = bc BY <1>8, <1>9 DEF Monus
  <2>3. r = Cancelling(a, a.cancelled + x, Monus(a.active, x), Monus(a.activeMin, u),
                       Monus(a.bytesCommitted, p))
    BY <1>1, <1>3, <1>5, <1>6, <1>10 DEF CancelledAccounting, Cancelling
  <2> QED BY <1>7, <1>9, <2>1, <2>2, <2>3
<1>12. /\ r \in Accounts
       /\ r.admitted = a.admitted /\ r.completed = a.completed /\ r.cancelled = c
       /\ r.active = ac /\ r.activeMin = am /\ r.bytesCommitted = bc
       /\ r.bytesCompleted = a.bytesCompleted /\ r.bytesCancelled = a.bytesCancelled
  <2>1. a \in Accounts /\ {c, ac, am, bc} \subseteq Nat OBVIOUS
  <2> QED BY <1>11, <2>1, CancelledEntry
<1>13. exact => r.admitted = r.completed + r.cancelled + r.active BY <1>7, <1>8, <1>9, <1>12
<1>14. RightFor(r, T, exact) BY <1>3, <1>5, <1>6, <1>9, <1>12, <1>13 DEF RightFor
<1> QED BY <1>1, <1>2, <1>3, <1>9, <1>10, <1>12, <1>14

AccountsRight(exact) == step.acct \in Accounts /\ RightFor(step.acct, DOMAIN flows, exact)

\* An account that is right for what stays live is right after the step.
LEMMA RightNext ==
  ASSUME NEW CONSTANT exact, NumberInv, nextIntent' = nextIntent \/ nextIntent' = nextIntent + 1,
         NEW CONSTANT T, T \subseteq DOMAIN flows, DOMAIN flows' = T,
         \A i \in T : flows'[i] = flows[i],
         step'.acct \in Accounts, RightFor(step'.acct, T, exact)
  PROVE  AccountsRight(exact)'
<1>1. /\ MinSum(DOMAIN flows)' = MinSum(T)' /\ BytesSum(DOMAIN flows)' = BytesSum(T)'
  BY SumsNext
<1>2. MinSum(T)' = MinSum(T) /\ BytesSum(T)' = BytesSum(T) BY SumSame
<1> QED BY <1>1, <1>2 DEF AccountsRight, RightFor

LEMMA NothingRight ==
  ASSUME NumberInv, NEW exact
  PROVE  NoAccounting \in Accounts /\ RightFor(NoAccounting, {}, exact)
BY SumEmpty, FS_EmptySet DEF NoAccounting, Accounts, RightFor

LEMMA KeptRight ==
  ASSUME NEW CONSTANT exact, NumberInv, AccountInv(exact), UNCHANGED flows,
         nextIntent' = nextIntent \/ nextIntent' = nextIntent + 1,
         step'.acct = step.acct \/ (DOMAIN flows = {} /\ step'.acct = NoAccounting)
  PROVE  AccountsRight(exact)'
<1>1. PICK T : T = DOMAIN flows OBVIOUS
<1>2. step'.acct \in Accounts /\ RightFor(step'.acct, T, exact)
  <2>1. CASE step'.acct = step.acct BY <1>1, <2>1 DEF AccountInv
  <2>2. CASE DOMAIN flows = {} /\ step'.acct = NoAccounting BY <1>1, <2>2, NothingRight
  <2> QED BY <2>1, <2>2
<1> QED BY <1>1, <1>2, RightNext

LEMMA CancelledStaysRight ==
  ASSUME NEW CONSTANT exact, NumberInv, AccountInv(exact),
         NEW S, S \subseteq DOMAIN flows, flows' = FlowsWithout(S),
         nextIntent' = nextIntent, step'.acct = CancelledAccounting(S)
  PROVE  AccountsRight(exact)'
<1>1. PICK T : T = DOMAIN flows \ S OBVIOUS
<1>2. DOMAIN flows' = T /\ \A i \in T : flows'[i] = flows[i] BY <1>1 DEF FlowsWithout
<1>3. step'.acct \in Accounts /\ RightFor(step'.acct, T, exact) BY <1>1, CancelledRight
<1> QED BY <1>1, <1>2, <1>3, RightNext

\* An account after a flow was completed, and its fields.
Completing(a, ca, co, bm, bo) ==
  [a EXCEPT !.cancelled = ca, !.completed = co, !.bytesCommitted = bm, !.bytesCompleted = bo]

LEMMA CompletedEntry ==
  ASSUME NEW a, a \in Accounts, NEW ca, NEW co, NEW bm, NEW bo, {ca, co, bm, bo} \subseteq Nat,
         NEW r, r = Completing(a, ca, co, bm, bo)
  PROVE  /\ r \in Accounts
         /\ r.admitted = a.admitted /\ r.completed = co /\ r.cancelled = ca
         /\ r.active = a.active /\ r.activeMin = a.activeMin /\ r.bytesCommitted = bm
         /\ r.bytesCompleted = bo /\ r.bytesCancelled = a.bytesCancelled
BY DEF Accounts, Completing

LEMMA CompletedRight ==
  ASSUME NEW CONSTANT exact, HeldInv, NumberInv, AccountInv(exact),
         NEW t, NEW i, NEW bytes \in Reports, NEW c,
         CompleteFlow(t, i, bytes, c)
  PROVE  AccountsRight(exact)'
<1>1. PICK S, T, a : /\ S = {i} /\ T = DOMAIN flows \ S /\ a = CancelledAccounting(S)
  OBVIOUS
<1>2. /\ S \subseteq DOMAIN flows /\ nextIntent' = nextIntent
      /\ DOMAIN flows' = T /\ \A j \in T : flows'[j] = flows[j]
  BY <1>1 DEF CompleteFlow, FlowsWithout, idVars
<1>3. Cardinality(S) = 1 BY <1>1, FS_Singleton
<1>4. a \in Accounts /\ RightFor(a, T, exact) /\ a.cancelled = step.acct.cancelled + 1
  BY <1>1, <1>2, <1>3, CancelledRight
<1>5. bytes \in Nat BY FabricAssumption DEF FabricAssumption
<1>6. /\ a.completed \in Nat /\ a.bytesCommitted \in Nat /\ a.bytesCompleted \in Nat
      /\ a.bytesCancelled \in Nat /\ a.active \in Nat /\ step.acct.cancelled \in Nat
  BY <1>4 DEF Accounts, AccountInv
<1>7. PICK r : r = Completing(a, step.acct.cancelled, a.completed + 1, a.bytesCommitted + bytes,
                              a.bytesCompleted + bytes)
  OBVIOUS
<1>8. step'.acct = IF c THEN a ELSE r
  BY <1>1, <1>7 DEF CompleteFlow, Completing, HeldInv, StepShape
<1>9. CASE c
  <2>1. step'.acct = a BY <1>8, <1>9
  <2> QED BY <1>1, <1>2, <1>4, <2>1, RightNext
<1>10. CASE ~c
  <2>1. step'.acct = r BY <1>8, <1>10
  <2>2. PICK ca \in Nat, co \in Nat, bm \in Nat, bo \in Nat :
          /\ ca = step.acct.cancelled /\ co = a.completed + 1
          /\ bm = a.bytesCommitted + bytes /\ bo = a.bytesCompleted + bytes
    <3>1. /\ a.completed + 1 \in Nat /\ a.bytesCommitted + bytes \in Nat
          /\ a.bytesCompleted + bytes \in Nat
      BY ONLY <1>5, <1>6
    <3> QED BY ONLY <1>6, <3>1
  <2>3. {ca, co, bm, bo} \subseteq Nat /\ r = Completing(a, ca, co, bm, bo) BY <1>7, <2>2
  <2>4. /\ r \in Accounts
        /\ r.admitted = a.admitted /\ r.completed = co /\ r.cancelled = ca
        /\ r.active = a.active /\ r.activeMin = a.activeMin /\ r.bytesCommitted = bm
        /\ r.bytesCompleted = bo /\ r.bytesCancelled = a.bytesCancelled
    BY <1>4, <2>3, CompletedEntry
  <2>5. BytesSum(T) \in Nat BY <1>1, SumSubset
  <2>6. exact => r.admitted = r.completed + r.cancelled + r.active
    <3>1. exact => a.admitted = a.completed + (step.acct.cancelled + 1) + a.active
      BY <1>4 DEF RightFor
    <3> QED BY <1>6, <2>2, <2>4, <3>1
  <2>7. r.bytesCommitted = r.bytesCompleted + r.bytesCancelled + BytesSum(T)
    <3>1. a.bytesCommitted = a.bytesCompleted + a.bytesCancelled + BytesSum(T)
      BY <1>4 DEF RightFor
    <3> QED BY <1>5, <1>6, <2>2, <2>4, <2>5, <3>1
  <2>8. RightFor(r, T, exact) BY <1>4, <2>4, <2>6, <2>7 DEF RightFor
  <2> QED BY <1>1, <1>2, <2>1, <2>4, <2>8, RightNext
<1> QED BY <1>9, <1>10

\* An account after a flow was admitted, and its fields.
Opening(a, ad, ac, am, bm) ==
  [a EXCEPT !.admitted = ad, !.active = ac, !.activeMin = am, !.bytesCommitted = bm]

LEMMA AdmittedEntry ==
  ASSUME NEW a, a \in Accounts, NEW ad, NEW ac, NEW am, NEW bm, {ad, ac, am, bm} \subseteq Nat,
         NEW r, r = Opening(a, ad, ac, am, bm)
  PROVE  /\ r \in Accounts
         /\ r.admitted = ad /\ r.completed = a.completed /\ r.cancelled = a.cancelled
         /\ r.active = ac /\ r.activeMin = am /\ r.bytesCommitted = bm
         /\ r.bytesCompleted = a.bytesCompleted /\ r.bytesCancelled = a.bytesCancelled
BY DEF Accounts, Opening

LEMMA GrantedRight ==
  ASSUME NEW CONSTANT exact, HeldInv, NumberInv, AccountInv(exact),
         NEW t, NEW p, NEW it \in Intents, FlowGranted(t, p, it)
  PROVE  AccountsRight(exact)'
<1>1. PICK n, V :
        /\ n = nextIntent /\ V = RequestVictims(p, it)
        /\ V \subseteq FlowsOf(it.group) /\ n \notin DOMAIN flows /\ nextIntent' = nextIntent + 1
        /\ DOMAIN flows' = (DOMAIN flows \ V) \cup {n}
        /\ \A i \in DOMAIN flows \ V : flows'[i] = flows[i]
        /\ flows'[n] = Flow(t, it, GrantOf(p, it))
        /\ flows'[n].min = MinRate(p, it) /\ flows'[n].min \in Nat
        /\ flows'[n].bytes = it.bytes /\ flows'[n].bytes \in Nat
        /\ flows'[n].group = it.group /\ it.group \in Groups
  BY GrantDoes
<1>2. PICK T, a : T = DOMAIN flows \ V /\ a = CancelledAccounting(V) OBVIOUS
<1>3. PICK min, size : /\ min = flows'[n].min /\ size = flows'[n].bytes
                        /\ min = MinRate(p, it) /\ size = it.bytes
                        /\ min \in Nat /\ size \in Nat
  BY <1>1
<1>4. V \subseteq DOMAIN flows BY <1>1 DEF FlowsOf
<1>5. a \in Accounts /\ RightFor(a, T, exact) BY <1>2, <1>4, CancelledRight
<1>6. step'.acct = Opening(a, a.admitted + 1, a.active + 1, a.activeMin + min,
                           a.bytesCommitted + size)
  <2>1. PICK x, k : /\ step' = [step EXCEPT !.seen = k, !.acct = x]
                    /\ x = Opening(a, a.admitted + 1, a.active + 1, a.activeMin + min,
                                   a.bytesCommitted + size)
    BY <1>1, <1>2, <1>3 DEF FlowGranted, Admitted, Grant, Opening
  <2>2. step'.acct = x BY <2>1 DEF HeldInv, StepShape
  <2> QED BY <2>1, <2>2
<1>7. /\ a.admitted \in Nat /\ a.active \in Nat /\ a.activeMin \in Nat
      /\ a.bytesCommitted \in Nat /\ a.bytesCompleted \in Nat /\ a.bytesCancelled \in Nat
      /\ a.completed \in Nat /\ a.cancelled \in Nat
  BY <1>5 DEF Accounts
<1>8. PICK ad \in Nat, ac \in Nat, am \in Nat, bm \in Nat :
        /\ ad = a.admitted + 1 /\ ac = a.active + 1 /\ am = a.activeMin + min
        /\ bm = a.bytesCommitted + size
  <2>1. /\ a.admitted + 1 \in Nat /\ a.active + 1 \in Nat /\ a.activeMin + min \in Nat
        /\ a.bytesCommitted + size \in Nat
    BY <1>3, <1>7
  <2> QED BY <2>1
<1>9. PICK r : r = step'.acct OBVIOUS
<1>10. /\ r \in Accounts
       /\ r.admitted = ad /\ r.completed = a.completed /\ r.cancelled = a.cancelled
       /\ r.active = ac /\ r.activeMin = am /\ r.bytesCommitted = bm
       /\ r.bytesCompleted = a.bytesCompleted /\ r.bytesCancelled = a.bytesCancelled
  <2>1. {ad, ac, am, bm} \subseteq Nat /\ r = Opening(a, ad, ac, am, bm)
    BY <1>6, <1>8, <1>9
  <2> QED BY <1>5, <2>1, AdmittedEntry
<1>11. PICK U : U = T \cup {n} OBVIOUS
<1>12. Cardinality(U) = Cardinality(T) + 1
  <2>1. IsFiniteSet(T) BY <1>2, <1>4, FiniteFlows
  <2>2. n \notin T BY <1>1, <1>2
  <2> QED BY <1>11, <2>1, <2>2, FS_AddElement
<1>13. MinSum(U)' = MinSum(T) + min /\ BytesSum(U)' = BytesSum(T) + size
  <2>1. T \subseteq DOMAIN flows /\ \A i \in T : flows'[i] = flows[i] BY <1>1, <1>2
  <2> QED BY <1>1, <1>3, <1>11, <2>1, SumGrown
<1>14. DOMAIN flows' = U BY <1>1, <1>2, <1>11
<1>15. MinSum(DOMAIN flows)' = MinSum(U)' /\ BytesSum(DOMAIN flows)' = BytesSum(U)'
  BY <1>14, SumsNext
<1>16. MinSum(T) \in Nat /\ BytesSum(T) \in Nat BY <1>2, SumSubset
<1>17. r.active = Cardinality(U) /\ r.activeMin = MinSum(U)'
  <2>1. a.active = Cardinality(T) /\ a.activeMin = MinSum(T) BY <1>5 DEF RightFor
  <2> QED BY <1>8, <1>10, <1>12, <1>13, <2>1
<1>18. r.bytesCommitted = r.bytesCompleted + r.bytesCancelled + BytesSum(U)'
  <2>1. a.bytesCommitted = a.bytesCompleted + a.bytesCancelled + BytesSum(T)
    BY <1>5 DEF RightFor
  <2> QED BY <1>3, <1>7, <1>8, <1>10, <1>13, <1>16, <2>1
<1>19. exact => r.admitted = r.completed + r.cancelled + r.active
  <2>1. exact => a.admitted = a.completed + a.cancelled + a.active BY <1>5 DEF RightFor
  <2> QED BY <1>7, <1>8, <1>10, <2>1
<1> QED BY <1>9, <1>10, <1>14, <1>15, <1>17, <1>18, <1>19 DEF AccountsRight, RightFor

LEMMA BurstRight ==
  ASSUME NEW CONSTANT exact, HeldInv, MatchInv, NumberInv, AccountInv(exact),
         NEW t, NEW g, BeginCheckpointBurst(t, g)
  PROVE  AccountsRight(exact)'
<1>1. PICK out, cut, T, a, slack :
        /\ out = Displaced(g) /\ cut = Throttled(g) /\ T = DOMAIN flows \ out
        /\ a = CancelledAccounting(out) /\ slack = Slack(g)
  OBVIOUS
<1>2. /\ out \subseteq FlowsOf(g) /\ cut \subseteq FlowsOf(g) \ out /\ DOMAIN flows' = T
  BY <1>1, BurstDoes
<1>3. out \subseteq DOMAIN flows /\ cut \subseteq T BY <1>1, <1>2 DEF FlowsOf
<1>4. a \in Accounts /\ RightFor(a, T, exact) BY <1>1, <1>3, CancelledRight
<1>5. /\ MinSum(T) = MinSum(T)' + slack /\ {MinSum(T)', slack} \subseteq Nat
      /\ BytesSum(T)' = BytesSum(T)
  BY <1>1, <1>2, <1>3, SumThrottled
<1>6. step'.acct = [a EXCEPT !.activeMin = Monus(@, slack)]
  <2>1. PICK x, b : /\ step' = [step EXCEPT !.burst = b, !.acct = x]
                    /\ x = [a EXCEPT !.activeMin = Monus(@, slack)]
    BY <1>1 DEF BeginCheckpointBurst, Slack
  <2>2. step'.acct = x BY <2>1 DEF HeldInv, StepShape
  <2> QED BY <2>1, <2>2
<1>7. PICK x \in Nat : x = MinSum(T)' BY <1>5
<1>8. Monus(a.activeMin, slack) = x
  <2>1. a.activeMin = x + slack /\ slack \in Nat BY <1>4, <1>5, <1>7 DEF RightFor
  <2> QED BY <2>1 DEF Monus
<1>9. step'.acct = [a EXCEPT !.activeMin = x] BY <1>6, <1>8
<1>10. PICK r : r = step'.acct OBVIOUS
<1>11. /\ r \in Accounts
       /\ r.admitted = a.admitted /\ r.completed = a.completed /\ r.cancelled = a.cancelled
       /\ r.active = a.active /\ r.activeMin = x /\ r.bytesCommitted = a.bytesCommitted
       /\ r.bytesCompleted = a.bytesCompleted /\ r.bytesCancelled = a.bytesCancelled
  BY <1>4, <1>9, <1>10 DEF Accounts
<1>12. MinSum(DOMAIN flows)' = MinSum(T)' /\ BytesSum(DOMAIN flows)' = BytesSum(T)'
  BY <1>2, SumsNext
<1> QED BY <1>2, <1>4, <1>5, <1>7, <1>10, <1>11, <1>12 DEF AccountsRight, RightFor

\* push_history keeps reports it was given.
LEMMA PushedKeeps ==
  ASSUME HistoryInv, NEW r
  PROVE  \A k \in DOMAIN Pushed(r) :
           Pushed(r)[k] = r \/ \E j \in DOMAIN history : Pushed(r)[k] = history[j]
<1>1. PICK R : history \in Seq(R) BY DEF HistoryInv, Ordered
<1>2. PICK h : h = Append(history, r) OBVIOUS
<1>3. history \in Seq(R \cup {r}) BY <1>1
<1>4. PICK Q : Q = R \cup {r} OBVIOUS
<1>5. h \in Seq(Q) /\ Len(h) = Len(history) + 1 /\ Len(history) \in Nat
      /\ h[Len(history) + 1] = r /\ \A k \in 1 .. Len(history) : h[k] = history[k]
      /\ DOMAIN history = 1 .. Len(history)
  BY <1>1, <1>2, <1>3, <1>4
<1>6. \A k \in 1 .. Len(h) : h[k] = r \/ \E j \in DOMAIN history : h[k] = history[j]
  <2> TAKE k \in 1 .. Len(h)
  <2>1. k \in 1 .. Len(history) \/ k = Len(history) + 1 BY <1>5
  <2> QED BY <1>5, <2>1
<1>7. PICK b : b = MaxOf2(1, Contract.historySteps) OBVIOUS
<1>8. b \in Nat \ {0} BY <1>7, FabricAssumption DEF FabricAssumption, MaxOf2
<1>9. Pushed(r) = IF Len(h) > b THEN SubSeq(h, Len(h) - b + 1, Len(h)) ELSE h
  BY <1>2, <1>7 DEF Pushed
<1>10. CASE Len(h) > b
  <2>1. PICK d \in Nat, n \in Nat : d = Len(h) - b /\ n = Len(h) /\ d < n
    <3>1. PICK m \in Nat : m = Len(h) /\ m > b BY ONLY <1>5, <1>10
    <3>2. m - b \in Nat /\ m - b < m BY ONLY <1>8, <3>1
    <3> QED BY ONLY <3>1, <3>2
  <2>2. PICK s : s = SubSeq(h, d + 1, n) OBVIOUS
  <2>3. DOMAIN s = 1 .. n - d /\ \A k \in 1 .. n - d : s[k] = h[d + k]
    BY <1>5, <2>1, <2>2
  <2>4. \A k \in 1 .. n - d : d + k \in 1 .. Len(h) BY <2>1
  <2>5. Pushed(r) = s BY <1>9, <1>10, <2>1, <2>2
  <2> QED BY <1>6, <2>3, <2>4, <2>5
<1>11. CASE ~(Len(h) > b)
  <2>1. Pushed(r) = h /\ DOMAIN h = 1 .. Len(h) BY <1>5, <1>9, <1>11
  <2> QED BY <1>6, <2>1
<1> QED BY <1>10, <1>11

\* The report of a step that closes is balanced: no flow is left.
LEMMA ClosedReports ==
  ASSUME NEW CONSTANT exact, HistoryInv, NumberInv, AccountInv(exact), CloseStep
  PROVE  \A k \in DOMAIN history' : ReportRight(history'[k], exact)
<1>1. PICK a : a = CancelledAccounting(DOMAIN flows) OBVIOUS
<1>2. PICK r : r = [step |-> step.id, acct |-> a, phases |-> CancelledPhases(DOMAIN flows)]
  OBVIOUS
<1>3. RightFor(a, {}, exact) /\ a \in Accounts
  <2>1. DOMAIN flows \ DOMAIN flows = {} OBVIOUS
  <2> QED BY <1>1, <2>1, CancelledRight
<1>4. Cardinality({}) = 0 BY FS_EmptySet
<1>5. ReportRight(r, exact)
  <2>1. /\ a.completed \in Nat /\ a.cancelled \in Nat
        /\ a.bytesCompleted \in Nat /\ a.bytesCancelled \in Nat
    BY <1>3 DEF Accounts
  <2>2. /\ a.active = 0 /\ a.activeMin = 0
        /\ a.bytesCommitted = a.bytesCompleted + a.bytesCancelled
        /\ exact => a.admitted = a.completed + a.cancelled
    BY <1>3, <1>4, <2>1, SumEmpty DEF RightFor
  <2>3. r.acct = a BY <1>2
  <2> QED BY <2>2, <2>3 DEF ReportRight, Balanced
<1>6. history' = Pushed(r) BY <1>1, <1>2 DEF CloseStep
<1> QED BY <1>5, <1>6, PushedKeeps DEF AccountInv

LEMMA NextAccounts ==
  ASSUME NEW CONSTANT exact, HeldInv, MatchInv, NumberInv, HistoryInv, AccountInv(exact), BooksMove
  PROVE  AccountInv(exact)'
<1> DEFINE Kept == history' = history /\ AccountsRight(exact)'
<1>0. Kept => AccountInv(exact)' BY DEF AccountInv, AccountsRight
<1>1. ASSUME BooksKept PROVE Kept BY <1>1, KeptRight DEF BooksKept
<1>2. ASSUME NEW g, GroupOpened(g) PROVE Kept BY <1>2, KeptRight DEF GroupOpened
<1>3. ASSUME NEW S \in SUBSET DOMAIN flows, FlowsCancelled(S) PROVE Kept
  BY <1>3, CancelledStaysRight DEF FlowsCancelled
<1>4. ASSUME StepClosed PROVE AccountInv(exact)'
  <2>1. DOMAIN flows' = {} /\ step'.acct = NoAccounting /\ nextIntent' = nextIntent
    BY <1>4 DEF StepClosed, CloseStep, NoStep
  <2>2. step'.acct \in Accounts /\ RightFor(step'.acct, {}, exact) BY <2>1, NothingRight
  <2>3. AccountsRight(exact)' BY <2>1, <2>2, RightNext
  <2>4. \A k \in DOMAIN history' : ReportRight(history'[k], exact)
    BY <1>4, ClosedReports DEF StepClosed
  <2> QED BY <2>3, <2>4 DEF AccountInv, AccountsRight
<1>5. ASSUME NEW t, NEW i, NEW bytes \in Reports, NEW c, CompleteFlow(t, i, bytes, c) PROVE Kept
  BY <1>5, CompletedRight DEF CompleteFlow
<1>6. ASSUME NEW t, NEW p, NEW it \in Intents, FlowGranted(t, p, it) PROVE Kept
  BY <1>6, GrantedRight DEF FlowGranted
<1>7. ASSUME NEW t, NEW g, BeginCheckpointBurst(t, g) PROVE Kept
  BY <1>7, BurstRight DEF BeginCheckpointBurst
<1> HIDE DEF Kept
<1> QED BY <1>0, <1>1, <1>2, <1>3, <1>4, <1>5, <1>6, <1>7 DEF BooksMove

LEMMA BooksInvariant == FabricSpec => []AccountInv(TRUE)
<1>1. Init => AccountInv(TRUE)
  <2> SUFFICES ASSUME Init PROVE AccountInv(TRUE)
    OBVIOUS
  <2>1. DOMAIN flows = {} /\ nextIntent = 1 /\ step.acct = NoAccounting /\ DOMAIN history = {}
    BY DEF Init, NoStep
  <2>2. SumTo([i \in Ids |-> IF i \in {} THEN flows[i].min ELSE 0], nextIntent - 1) = 0
    BY <2>1, SumToZero
  <2>3. SumTo([i \in Ids |-> IF i \in {} THEN flows[i].bytes ELSE 0], nextIntent - 1) = 0
    BY <2>1, SumToZero
  <2>4. MinSum({}) = 0 /\ BytesSum({}) = 0 BY <2>2, <2>3 DEF MinSum, BytesSum
  <2>5. step.acct \in Accounts BY <2>1 DEF NoAccounting, Accounts
  <2>6. RightFor(step.acct, {}, TRUE) BY <2>1, <2>4, FS_EmptySet DEF NoAccounting, RightFor
  <2> QED BY <2>1, <2>5, <2>6 DEF AccountInv
<1>2. (HeldInv /\ MatchInv /\ NumberInv) /\ HistoryInv /\ AccountInv(TRUE) /\ [Next]_vars =>
        AccountInv(TRUE)'
  BY NextMoves, NextAccounts
<1> QED BY <1>1, <1>2, NumberInvariant, HistoryInvariant, PTL DEF FabricSpec

(***************************************************************************)
(* The accounting of a step balances in every reachable state, and so does *)
(* that of every report kept (request_traffic, close_flow and its callers, *)
(* end_step; StepAccounting::balanced).                                    *)
(***************************************************************************)
THEOREM BooksBalance == FabricSpec => []AccountsBalance
<1>1. AccountInv(TRUE) => AccountsBalance BY DEF AccountInv, AccountsBalance, RightFor, ReportRight
<1> QED BY <1>1, BooksInvariant, PTL

PhaseBooks == [committed : Nat, completed : Nat]

CompletedSum(acct, n) ==
  SumTo([p \in 1 .. n |-> IF p \in DOMAIN acct THEN acct[p].completed ELSE 0], n)

\* One entry more weighs in by what it is more.
LEMMA SumToBumped ==
  ASSUME NEW n \in Nat, NEW u, NEW v, NEW p \in 1 .. n, NEW x \in Nat,
         \A k \in 1 .. n : v[k] \in Nat, u[p] = v[p] + x,
         \A k \in 1 .. n : k # p => u[k] = v[k]
  PROVE  SumTo(u, n) = SumTo(v, n) + x
<1> DEFINE S == {m \in Nat : m <= n => SumTo(u, m) = SumTo(v, m) + IF p <= m THEN x ELSE 0}
<1>1. 0 \in S BY SumToZero
<1>2. ASSUME NEW m \in Nat, m \in S PROVE m + 1 \in S
  <2> SUFFICES ASSUME m + 1 <= n
               PROVE  SumTo(u, m + 1) = SumTo(v, m + 1) + IF p <= m + 1 THEN x ELSE 0
    OBVIOUS
  <2>1. SumTo(u, m) = SumTo(v, m) + IF p <= m THEN x ELSE 0 BY <1>2
  <2>2. SumTo(v, m) \in Nat BY SumToNat
  <2>3. SumTo(u, m + 1) = SumTo(u, m) + u[m + 1] /\ SumTo(v, m + 1) = SumTo(v, m) + v[m + 1]
    BY SumToNext
  <2>4. v[m + 1] \in Nat /\ u[m + 1] = IF m + 1 = p THEN v[m + 1] + x ELSE v[m + 1]
    OBVIOUS
  <2> QED BY <2>1, <2>2, <2>3, <2>4
<1> HIDE DEF S
<1>3. n \in S BY <1>1, <1>2, Induction
<1> QED BY <1>3 DEF S

LEMMA CompletedAgree ==
  ASSUME NEW n \in Nat, NEW a, NEW b, DOMAIN a = DOMAIN b,
         \A p \in DOMAIN a : a[p].completed = b[p].completed
  PROVE  CompletedSum(a, n) = CompletedSum(b, n)
<1> DEFINE u == [p \in 1 .. n |-> IF p \in DOMAIN a THEN a[p].completed ELSE 0]
           v == [p \in 1 .. n |-> IF p \in DOMAIN b THEN b[p].completed ELSE 0]
<1>1. u = v OBVIOUS
<1> QED BY <1>1 DEF CompletedSum

LEMMA CompletedNone ==
  ASSUME NEW n \in Nat, NEW a, DOMAIN a = {}
  PROVE  CompletedSum(a, n) = 0
<1> DEFINE u == [p \in 1 .. n |-> IF p \in DOMAIN a THEN a[p].completed ELSE 0]
<1>1. PICK f : f = [p \in 1 .. n |-> 0] OBVIOUS
<1>2. u = Part(n, {}, f) BY DEF Part
<1>3. CompletedSum(a, n) = Total(n, {}, f) BY <1>2 DEF CompletedSum, Total
<1> QED BY <1>3, TotalEmpty

LEMMA CompletedMore ==
  ASSUME NEW n \in Nat, NEW a, NEW b, NEW p \in 1 .. n, NEW x \in Nat,
         DOMAIN b = DOMAIN a, p \in DOMAIN a, \A q \in DOMAIN a : a[q].completed \in Nat,
         b[p].completed = a[p].completed + x,
         \A q \in DOMAIN a \ {p} : b[q].completed = a[q].completed
  PROVE  CompletedSum(b, n) = CompletedSum(a, n) + x
<1>1. PICK u, v : /\ u = [q \in 1 .. n |-> IF q \in DOMAIN b THEN b[q].completed ELSE 0]
                 /\ v = [q \in 1 .. n |-> IF q \in DOMAIN a THEN a[q].completed ELSE 0]
  OBVIOUS
<1>2. /\ \A k \in 1 .. n : v[k] \in Nat
      /\ u[p] = v[p] + x /\ \A k \in 1 .. n : k # p => u[k] = v[k]
  BY <1>1
<1>3. SumTo(u, n) = SumTo(v, n) + x BY <1>2, SumToBumped
<1> QED BY <1>1, <1>3 DEF CompletedSum

LEMMA CompletedPut ==
  ASSUME NEW n \in Nat, NEW a, n + 1 \notin DOMAIN a,
         \A q \in DOMAIN a : a[q].completed \in Nat
  PROVE  CompletedSum(Put(a, n + 1, NoPhaseAccounting), n + 1) = CompletedSum(a, n)
<1>1. PICK b : b = Put(a, n + 1, NoPhaseAccounting) OBVIOUS
<1>2. PICK u, v : /\ u = [q \in 1 .. n + 1 |-> IF q \in DOMAIN b THEN b[q].completed ELSE 0]
                 /\ v = [q \in 1 .. n |-> IF q \in DOMAIN a THEN a[q].completed ELSE 0]
  OBVIOUS
<1>3. \A k \in 1 .. n : u[k] = v[k] /\ v[k] \in Nat BY <1>1, <1>2 DEF Put
<1>4. u[n + 1] = 0 BY <1>1, <1>2 DEF Put, NoPhaseAccounting
<1>5. SumTo(u, n + 1) = SumTo(u, n) + 0 BY <1>4, SumToNext
<1>6. SumTo(u, n) = SumTo(v, n) BY <1>3, SumToAgree
<1>7. SumTo(v, n) \in Nat BY <1>3, SumToNat
<1> QED BY <1>1, <1>2, <1>5, <1>6, <1>7 DEF CompletedSum
-----------------------------------------------------------------------------
(* The books of each phase.                                                *)

OfPhase(p, S) == {i \in S : flows[i].phase = p}

\* The books acct are right with the flows of S live.
PhasesRight(acct, S) ==
  \A p \in DOMAIN acct :
    /\ acct[p] \in PhaseBooks
    /\ acct[p].committed = acct[p].completed + BytesSum(OfPhase(p, S))

SummariesRight(r) ==
  \A p \in DOMAIN r.phases :
    r.phases[p] \in PhaseBooks /\ r.phases[p].committed = r.phases[p].completed

PhaseInv ==
  /\ nextPhase # 0 /\ 0 \notin DOMAIN step.phases /\ DOMAIN phaseAcct = DOMAIN step.phases
  /\ PhasesRight(phaseAcct, DOMAIN flows)
  /\ step.acct.bytesCompleted = CompletedSum(phaseAcct, nextPhase - 1)
  /\ \A k \in DOMAIN history : SummariesRight(history[k])

\* What the steps of the invariant rest on.
PhaseHyp == HeldInv /\ MatchInv /\ NumberInv /\ step.acct \in Accounts /\ PhaseInv

LEMMA PhaseNumbers ==
  ASSUME MatchInv, PhaseInv
  PROVE  nextPhase - 1 \in Nat /\ \A p \in DOMAIN phaseAcct : p \in 1 .. nextPhase - 1
BY DEF MatchInv, PhaseInv

LEMMA CancelledInPhases ==
  ASSUME NumberInv, PhasesRight(phaseAcct, DOMAIN flows), NEW S, S \subseteq DOMAIN flows
  PROVE  /\ DOMAIN CancelledPhases(S) = DOMAIN phaseAcct
         /\ PhasesRight(CancelledPhases(S), DOMAIN flows \ S)
         /\ \A p \in DOMAIN phaseAcct :
              CancelledPhases(S)[p].completed = phaseAcct[p].completed
<1>1. DOMAIN CancelledPhases(S) = DOMAIN phaseAcct BY DEF CancelledPhases
<1>2. ASSUME NEW p \in DOMAIN phaseAcct
      PROVE  /\ CancelledPhases(S)[p] \in PhaseBooks
             /\ CancelledPhases(S)[p].completed = phaseAcct[p].completed
             /\ CancelledPhases(S)[p].committed =
                  phaseAcct[p].completed + BytesSum(OfPhase(p, DOMAIN flows \ S))
  <2>1. PICK A, B : A = OfPhase(p, DOMAIN flows) /\ B = OfPhase(p, S) OBVIOUS
  <2>2. A \subseteq DOMAIN flows /\ B \subseteq A /\ A \ B = OfPhase(p, DOMAIN flows \ S)
    BY <2>1 DEF OfPhase
  <2>3. /\ BytesSum(A) = BytesSum(B) + BytesSum(A \ B)
        /\ BytesSum(B) \in Nat /\ BytesSum(A \ B) \in Nat
    BY <2>2, SumSubset
  <2>4. PICK x \in Nat, y \in Nat : x = BytesSum(B) /\ y = BytesSum(A \ B) BY <2>3
  <2>5. PICK b : b = phaseAcct[p] OBVIOUS
  <2>6. b \in PhaseBooks /\ b.committed = b.completed + (x + y)
    BY <2>1, <2>3, <2>4, <2>5 DEF PhasesRight
  <2>7. CancelledPhases(S)[p] = [b EXCEPT !.committed = Monus(b.committed, x)]
    BY <2>1, <2>4, <2>5 DEF CancelledPhases, OfPhase
  <2>8. Monus(b.committed, x) = b.completed + y BY <2>6 DEF Monus, PhaseBooks
  <2>9. PICK m \in Nat : m = b.completed + y BY <2>6 DEF PhaseBooks
  <2>10. CancelledPhases(S)[p] = [b EXCEPT !.committed = m] BY <2>7, <2>8, <2>9
  <2>11. /\ [b EXCEPT !.committed = m] \in PhaseBooks
         /\ [b EXCEPT !.committed = m].completed = b.completed
         /\ [b EXCEPT !.committed = m].committed = m
    BY <2>6 DEF PhaseBooks
  <2> QED BY <2>2, <2>4, <2>5, <2>9, <2>10, <2>11
<1> QED BY <1>1, <1>2 DEF PhasesRight

\* Flows that keep their bytes weigh as much after a step.
LEMMA BytesSame ==
  ASSUME NumberInv, nextIntent' = nextIntent \/ nextIntent' = nextIntent + 1,
         NEW CONSTANT S, S \subseteq DOMAIN flows, \A i \in S : flows'[i].bytes = flows[i].bytes
  PROVE  BytesSum(S)' = BytesSum(S)
<1>1. PICK n \in Nat : n = nextIntent - 1 BY DEF NumberInv
<1>2. PICK m : m = nextIntent' - 1 OBVIOUS
<1>3. m \in Nat /\ (m = n \/ m = n + 1) BY <1>1, <1>2 DEF NumberInv
<1>4. PICK h, h1 : h = Sizes(flows, n) /\ h1 = Sizes(flows', m) OBVIOUS
<1>5. \A i \in S : i \in 1 .. n BY <1>1 DEF NumberInv
<1>6. \A i \in S \cap (1 .. n) : h1[i] = h[i] BY <1>3, <1>4 DEF Sizes
<1>7. Total(n, S, h1) = Total(n, S, h) BY <1>6, TotalSame
<1>8. Total(m, S, h1) = Total(n, S, h1)
  <2>1. CASE m = n BY <2>1
  <2>2. CASE m = n + 1
    <3>1. n + 1 \notin S BY <1>5
    <3>2. \A i \in S \cap (1 .. n) : h1[i] \in Nat
      BY <1>4, <1>6 DEF Sizes, NumberInv, FlowNumbers
    <3>3. Total(n, S, h1) \in Nat BY <3>2, TotalNat
    <3>4. Total(n + 1, S, h1) = Total(n, S, h1) + 0 BY <3>1, TotalNext
    <3> QED BY <2>2, <3>3, <3>4
  <2> QED BY <1>3, <2>1, <2>2
<1>9. BytesSum(S) = Total(n, S, h) BY <1>1, <1>4, SumsAreTotals
<1>10. BytesSum(S)' = Total(m, S, h1) BY <1>2, <1>4, SumsAreTotalsNext
<1> QED BY <1>7, <1>8, <1>9, <1>10

LEMMA PhaseSumNext ==
  ASSUME NEW CONSTANT p, NEW CONSTANT U, OfPhase(p, DOMAIN flows)' = U
  PROVE  BytesSum(OfPhase(p, DOMAIN flows))' = BytesSum(U)'
BY DEF OfPhase, BytesSum, Ids

\* Books that are right for what stays live are right after the step.
LEMMA PhasesRightNext ==
  ASSUME NumberInv, nextIntent' = nextIntent \/ nextIntent' = nextIntent + 1,
         NEW CONSTANT T, T \subseteq DOMAIN flows, DOMAIN flows' = T,
         \A i \in T : flows'[i].bytes = flows[i].bytes /\ flows'[i].phase = flows[i].phase,
         PhasesRight(phaseAcct', T)
  PROVE  PhasesRight(phaseAcct, DOMAIN flows)'
<1>1. ASSUME NEW CONSTANT p, p \in DOMAIN phaseAcct'
      PROVE  BytesSum(OfPhase(p, DOMAIN flows))' = BytesSum(OfPhase(p, T))
  <2>1. PICK U : U = OfPhase(p, T) OBVIOUS
  <2>2. U \subseteq T BY <2>1 DEF OfPhase
  <2>3. OfPhase(p, DOMAIN flows)' = U BY <2>1 DEF OfPhase
  <2>4. BytesSum(U)' = BytesSum(U) BY <2>2, BytesSame
  <2> QED BY <2>1, <2>3, <2>4, PhaseSumNext
<1> QED BY <1>1 DEF PhasesRight
\* A step that cancels the flows of S, or none, and changes no phase otherwise.
PhasesLeft(S) ==
  /\ S \subseteq DOMAIN flows /\ DOMAIN flows' = DOMAIN flows \ S
  /\ \A i \in DOMAIN flows' : flows'[i].bytes = flows[i].bytes /\ flows'[i].phase = flows[i].phase
  /\ phaseAcct' = CancelledPhases(S) \/ (S = {} /\ phaseAcct' = phaseAcct)
  /\ DOMAIN step'.phases = DOMAIN step.phases
  /\ step'.acct.bytesCompleted = step.acct.bytesCompleted
  /\ nextIntent' = nextIntent \/ nextIntent' = nextIntent + 1
  /\ UNCHANGED <<history, nextPhase>>

LEMMA LeftPhases ==
  ASSUME PhaseHyp, NEW S, PhasesLeft(S)
  PROVE  PhaseInv'
<1>1. PICK T : T = DOMAIN flows \ S OBVIOUS
<1>2. /\ DOMAIN phaseAcct' = DOMAIN phaseAcct /\ PhasesRight(phaseAcct', T)
      /\ \A p \in DOMAIN phaseAcct : phaseAcct'[p].completed = phaseAcct[p].completed
  <2>1. PhasesRight(phaseAcct, DOMAIN flows) BY DEF PhaseHyp, PhaseInv
  <2>2. CASE phaseAcct' = CancelledPhases(S)
    BY <1>1, <2>1, <2>2, CancelledInPhases DEF PhaseHyp, PhasesLeft
  <2>3. CASE S = {} /\ phaseAcct' = phaseAcct
    <3>1. T = DOMAIN flows BY <1>1, <2>3
    <3> QED BY <2>1, <2>3, <3>1
  <2> QED BY <2>2, <2>3 DEF PhasesLeft
<1>3. PhasesRight(phaseAcct, DOMAIN flows)'
  <2>1. /\ T \subseteq DOMAIN flows /\ DOMAIN flows' = T
        /\ \A i \in T : flows'[i].bytes = flows[i].bytes /\ flows'[i].phase = flows[i].phase
    BY <1>1 DEF PhasesLeft
  <2> QED BY <1>2, <2>1, PhasesRightNext DEF PhaseHyp, PhasesLeft
<1>4. CompletedSum(phaseAcct', nextPhase - 1) = CompletedSum(phaseAcct, nextPhase - 1)
  BY <1>2, PhaseNumbers, CompletedAgree DEF PhaseHyp
<1> QED BY <1>2, <1>3, <1>4 DEF PhaseHyp, PhaseInv, PhasesLeft

\* begin_phase.
LEMMA OpenedPhases ==
  ASSUME PhaseHyp, NEW t, NEW cls, NEW g, BeginPhase(t, cls, g)
  PROVE  PhaseInv'
<1>1. PICK n \in Nat : n = nextPhase - 1 BY PhaseNumbers DEF PhaseHyp
<1>2. nextPhase = n + 1 /\ n + 1 \notin DOMAIN phaseAcct
  BY <1>1, PhaseNumbers DEF PhaseHyp, MatchInv
<1>3. phaseAcct' = Put(phaseAcct, n + 1, NoPhaseAccounting) BY <1>2 DEF BeginPhase
<1>4. DOMAIN phaseAcct' = DOMAIN phaseAcct \cup {n + 1} BY <1>3 DEF Put
<1>5. step'.phases = Put(step.phases, nextPhase, [cls |-> cls, group |-> g, open |-> TRUE])
      /\ step'.acct = step.acct
  BY DEF BeginPhase, PhaseHyp, HeldInv, StepShape
<1>6. DOMAIN step'.phases = DOMAIN step.phases \cup {n + 1} BY <1>2, <1>5 DEF Put
<1>7. PICK T : T = DOMAIN flows OBVIOUS
<1>8. PhasesRight(phaseAcct', T)
  <2>1. ASSUME NEW p \in DOMAIN phaseAcct
        PROVE  /\ phaseAcct'[p] \in PhaseBooks
               /\ phaseAcct'[p].committed =
                    phaseAcct'[p].completed + BytesSum(OfPhase(p, T))
    <3>1. phaseAcct'[p] = phaseAcct[p] BY <1>2, <1>3, <2>1 DEF Put
    <3> QED BY <1>7, <3>1 DEF PhaseHyp, PhaseInv, PhasesRight
  <2>2. phaseAcct'[n + 1] = NoPhaseAccounting BY <1>3 DEF Put
  <2>3. OfPhase(n + 1, T) = {}
    <3>1. \A i \in T : flows[i].phase \in DOMAIN step.phases
      BY <1>7 DEF PhaseHyp, HeldInv, OpenStepIsHeld
    <3> QED BY <1>2, <3>1 DEF OfPhase, PhaseHyp, PhaseInv
  <2>4. BytesSum(OfPhase(n + 1, T)) = 0 BY <2>3, SumEmpty DEF PhaseHyp
  <2> QED BY <1>4, <2>1, <2>2, <2>4 DEF PhasesRight, NoPhaseAccounting, PhaseBooks
<1>9. PhasesRight(phaseAcct, DOMAIN flows)'
  <2>1. flows' = flows /\ nextIntent' = nextIntent BY DEF BeginPhase
  <2> QED BY <1>7, <1>8, <2>1, PhasesRightNext DEF PhaseHyp
<1>10. CompletedSum(phaseAcct', n + 1) = CompletedSum(phaseAcct, n)
  <2>1. \A q \in DOMAIN phaseAcct : phaseAcct[q].completed \in Nat
    BY DEF PhaseHyp, PhaseInv, PhasesRight, PhaseBooks
  <2> QED BY <1>2, <1>3, <2>1, CompletedPut
<1>11. nextPhase' - 1 = n + 1 /\ nextPhase' # 0 BY <1>1, <1>2 DEF BeginPhase
<1> QED BY <1>1, <1>4, <1>5, <1>6, <1>9, <1>10, <1>11
        DEF PhaseHyp, PhaseInv, BeginPhase, recordVars

\* No phase is left: begin_step, or a step that is closed.
LEMMA ClearedPhases ==
  ASSUME PhaseHyp, DOMAIN flows' = {}, phaseAcct' = <<>>, DOMAIN step'.phases = {},
         step'.acct = NoAccounting, nextPhase' = nextPhase,
         \A k \in DOMAIN history' : SummariesRight(history'[k])
  PROVE  PhaseInv'
<1>1. DOMAIN phaseAcct' = {} OBVIOUS
<1>2. CompletedSum(phaseAcct', nextPhase - 1) = 0
  BY <1>1, PhaseNumbers, CompletedNone DEF PhaseHyp
<1>3. PhasesRight(phaseAcct, DOMAIN flows)' BY <1>1 DEF PhasesRight
<1> QED BY <1>1, <1>2, <1>3 DEF PhaseHyp, PhaseInv, NoAccounting

\* The report that is pushed has nothing outstanding.
LEMMA ClosedPhases ==
  ASSUME PhaseHyp, HistoryInv, CloseStep, nextPhase' = nextPhase
  PROVE  PhaseInv'
<1>1. PICK r : r = [step |-> step.id, acct |-> CancelledAccounting(DOMAIN flows),
                    phases |-> CancelledPhases(DOMAIN flows)]
  OBVIOUS
<1>2. SummariesRight(r)
  <2>1. PICK b : b = CancelledPhases(DOMAIN flows) OBVIOUS
  <2>2. PhasesRight(b, DOMAIN flows \ DOMAIN flows)
    BY <2>1, CancelledInPhases DEF PhaseHyp, PhaseInv
  <2>3. \A p : OfPhase(p, DOMAIN flows \ DOMAIN flows) = {} BY DEF OfPhase
  <2>4. BytesSum({}) = 0 BY SumEmpty DEF PhaseHyp
  <2>5. \A p \in DOMAIN b : b[p] \in PhaseBooks /\ b[p].committed = b[p].completed + 0
    BY <2>2, <2>3, <2>4 DEF PhasesRight
  <2>6. r.phases = b BY <1>1, <2>1
  <2> QED BY <2>5, <2>6 DEF SummariesRight, PhaseBooks
<1>3. history' = Pushed(r) BY <1>1 DEF CloseStep
<1>4. \A k \in DOMAIN history' : SummariesRight(history'[k])
  BY <1>2, <1>3, PushedKeeps DEF PhaseHyp, PhaseInv
<1>5. /\ DOMAIN flows' = {} /\ phaseAcct' = <<>> /\ DOMAIN step'.phases = {}
      /\ step'.acct = NoAccounting
  BY DEF CloseStep, NoStep
<1> QED BY <1>4, <1>5, ClearedPhases
LEMMA CancelledCompleted ==
  ASSUME step.acct \in Accounts, NEW S
  PROVE  CancelledAccounting(S).bytesCompleted = step.acct.bytesCompleted
BY DEF Accounts, CancelledAccounting

LEMMA CompletedPhases ==
  ASSUME PhaseHyp, NEW t, NEW i, NEW bytes \in Reports, NEW c, CompleteFlow(t, i, bytes, c)
  PROVE  PhaseInv'
<1>1. PICK S, T, a, p : /\ S = {i} /\ T = DOMAIN flows \ S /\ a = CancelledPhases(S)
                        /\ p = flows[i].phase
  OBVIOUS
<1>2. /\ S \subseteq DOMAIN flows /\ nextIntent' = nextIntent /\ nextPhase' = nextPhase
      /\ DOMAIN flows' = T /\ \A j \in T : flows'[j] = flows[j]
      /\ history' = history
  BY <1>1 DEF CompleteFlow, FlowsWithout, idVars
<1>3. /\ DOMAIN a = DOMAIN phaseAcct /\ PhasesRight(a, T) /\ p \in DOMAIN phaseAcct
      /\ \A q \in DOMAIN phaseAcct : a[q].completed = phaseAcct[q].completed
  <2>1. p \in DOMAIN phaseAcct
    BY <1>1, <1>2 DEF PhaseHyp, PhaseInv, HeldInv, OpenStepIsHeld
  <2> QED BY <1>1, <1>2, <2>1, CancelledInPhases DEF PhaseHyp, PhaseInv
<1>4. PICK b, k : /\ b = step'.acct /\ k = CancelledAccounting(S)
                 /\ step'.phases = step.phases
                 /\ b = IF c THEN k
                        ELSE [k EXCEPT !.cancelled = step.acct.cancelled, !.completed = @ + 1,
                                !.bytesCommitted = @ + bytes, !.bytesCompleted = @ + bytes]
  BY <1>1 DEF CompleteFlow, PhaseHyp, HeldInv, StepShape
<1>5. k.bytesCompleted = step.acct.bytesCompleted BY <1>4, CancelledCompleted DEF PhaseHyp
<1>6. CASE c
  <2>1. phaseAcct' = CancelledPhases(S) BY <1>1, <1>6 DEF CompleteFlow
  <2>2. PhasesLeft(S) BY <1>1, <1>2, <1>4, <1>5, <1>6, <2>1 DEF PhasesLeft
  <2> QED BY <2>2, LeftPhases
<1>7. CASE ~c
  <2>1. bytes \in Nat BY FabricAssumption DEF FabricAssumption
  <2>2. phaseAcct' = [a EXCEPT ![p].committed = @ + bytes, ![p].completed = @ + bytes]
    BY <1>1, <1>7 DEF CompleteFlow
  <2>3. PICK e : e = a[p] OBVIOUS
  <2>4. e \in PhaseBooks /\ e.committed = e.completed + BytesSum(OfPhase(p, T))
    BY <1>3, <2>3 DEF PhasesRight
  <2>5. PICK f : f = [e EXCEPT !.committed = @ + bytes, !.completed = @ + bytes] OBVIOUS
  <2>6. /\ f \in PhaseBooks /\ f.committed = e.committed + bytes
        /\ f.completed = e.completed + bytes
    <3>1. e = [committed |-> e.committed, completed |-> e.completed]
          /\ e.committed \in Nat /\ e.completed \in Nat
      BY <2>4 DEF PhaseBooks
    <3>2. PICK x \in Nat, y \in Nat : x = e.committed + bytes /\ y = e.completed + bytes
      BY <2>1, <3>1
    <3>3. f = [committed |-> x, completed |-> y] BY <2>5, <3>1, <3>2
    <3> QED BY <3>2, <3>3 DEF PhaseBooks
  <2>7. phaseAcct' = [a EXCEPT ![p] = f] BY <1>3, <2>2, <2>3, <2>5
  <2>8. /\ DOMAIN phaseAcct' = DOMAIN a /\ phaseAcct'[p] = f
        /\ \A q \in DOMAIN a \ {p} : phaseAcct'[q] = a[q]
    BY <1>3, <2>7
  <2>9. PhasesRight(phaseAcct', T)
    <3>1. BytesSum(OfPhase(p, T)) \in Nat
      <4>1. OfPhase(p, T) \subseteq DOMAIN flows BY <1>1 DEF OfPhase
      <4> QED BY <4>1, SumSubset DEF PhaseHyp
    <3>2. f.committed = f.completed + BytesSum(OfPhase(p, T))
      BY <2>1, <2>4, <2>6, <3>1 DEF PhaseBooks
    <3> QED BY <1>3, <2>6, <2>8, <3>2 DEF PhasesRight
  <2>10. PhasesRight(phaseAcct, DOMAIN flows)'
    BY <1>1, <1>2, <2>9, PhasesRightNext DEF PhaseHyp
  <2>11. PICK n \in Nat : n = nextPhase - 1 /\ p \in 1 .. n
    BY <1>3, PhaseNumbers DEF PhaseHyp
  <2>12. CompletedSum(phaseAcct', n) = CompletedSum(phaseAcct, n) + bytes
    <3>1. \A q \in DOMAIN phaseAcct : phaseAcct[q].completed \in Nat
      BY DEF PhaseHyp, PhaseInv, PhasesRight, PhaseBooks
    <3>2. phaseAcct'[p].completed = phaseAcct[p].completed + bytes
      BY <1>3, <2>3, <2>6, <2>8
    <3>3. \A q \in DOMAIN phaseAcct \ {p} : phaseAcct'[q].completed = phaseAcct[q].completed
      BY <1>3, <2>8
    <3>4. DOMAIN phaseAcct' = DOMAIN phaseAcct BY <1>3, <2>8
    <3> QED BY <1>3, <2>1, <2>11, <3>1, <3>2, <3>3, <3>4, CompletedMore
  <2>13. b.bytesCompleted = step.acct.bytesCompleted + bytes
    <3>1. "bytesCompleted" \in DOMAIN k
      BY <1>4 DEF CancelledAccounting, PhaseHyp, Accounts
    <3> QED BY <1>4, <1>5, <1>7, <3>1
  <2> QED BY <1>2, <1>3, <1>4, <2>8, <2>10, <2>11, <2>12, <2>13 DEF PhaseHyp, PhaseInv
<1> QED BY <1>6, <1>7

LEMMA GrantedPhases ==
  ASSUME PhaseHyp, NEW t, NEW p, NEW it \in Intents, FlowGranted(t, p, it), nextPhase' = nextPhase
  PROVE  PhaseInv'
<1>1. PICK n, V :
        /\ n = nextIntent /\ V = RequestVictims(p, it)
        /\ V \subseteq FlowsOf(it.group) /\ n \notin DOMAIN flows /\ nextIntent' = nextIntent + 1
        /\ DOMAIN flows' = (DOMAIN flows \ V) \cup {n}
        /\ \A i \in DOMAIN flows \ V : flows'[i] = flows[i]
        /\ flows'[n] = Flow(t, it, GrantOf(p, it))
        /\ flows'[n].min = MinRate(p, it) /\ flows'[n].min \in Nat
        /\ flows'[n].bytes = it.bytes /\ flows'[n].bytes \in Nat
        /\ flows'[n].group = it.group /\ it.group \in Groups
  BY GrantDoes DEF PhaseHyp
<1>2. PICK T, a, size : /\ T = DOMAIN flows \ V /\ a = CancelledPhases(V)
                        /\ size = it.bytes /\ size \in Nat
  BY <1>1
<1>3. flows'[n].phase = p BY <1>1 DEF Flow, GrantOf, Grant
<1>4. p \in DOMAIN step.phases BY DEF FlowGranted, Admitted, InPhase
<1>5. V \subseteq DOMAIN flows BY <1>1 DEF FlowsOf
<1>6. /\ DOMAIN a = DOMAIN phaseAcct /\ PhasesRight(a, T) /\ p \in DOMAIN phaseAcct
      /\ \A q \in DOMAIN phaseAcct : a[q].completed = phaseAcct[q].completed
  BY <1>2, <1>4, <1>5, CancelledInPhases DEF PhaseHyp, PhaseInv
<1>7. phaseAcct' = [a EXCEPT ![p].committed = @ + size]
  BY <1>1, <1>2 DEF FlowGranted, Admitted
<1>8. PICK e, f : e = a[p] /\ f = [e EXCEPT !.committed = @ + size] OBVIOUS
<1>9. e \in PhaseBooks /\ e.committed = e.completed + BytesSum(OfPhase(p, T))
  BY <1>6, <1>8 DEF PhasesRight
<1>10. f \in PhaseBooks /\ f.committed = e.committed + size /\ f.completed = e.completed
  BY <1>2, <1>8, <1>9 DEF PhaseBooks
<1>11. /\ DOMAIN phaseAcct' = DOMAIN a /\ phaseAcct'[p] = f
       /\ \A q \in DOMAIN a \ {p} : phaseAcct'[q] = a[q]
  BY <1>6, <1>7, <1>8
<1>12. ASSUME NEW CONSTANT q, q \in DOMAIN phaseAcct'
       PROVE  /\ phaseAcct'[q] \in PhaseBooks
              /\ phaseAcct'[q].committed =
                   phaseAcct'[q].completed + BytesSum(OfPhase(q, DOMAIN flows))'
  <2>1. PICK U : U = OfPhase(q, T) OBVIOUS
  <2>2. /\ U \subseteq T /\ U \subseteq DOMAIN flows /\ \A i \in U : flows'[i] = flows[i]
        /\ BytesSum(U) \in Nat
    <3>1. U \subseteq T /\ U \subseteq DOMAIN flows BY <1>2, <2>1 DEF OfPhase
    <3> QED BY <1>1, <1>2, <3>1, SumSubset DEF PhaseHyp
  <2>3. CASE q = p
    <3>1. OfPhase(q, DOMAIN flows)' = U \cup {n}
      BY <1>1, <1>2, <1>3, <2>1, <2>3 DEF OfPhase
    <3>2. BytesSum(U \cup {n})' = BytesSum(U) + size
      BY <1>1, <1>2, <2>2, SumGrown DEF PhaseHyp
    <3>3. BytesSum(OfPhase(q, DOMAIN flows))' = BytesSum(U) + size
      <4>1. PICK W : W = U \cup {n} OBVIOUS
      <4> QED BY <3>1, <3>2, <4>1, PhaseSumNext
    <3>4. f.committed = f.completed + (BytesSum(U) + size)
      BY <1>2, <1>9, <1>10, <2>1, <2>2, <2>3 DEF PhaseBooks
    <3> QED BY <1>10, <1>11, <2>3, <3>3, <3>4
  <2>4. CASE q # p
    <3>1. OfPhase(q, DOMAIN flows)' = U
      BY <1>1, <1>2, <1>3, <2>1, <2>4 DEF OfPhase
    <3>2. BytesSum(U)' = BytesSum(U)
      BY <1>1, <2>2, SumSame DEF PhaseHyp
    <3>3. BytesSum(OfPhase(q, DOMAIN flows))' = BytesSum(U) BY <3>1, <3>2, PhaseSumNext
    <3>4. q \in DOMAIN a /\ phaseAcct'[q] = a[q] BY <1>11, <1>12, <2>4
    <3> QED BY <1>6, <2>1, <3>3, <3>4 DEF PhasesRight
  <2> QED BY <2>3, <2>4
<1>13. PhasesRight(phaseAcct, DOMAIN flows)' BY <1>12 DEF PhasesRight
<1>14. CompletedSum(phaseAcct', nextPhase - 1) = CompletedSum(phaseAcct, nextPhase - 1)
  <2>1. \A q \in DOMAIN phaseAcct' : phaseAcct'[q].completed = phaseAcct[q].completed
    BY <1>6, <1>8, <1>10, <1>11
  <2>2. DOMAIN phaseAcct' = DOMAIN phaseAcct BY <1>6, <1>11
  <2> QED BY <2>1, <2>2, PhaseNumbers, CompletedAgree DEF PhaseHyp
<1>15. step'.phases = step.phases /\ step'.acct.bytesCompleted = step.acct.bytesCompleted
  <2>1. PICK k, g : /\ k = CancelledAccounting(V)
                    /\ step' = [step EXCEPT !.seen = @ + 1,
                                  !.acct = [k EXCEPT !.admitted = @ + 1, !.active = @ + 1,
                                              !.activeMin = @ + g,
                                              !.bytesCommitted = @ + it.bytes]]
    BY <1>1 DEF FlowGranted, Admitted
  <2>2. PICK b, x : /\ b = Opening(k, k.admitted + 1, k.active + 1, k.activeMin + g,
                                   k.bytesCommitted + it.bytes)
                    /\ x = step.seen + 1
    OBVIOUS
  <2>3. step' = [step EXCEPT !.seen = x, !.acct = b] BY <2>1, <2>2 DEF Opening
  <2>4. step'.phases = step.phases /\ step'.acct = b
    BY <2>3 DEF PhaseHyp, HeldInv, StepShape
  <2>5. b.bytesCompleted = k.bytesCompleted BY <2>2 DEF Opening
  <2> QED BY <2>1, <2>4, <2>5, CancelledCompleted DEF PhaseHyp
<1>16. history' = history BY DEF FlowGranted
<1>17. DOMAIN phaseAcct' = DOMAIN phaseAcct BY <1>6, <1>11
<1> QED BY <1>13, <1>14, <1>15, <1>16, <1>17 DEF PhaseHyp, PhaseInv
LEMMA KeptPhases ==
  ASSUME PhaseHyp, UNCHANGED <<flows, phaseAcct, history, nextPhase>>,
         DOMAIN step'.phases = DOMAIN step.phases, step'.acct = step.acct,
         nextIntent' = nextIntent \/ nextIntent' = nextIntent + 1
  PROVE  PhaseInv'
<1>1. PhasesLeft({}) BY DEF PhasesLeft
<1> QED BY <1>1, LeftPhases

LEMMA FencePhases ==
  ASSUME PhaseHyp, HistoryInv, FenceOpenStep, UNCHANGED <<nextPhase, nextIntent>>
  PROVE  PhaseInv'
<1>1. CASE step.id # 0 BY <1>1, ClosedPhases DEF FenceOpenStep
<1>2. CASE step.id = 0 BY <1>2, KeptPhases DEF FenceOpenStep
<1> QED BY <1>1, <1>2 DEF PhaseHyp, HeldInv, StepShape

LEMMA InvalidatePhases ==
  ASSUME PhaseHyp, NEW doc, Invalidate(Invalidated(doc)), UNCHANGED <<history, idVars>>
  PROVE  PhaseInv'
<1>1. PICK S : S = Invalidated(doc) OBVIOUS
<1>2. S \subseteq DOMAIN flows BY <1>1 DEF Invalidated
<1>3. PICK a : a = CancelledAccounting(S) OBVIOUS
<1>4. step'.acct = a /\ step'.phases = step.phases
  <2>1. step' = [step EXCEPT !.acct = a] BY <1>1, <1>3 DEF Invalidate
  <2> QED BY <2>1 DEF PhaseHyp, HeldInv, StepShape
<1>5. a.bytesCompleted = step.acct.bytesCompleted BY <1>3, CancelledCompleted DEF PhaseHyp
<1>6. DOMAIN flows' = DOMAIN flows \ S /\ \A i \in DOMAIN flows' : flows'[i] = flows[i]
  BY <1>1 DEF Invalidate, FlowsWithout
<1>7. PhasesLeft(S)
  BY <1>1, <1>2, <1>4, <1>5, <1>6 DEF PhasesLeft, Invalidate, idVars
<1> QED BY <1>7, LeftPhases

LEMMA RegistrationPhases ==
  ASSUME PhaseHyp, HistoryInv, Registration
  PROVE  PhaseInv'
<1>1. ASSUME NEW k, ApplyPolicy(k) PROVE PhaseInv'
  BY <1>1, InvalidatePhases DEF ApplyPolicy
<1>2. ASSUME NEW e, RebaseEpoch(e) PROVE PhaseInv'
  BY <1>2, KeptPhases DEF RebaseEpoch, ledgerVars, idVars, recordVars
<1>3. ASSUME NEW t, NEW g \in Groups, RegisterGroup(t, g) PROVE PhaseInv'
  BY <1>3, KeptPhases DEF RegisterGroup, idVars, recordVars
<1>4. ASSUME NEW t, NEW cap, PublishTopology(t, cap) PROVE PhaseInv'
  BY <1>4, InvalidatePhases DEF PublishTopology
<1>5. ASSUME NEW t, RetireJob(t) PROVE PhaseInv'
  BY <1>5, FencePhases DEF RetireJob
<1> QED BY <1>1, <1>2, <1>3, <1>4, <1>5 DEF Registration

LEMMA LifecyclePhases ==
  ASSUME PhaseHyp, HistoryInv, Lifecycle
  PROVE  PhaseInv'
<1>1. ASSUME NEW t, NEW s, BeginStep(t, s) PROVE PhaseInv'
  <2>1. DOMAIN flows' = {} BY <1>1 DEF BeginStep, PhaseHyp, HeldInv, OpenStepIsHeld
  <2>2. DOMAIN step'.phases = {} /\ step'.acct = NoAccounting BY <1>1 DEF BeginStep, NoStep
  <2>3. phaseAcct' = <<>> /\ nextPhase' = nextPhase /\ history' = history
    BY <1>1 DEF BeginStep, recordVars
  <2>4. \A k \in DOMAIN history' : SummariesRight(history'[k])
    BY <2>3 DEF PhaseHyp, PhaseInv
  <2> QED BY <2>1, <2>2, <2>3, <2>4, ClearedPhases
<1>2. ASSUME NEW t, NEW cls, NEW g, BeginPhase(t, cls, g) PROVE PhaseInv'
  BY <1>2, OpenedPhases
<1>3. ASSUME NEW t, NEW p, EndPhase(t, p) PROVE PhaseInv'
  <2>1. PICK S, a : S = {i \in DOMAIN flows : flows[i].phase = p} /\ a = CancelledAccounting(S)
    OBVIOUS
  <2>2. step' = [step EXCEPT !.acct = a, !.phases[p].open = FALSE] BY <1>3, <2>1 DEF EndPhase
  <2>3. step'.acct = a /\ DOMAIN step'.phases = DOMAIN step.phases
    <3>1. step' = [id |-> step.id, incarnation |-> step.incarnation, seen |-> step.seen,
                   phases |-> [step.phases EXCEPT ![p].open = FALSE],
                   burst |-> step.burst, acct |-> a]
      BY <2>2 DEF PhaseHyp, HeldInv, StepShape
    <3> QED BY <3>1
  <2>4. a.bytesCompleted = step.acct.bytesCompleted BY <2>1, CancelledCompleted DEF PhaseHyp
  <2>5. S \subseteq DOMAIN flows BY <2>1
  <2>6. DOMAIN flows' = DOMAIN flows \ S /\ \A i \in DOMAIN flows' : flows'[i] = flows[i]
    BY <1>3, <2>1 DEF EndPhase, FlowsWithout
  <2>7. PhasesLeft(S)
    BY <1>3, <2>1, <2>3, <2>4, <2>5, <2>6 DEF PhasesLeft, EndPhase, idVars
  <2> QED BY <2>7, LeftPhases
<1>4. ASSUME NEW t, EndStep(t) PROVE PhaseInv'
  BY <1>4, ClosedPhases DEF EndStep
<1> QED BY <1>1, <1>2, <1>3, <1>4 DEF Lifecycle

LEMMA BurstPhases ==
  ASSUME PhaseHyp, NEW t, NEW g, BeginCheckpointBurst(t, g)
  PROVE  PhaseInv'
<1>1. PICK out, cut, k : out = Displaced(g) /\ cut = Throttled(g) /\ k = CancelledAccounting(out)
  OBVIOUS
<1>2. /\ out \subseteq DOMAIN flows /\ DOMAIN flows' = DOMAIN flows \ out
      /\ \A i \in DOMAIN flows' \ cut : flows'[i] = flows[i]
      /\ \A i \in cut :
           flows'[i] = Rated(flows[i], IsolationCeiling(i), IsolationCeiling(i))
      /\ nextIntent' = nextIntent
  BY <1>1, BurstDoes DEF PhaseHyp, FlowsOf
<1>3. ASSUME NEW i \in DOMAIN flows'
      PROVE  flows'[i].bytes = flows[i].bytes /\ flows'[i].phase = flows[i].phase
  <2>1. CASE i \in cut
    <3>1. PICK f, r : f = flows[i] /\ r = flows'[i] OBVIOUS
    <3>2. r = Rated(f, IsolationCeiling(i), IsolationCeiling(i)) BY <1>2, <2>1, <3>1
    <3>3. r.bytes = f.bytes /\ r.phase = f.phase BY ONLY <3>2 DEF Rated
    <3> QED BY <3>1, <3>3
  <2> QED BY <1>2, <2>1
<1>4. step'.phases = step.phases /\ step'.acct.bytesCompleted = step.acct.bytesCompleted
  <2>1. PICK s, b : step' = [step EXCEPT !.burst = b, !.acct = [k EXCEPT !.activeMin = Monus(@, s)]]
    <3> DEFINE slack == SumTo([i \in Ids |-> IF i \in cut
                                             THEN flows[i].min - IsolationCeiling(i) ELSE 0],
                              nextIntent - 1)
               burst == [id |-> nextBurst, group |-> g, active |-> TRUE]
    <3>1. step' = [step EXCEPT !.burst = burst, !.acct = [k EXCEPT !.activeMin = Monus(@, slack)]]
      BY ONLY <1>1, BeginCheckpointBurst(t, g) DEF BeginCheckpointBurst
    <3> HIDE DEF slack, burst
    <3> QED BY <3>1
  <2>2. PICK a : a = [k EXCEPT !.activeMin = Monus(@, s)] OBVIOUS
  <2>3. step'.phases = step.phases /\ step'.acct = a
    BY <2>1, <2>2 DEF PhaseHyp, HeldInv, StepShape
  <2>4. a.bytesCompleted = k.bytesCompleted BY <2>2
  <2> QED BY <1>1, <2>3, <2>4, CancelledCompleted DEF PhaseHyp
<1>5. phaseAcct' = CancelledPhases(out) /\ history' = history /\ nextPhase' = nextPhase
  BY <1>1 DEF BeginCheckpointBurst
<1>6. PhasesLeft(out) BY <1>2, <1>3, <1>4, <1>5 DEF PhasesLeft
<1> QED BY <1>6, LeftPhases

LEMMA TrafficPhases ==
  ASSUME PhaseHyp, Traffic
  PROVE  PhaseInv'
<1>1. ASSUME NEW t, NEW p, NEW it \in Intents, RequestTraffic(t, p, it) PROVE PhaseInv'
  <2>1. nextIntent' = nextIntent + 1 /\ nextPhase' = nextPhase /\ history' = history
    BY <1>1 DEF RequestTraffic
  <2>2. ASSUME NEW d, Refuse(d) PROVE PhaseInv'
    <3>1. step'.acct = step.acct /\ step'.phases = step.phases
      BY <2>2 DEF Refuse, PhaseHyp, HeldInv, StepShape
    <3> QED BY <2>1, <2>2, <3>1, KeptPhases DEF Refuse
  <2>3. CASE Unresolved(t, p) BY <2>1, <2>3, KeptPhases DEF Unresolved
  <2>4. CASE Rejected(t, p, it) BY <2>2, <2>4 DEF Rejected
  <2>5. CASE Held(t, p, it) BY <2>2, <2>5 DEF Held
  <2>6. CASE Admitted(t, p, it)
    <3>1. FlowGranted(t, p, it) BY <1>1, <2>1, <2>6 DEF RequestTraffic, FlowGranted
    <3> QED BY <2>1, <3>1, GrantedPhases
  <2> QED BY <1>1, <2>3, <2>4, <2>5, <2>6 DEF RequestTraffic
<1>2. ASSUME NEW t, NEW i, NEW bytes \in Reports, NEW c, CompleteFlow(t, i, bytes, c)
      PROVE  PhaseInv'
  BY <1>2, CompletedPhases
<1>3. ASSUME NEW t, NEW i, RevalidateFlow(t, i) PROVE PhaseInv'
  BY <1>3, KeptPhases DEF RevalidateFlow, ledgerVars, idVars
<1>4. ASSUME NEW t, NEW g, BeginCheckpointBurst(t, g) PROVE PhaseInv'
  BY <1>4, BurstPhases
<1>5. ASSUME NEW t, NEW b, EndCheckpointBurst(t, b) PROVE PhaseInv'
  <2>1. step'.acct = step.acct /\ step'.phases = step.phases
    BY <1>5 DEF EndCheckpointBurst, PhaseHyp, HeldInv, StepShape
  <2> QED BY <1>5, <2>1, KeptPhases DEF EndCheckpointBurst, idVars, recordVars
<1> QED BY <1>1, <1>2, <1>3, <1>4, <1>5 DEF Traffic

LEMMA NextPhases == ASSUME PhaseHyp, HistoryInv, [Next]_vars PROVE PhaseInv'
<1>1. CASE UNCHANGED vars
  BY <1>1, KeptPhases DEF vars, ledgerVars, idVars, recordVars
<1>2. ASSUME Recovery PROVE PhaseInv'
  <2>1. FenceOpenStep /\ UNCHANGED <<nextPhase, nextIntent>>
    BY <1>2 DEF Recovery, AdmitReplacement, RetireIncarnation
  <2> QED BY <2>1, FencePhases
<1> QED BY <1>1, <1>2, RegistrationPhases, LifecyclePhases, TrafficPhases DEF Next

LEMMA PhasesBalance == ASSUME PhaseInv PROVE PhaseAccountsBalance
BY DEF PhaseInv, PhasesRight, SummariesRight, OfPhase, CompletedSum, PhaseAccountsBalance,
       CompletedInPhases

LEMMA InitPhases == Init => PhaseInv
<1> SUFFICES ASSUME Init PROVE PhaseInv
  OBVIOUS
<1>1. /\ DOMAIN phaseAcct = {} /\ DOMAIN step.phases = {} /\ nextPhase = 1
      /\ DOMAIN history = {} /\ step.acct.bytesCompleted = 0
  BY DEF Init, NoStep, NoAccounting
<1>2. CompletedSum(phaseAcct, 0) = 0 BY <1>1, CompletedNone
<1> QED BY <1>1, <1>2 DEF PhaseInv, PhasesRight

(***************************************************************************)
(* The books of each phase count its own flows, those of the phases add up *)
(* to the step's, and no summary kept has a byte outstanding, in every     *)
(* reachable state (close_flow, complete_flow, request_traffic,            *)
(* build_report).                                                          *)
(***************************************************************************)
THEOREM PhaseBooksBalance == FabricSpec => []PhaseAccountsBalance
<1>1. (HeldInv /\ MatchInv /\ NumberInv) /\ HistoryInv /\ AccountInv(TRUE) /\ PhaseInv
        /\ [Next]_vars => PhaseInv'
  BY NextPhases DEF PhaseHyp, AccountInv
<1>2. PhaseInv => PhaseAccountsBalance BY PhasesBalance
<1> QED BY <1>1, <1>2, InitPhases, BooksInvariant, NumberInvariant, HistoryInvariant, PTL
        DEF FabricSpec
=============================================================================
