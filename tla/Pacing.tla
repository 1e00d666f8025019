-------------------------------- MODULE Pacing --------------------------------
(***************************************************************************)
(* evaluate_pacing: whether a sync point waits for its stragglers.  An     *)
(* intent says how many participants are expected and have arrived, the    *)
(* grace window and the longest hold it declares, and whether it is to be  *)
(* released at the deadline of the step; times are ticks of the fabric.    *)
(***************************************************************************)
EXTENDS Naturals, TLAPS

PacingIntent ==
  [expected : Nat, arrived : Nat, grace : Nat, hold : Nat, release : BOOLEAN]

Well(p) == p.expected # 0 /\ p.arrived <= p.expected

Shorter(a, b) == IF a <= b THEN a ELSE b

Stragglers(p) == p.expected - p.arrived

\* The deadline of the step is missed already, or still ahead; 0: it has none.
Limit(now, deadline) == IF deadline > now THEN deadline ELSE now

Beyond(p, now, deadline) ==
  deadline # 0 /\ Shorter(p.grace, p.hold) > Limit(now, deadline) - now

Evaluate(p, now, deadline, slack) ==
  CASE Stragglers(p) = 0 \/ p.grace = 0 \/ p.hold = 0 -> [outcome |-> "Admit", until |-> 0]
    [] OTHER ->
         IF ~Beyond(p, now, deadline)
         THEN [outcome |-> "Defer", until |-> now + Shorter(p.grace, p.hold)]
         ELSE [outcome |-> IF slack = 0 /\ p.release THEN "Throttle" ELSE "Defer",
               until |-> Limit(now, deadline)]

-----------------------------------------------------------------------------
(***************************************************************************)
(* README, "Straggler-sensitive pacing": who has declared no grace is not  *)
(* held, and a hold neither outlasts what the intent declares nor runs     *)
(* past a deadline that is still ahead.  For all intents and times         *)
(* (evaluate_pacing).                                                      *)
(***************************************************************************)
Bounded(p, now, deadline, answer) ==
  answer.outcome # "Admit" =>
    /\ p.arrived < p.expected /\ p.grace # 0 /\ p.hold # 0
    /\ answer.until >= now
    /\ answer.until <= now + p.grace /\ answer.until <= now + p.hold
    /\ deadline > now => answer.until <= deadline

THEOREM HoldsAreBounded ==
  ASSUME NEW p \in PacingIntent, NEW now \in Nat, NEW deadline \in Nat, NEW slack \in Nat,
         Well(p)
  PROVE  Bounded(p, now, deadline, Evaluate(p, now, deadline, slack))
<1> DEFINE answer == Evaluate(p, now, deadline, slack)
           least == Shorter(p.grace, p.hold)
<1>1. /\ p.expected \in Nat /\ p.arrived \in Nat /\ p.grace \in Nat /\ p.hold \in Nat
      /\ p.arrived <= p.expected
  BY DEF PacingIntent, Well
<1>2. least \in Nat /\ least <= p.grace /\ least <= p.hold
  BY <1>1 DEF Shorter
<1>3. CASE Stragglers(p) = 0 \/ p.grace = 0 \/ p.hold = 0
  BY <1>3 DEF Evaluate, Bounded
<1>4. CASE ~(Stragglers(p) = 0 \/ p.grace = 0 \/ p.hold = 0)
  <2>1. p.arrived < p.expected /\ p.grace # 0 /\ p.hold # 0
    BY <1>1, <1>4 DEF Stragglers
  <2>2. CASE ~Beyond(p, now, deadline)
    <3>1. answer = [outcome |-> "Defer", until |-> now + least]
      BY <1>4, <2>2 DEF Evaluate
    <3>2. deadline > now => least <= deadline - now
      BY <1>2, <2>2 DEF Beyond, Limit
    <3>3. deadline > now => now + least <= deadline
      BY <1>2, <3>2
    <3> HIDE DEF least
    <3> QED BY <1>1, <1>2, <2>1, <3>1, <3>3 DEF Bounded
  <2>3. CASE Beyond(p, now, deadline)
    <3>1. answer.until = Limit(now, deadline)
      BY <1>4, <2>3 DEF Evaluate
    <3>2. Limit(now, deadline) \in Nat /\ Limit(now, deadline) >= now
      BY DEF Limit
    <3>3. least > Limit(now, deadline) - now
      BY <2>3 DEF Beyond
    <3>4. Limit(now, deadline) <= now + least
      BY <1>2, <3>2, <3>3
    <3>5. deadline > now => Limit(now, deadline) <= deadline
      BY DEF Limit
    <3>6. Bounded(p, now, deadline, answer)
      <4> HIDE DEF least, answer
      <4> QED BY <1>1, <1>2, <2>1, <3>1, <3>2, <3>4, <3>5 DEF Bounded
    <3> QED BY <3>6
  <2> QED BY <2>2, <2>3
<1> QED BY <1>3, <1>4
=============================================================================
