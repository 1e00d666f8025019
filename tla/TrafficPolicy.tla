---------------------------- MODULE TrafficPolicy ----------------------------
(***************************************************************************)
(* Pure operators of the Training Traffic Fabric: policy documents, the    *)
(* priority a service class is arbitrated at, and the ledger arithmetic.   *)
(*                                                                         *)
(* A policy document is a record                                           *)
(*   classOf    phase class -> service class (PolicyDocument::             *)
(*              phase_class_map, a total table)                            *)
(*   spec       service class -> ServiceClassSpec, for the classes the     *)
(*              document defines (DOMAIN spec); rates are small numbers,   *)
(*              0 stands for "no ceiling" as in the code                   *)
(*   isoPriority, unknownCeiling, strict, preempt, maxFlows                *)
(* Weights, names and the explanation text are left out: nothing here      *)
(* depends on them.                                                        *)
(***************************************************************************)
EXTENDS Integers, FiniteSets

\* util.hpp: every subtraction of the ledger saturates at zero.
Monus(a, b) == IF a >= b THEN a - b ELSE 0
MinOf2(a, b) == IF a <= b THEN a ELSE b
MaxOf2(a, b) == IF a >= b THEN a ELSE b

\* The table f with v under key k (map::operator[], map::emplace).
Put(f, k, v) == [x \in DOMAIN f \cup {k} |-> IF x = k THEN v ELSE f[x]]

(***************************************************************************)
(* w[1] + ... + w[n].  Intent ids are minted 1, 2, 3, ..., so a sum over   *)
(* live flows is a sum over the ids issued so far: a recursive function,   *)
(* which the provers can reason about.                                     *)
(***************************************************************************)
SumTo(w, n) ==
  LET s[k \in 0 .. n] == IF k = 0 THEN 0 ELSE s[k - 1] + w[k]
  IN  s[n]

Checkpoint == "Checkpoint"
BestEffort == "BestEffort"
UnknownPhase == "Unknown"

\* PolicyDocument::validate: what every applied policy document satisfies.
ValidPolicy(doc) ==
  /\ \A c \in DOMAIN doc.spec :
       /\ doc.spec[c].priority \in 0 .. 200
       /\ doc.spec[c].ceiling # 0 => doc.spec[c].floor <= doc.spec[c].ceiling
  /\ \A c, d \in DOMAIN doc.spec :
       c # d => doc.spec[c].priority # doc.spec[d].priority
  /\ \A p \in DOMAIN doc.classOf : doc.classOf[p] \in DOMAIN doc.spec
  /\ UnknownPhase \in DOMAIN doc.classOf
  /\ doc.classOf[UnknownPhase] = BestEffort
  /\ doc.maxFlows > 0

(***************************************************************************)
(* effective_priority_for: lower is more urgent.  Isolation lifts          *)
(* Checkpoint to the isolation priority, leaves barrier-critical classes   *)
(* alone and demotes the rest to just below the checkpoint.                *)
(***************************************************************************)
EffectivePriority(doc, c, isolation) ==
  LET base == IF c \in DOMAIN doc.spec THEN doc.spec[c].priority ELSE 200
      critical == c \in DOMAIN doc.spec /\ doc.spec[c].critical
  IN  IF ~isolation THEN base
      ELSE IF c = Checkpoint THEN doc.isoPriority
      ELSE IF critical THEN base
      ELSE MaxOf2(base, MinOf2(200, doc.isoPriority + 1))

\* Faults of the test below: strict documents or remapped classes forgotten.
UnsafeUnlessStrict(doc, f, pc, isolation) ==
  doc.classOf[pc] # f.class \/ EffectivePriority(doc, f.class, isolation) # f.prio
UnsafeOnlyStrict(doc, f, pc, isolation) == doc.strict

(***************************************************************************)
(* The test of invalidate_for_generation_change: flow f, whose phase is of *)
(* phase class pc, does not survive the move to document doc.              *)
(***************************************************************************)
Unsafe(doc, f, pc, isolation) ==
  LET mapped == doc.classOf[pc]
  IN  \/ doc.strict
      \/ mapped # f.class
      \/ EffectivePriority(doc, mapped, isolation) # f.prio
      \/ mapped \notin DOMAIN doc.spec
      \/ doc.spec[mapped].ceiling # 0 /\ f.min > doc.spec[mapped].ceiling
=============================================================================
