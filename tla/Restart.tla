------------------------------- MODULE Restart -------------------------------
(***************************************************************************)
(* A job across restarts of its coordinator: the fabric composed with the  *)
(* state codec (fabric_state.cpp).  Any operation on any job stores the    *)
(* whole fabric, so a job may be stored at any moment; a crash takes back  *)
(* what was not stored, and Start restores the rest under a later epoch.   *)
(*                                                                         *)
(* Flows, decisions and receipts are not written, nor, here, the records   *)
(* of fences, which Fabric leaves out.  How a state gets to the disk is    *)
(* StateStore; here storing it is one step.                                *)
(***************************************************************************)
EXTENDS Fabric

CONSTANTS
  RegisteredEvidenceOnly, \* callers publish evidence of registered groups only
  MaxRetired,   \* FabricConfig::max_retired_incarnations_per_job
  ReaderMax     \* the counts the reader accepts: [phases, retired], each 4096

ASSUME RestartAssumption ==
  /\ RegisteredEvidenceOnly \in BOOLEAN
  /\ MaxRetired \in Nat \ {0} /\ {ReaderMax.phases, ReaderMax.retired} \subseteq Nat
  /\ MaxRetired <= ReaderMax.retired

VARIABLE stored    \* the job as the newest stored state has it

-----------------------------------------------------------------------------
(* The codec.                                                              *)

\* Fault: the bytes of flows that will be lost stay committed.
ReconciledFlows(acct) == [acct EXCEPT !.active = 0, !.activeMin = 0]

\* What write_open_step makes of the books: the commitments to live flows are released.
Reconciled(acct) ==
  [acct EXCEPT !.active = 0, !.activeMin = 0,
               !.bytesCommitted = acct.bytesCompleted + acct.bytesCancelled]

\* write_open_step: everything of the step but its flows.
WrittenStep == [step EXCEPT !.acct = Reconciled(@)]

\* retired_incarnations: of the retired ones the latest MaxRetired are kept to be written.
RetainedIncarnations ==
  LET last == IF incarnation \in retiredSet THEN incarnation ELSE incarnation - 1
  IN  {i \in retiredSet : i + MaxRetired > last}

\* write_job.  The books of the phases are written as they are, live flows included.
Written ==
  [epoch |-> epoch, incarnation |-> incarnation, boot |-> boot,
   retiredSet |-> RetainedIncarnations, retired |-> retired,
   groups |-> groups, topology |-> topology, policyGen |-> policyGen,
   step |-> WrittenStep, phaseAcct |-> phaseAcct,
   highestStep |-> highestStep, lastClosed |-> lastClosed,
   nextPhase |-> nextPhase, nextIntent |-> nextIntent, nextBurst |-> nextBurst,
   history |-> history]

\* What read_open_step accepts.  (Phases, groups and links are written in the order of
\* their ids: that the reader insists on the order is no further condition.)
ReadableStep(w) ==
  /\ w.step.id <= w.highestStep
  /\ Cardinality(DOMAIN w.step.phases) <= ReaderMax.phases
  /\ \A p \in DOMAIN w.step.phases : p # 0 /\ w.step.phases[p].group \in w.groups
  /\ \A p \in DOMAIN w.phaseAcct : w.phaseAcct[p].completed <= w.phaseAcct[p].committed
  /\ w.step.acct.bytesCompleted + w.step.acct.bytesCancelled <= w.step.acct.bytesCommitted

\* What read_report, and read_job of the sequence of reports, accept.
ReadableReports(w) ==
  /\ Len(w.history) <= Contract.historySteps
  /\ \A k \in DOMAIN w.history :
       /\ Balanced(w.history[k].acct)
       /\ Cardinality(DOMAIN w.history[k].phases) <= ReaderMax.phases
       /\ \A p \in DOMAIN w.history[k].phases :
            w.history[k].phases[p].completed <= w.history[k].phases[p].committed
       /\ k > 1 => w.history[k - 1].step < w.history[k].step

\* What read_job accepts.  (next_incarnation and next_topology_generation are one ahead.)
Readable(w) ==
  /\ w.incarnation # 0
  /\ Cardinality(w.groups) <= Contract.maxGroups
  /\ DOMAIN w.topology.cap \subseteq w.groups
  /\ Cardinality(w.retiredSet) <= ReaderMax.retired
  /\ 0 \notin {w.nextPhase, w.nextIntent, w.nextBurst}
  /\ w.lastClosed <= w.highestStep
  /\ ReadableStep(w) /\ ReadableReports(w)

\* What read_open_step makes of them: bytes unaccounted for are booked as cancelled.
Booked(acct) ==
  [acct EXCEPT !.active = 0, !.activeMin = 0,
               !.bytesCancelled = Monus(acct.bytesCommitted, acct.bytesCompleted)]

\* Fault: the bytes of flows that are gone stay committed in their phases.
PhasesAsWritten(acct) == acct

\* And of the books of the phases: only what was completed is still committed.
PhasesBooked(acct) == [p \in DOMAIN acct |-> [acct[p] EXCEPT !.committed = acct[p].completed]]

\* Fault: the utilisation of the flows that are gone is kept.
RestoredUtilization == utilized

\* The utilisation tables start again with the groups.
NoUtilization == [g \in Groups |-> 0]

-----------------------------------------------------------------------------
RestartInit == Init /\ epoch = 1 /\ stored = Written

\* Any operation of the fabric; REBASE_EPOCH included.
Operate ==
  /\ Next
  /\ RegisteredEvidenceOnly => DOMAIN topology'.cap \subseteq groups'
  /\ UNCHANGED stored

\* commit_state, called for this job or for another.
Commit ==
  /\ stored' = Written
  /\ UNCHANGED vars

(***************************************************************************)
(* A crash at any moment, then Coordinator::Start: deserialize, rebase to  *)
(* a later epoch, store the result.  Start fails, and would fail for ever, *)
(* on a state that is not readable.                                        *)
(***************************************************************************)
Restart(e) ==
  /\ Readable(stored)
  /\ e > stored.epoch
  /\ epoch' = e
  /\ incarnation' = stored.incarnation /\ boot' = stored.boot
  /\ retiredSet' = stored.retiredSet /\ retired' = stored.retired
  /\ groups' = stored.groups /\ topology' = stored.topology /\ policyGen' = stored.policyGen
  /\ step' = [stored.step EXCEPT !.acct = Booked(@)]
  /\ flows' = <<>> /\ utilized' = NoUtilization
  /\ phaseAcct' = PhasesBooked(stored.phaseAcct)
  /\ highestStep' = stored.highestStep /\ lastClosed' = stored.lastClosed
  /\ nextPhase' = stored.nextPhase /\ nextIntent' = stored.nextIntent
  /\ nextBurst' = stored.nextBurst
  /\ decisions' = <<>> /\ receipts' = <<>> /\ history' = stored.history
  /\ stored' = Written'

RestartNext == Operate \/ Commit \/ \E e \in 1 .. MaxEpoch : Restart(e)

RestartSpec == RestartInit /\ [][RestartNext]_<<vars, stored>>

-----------------------------------------------------------------------------
(* Properties.                                                             *)

(***************************************************************************)
(* Whatever the fabric has come to, its written form is accepted again: a  *)
(* job never becomes unrestorable (fabric_state.cpp:668, "it must survive  *)
(* a snapshot round trip").  Two conditions, neither enforced by the code: *)
(* callers publish evidence of registered groups only, and the contract    *)
(* allows no more phases in a step than the reader accepts.                *)
(***************************************************************************)
Restorable == Readable(Written)

\* v and w are the same but for the epoch and what the phases of the open step have
\* committed; that is, in w, what they had completed.
SameButCommitments(v, w) ==
  /\ w = [v EXCEPT !.epoch = w.epoch, !.phaseAcct = w.phaseAcct]
  /\ DOMAIN w.phaseAcct = DOMAIN v.phaseAcct
  /\ \A p \in DOMAIN v.phaseAcct :
       /\ w.phaseAcct[p].completed = v.phaseAcct[p].completed
       /\ w.phaseAcct[p].committed = v.phaseAcct[p].completed

(***************************************************************************)
(* Restoring a job and writing it again changes nothing but its epoch and, *)
(* in the books of the phases, the bytes committed to flows that are gone: *)
(* they are written as they are and dropped by the reader, so the round    *)
(* trip is not the identity that the comment at fabric_state.cpp:290-293   *)
(* promises of the step's own books.  What it drops it drops once: books,  *)
(* allocators and reports do not drift with every further restart.         *)
(***************************************************************************)
RoundTripStable ==
  [][\/ UNCHANGED vars
     \/ UNCHANGED stored
     \/ SameButCommitments(stored, stored')]_<<vars, stored>>
=============================================================================
