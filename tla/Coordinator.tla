----------------------------- MODULE Coordinator ------------------------------
(***************************************************************************)
(* The coordinator process (ttf::Coordinator) in front of one fabric and   *)
(* one state store.  Every session is a thread; a mutating request takes   *)
(* its effect in the fabric (atomic, under the fabric's mutex) and then    *)
(* commit_state takes a snapshot, reads the next sequence, and runs        *)
(* StateStore::Commit, with no lock held from one step to the next.  The   *)
(* main thread runs Start, with a baseline commit before any session is    *)
(* served, and Stop, with a last commit.  The process or the machine may   *)
(* die at any step; clients reconnect with Hello.                          *)
(*                                                                         *)
(* The fabric is reduced to what durability and authority tell apart: the  *)
(* jobs with the boot identity, incarnation and epoch that hold them, and  *)
(* the set of mutations its state contains.  A Mutate request stands for   *)
(* every committed operation made under a token: groups, topology, policy, *)
(* steps, phases and retirement, whose own rules are module Fabric.        *)
(***************************************************************************)
EXTENDS StateStore, Sequences

CONSTANTS
  Sessions,       \* connections, one thread each
  Main,           \* the thread of Start and Stop
  Boots,          \* boot identities of client processes
  NoBoot,
  Rebasing,       \* config.allow_rebase_operation
  MaxJobs,        \* config.fabric.max_jobs
  MaxMutations,   \* bound: mutating requests in a behaviour
  MaxEpoch        \* bound: epochs reached by restarts and rebases

ASSUME CoordinatorAssumption ==
  /\ Threads = Sessions \cup {Main}
  /\ Main \notin Sessions
  /\ NoBoot \notin Boots
  /\ {MaxJobs, MaxMutations, MaxEpoch} \subseteq Nat
  /\ Rebasing \in BOOLEAN

VARIABLES
  status,         \* of the process: down, starting, serving, stopping
  fabric,         \* the fabric in memory
  epoch,          \* impl->epoch
  commitSequence, \* impl->commit_sequence
  degraded,       \* impl->degraded
  session,        \* what each connection has proven, and its client's epoch
  handler,        \* the request each thread is executing
  issued,         \* mutating requests so far (names them)
  acked,          \* history: mutations acknowledged to a client
  served          \* history: the greatest epoch any session was served under

memory == <<fabric, epoch, commitSequence, degraded>>
vars == <<storeVars, status, memory, session, handler, issued, acked, served>>

EmptyFabric == [jobs |-> <<>>, done |-> {}]
Closed == [boot |-> NoBoot, epoch |-> 0, job |-> 0, incarnation |-> 0]
Idle == [at |-> "idle", op |-> "none", id |-> 0, job |-> 0, incarnation |-> 0,
         epoch |-> 0, fabric |-> EmptyFabric, sequence |-> 0, late |-> FALSE]

Init ==
  /\ StoreInit
  /\ status = "down"
  /\ fabric = EmptyFabric
  /\ epoch = 0
  /\ commitSequence = 0
  /\ degraded = FALSE
  /\ session = [s \in Sessions |-> Closed]
  /\ handler = [t \in Threads |-> Idle]
  /\ issued = 0
  /\ acked = {}
  /\ served = 0

Bound(s) == session[s].job # 0
Job(j) == fabric.jobs[j]
Goes(t, at) == handler' = [handler EXCEPT ![t].at = at]
Replies(t) == handler' = [handler EXCEPT ![t] = Idle]
-----------------------------------------------------------------------------
(* Start: load, restore, advance the epoch, rebase every job onto it.      *)

Rebased(jobs, e) == [j \in DOMAIN jobs |-> [jobs[j] EXCEPT !.epoch = e]]

\* RebaseEpoch refuses an epoch some job has reached.
Rebasable(jobs, e) == \A j \in DOMAIN jobs : jobs[j].epoch < e

\* Mutant: the sequence of the stored state is not taken over.
RestoredUnsequenced(state) ==
  [fabric |-> [state.fabric EXCEPT !.jobs = Rebased(@, state.epoch + 1)],
   epoch |-> state.epoch + 1, sequence |-> 0]

\* Mutant: the epoch of the stored state is taken over as it is.
RestoredSameEpoch(state) ==
  [fabric |-> state.fabric, epoch |-> state.epoch, sequence |-> state.sequence]

Restored(state) ==
  [fabric |-> [state.fabric EXCEPT !.jobs = Rebased(@, state.epoch + 1)],
   epoch |-> state.epoch + 1, sequence |-> state.sequence]

Boot(started) ==
  /\ fabric' = started.fabric
  /\ epoch' = started.epoch
  /\ commitSequence' = started.sequence
  /\ degraded' = FALSE
  /\ status' = "starting"
  /\ Goes(Main, "effected")
  /\ UNCHANGED <<storeVars, session, issued, acked, served>>

\* Start fails, and the process stays down, when the live file is torn or when
\* a job has already reached the next epoch.
Start ==
  /\ status = "down"
  /\ \/ /\ live = Absent
        /\ Boot([fabric |-> EmptyFabric, epoch |-> 1, sequence |-> 0])
     \/ /\ Loaded(live) \notin {Absent, Torn}
        /\ content[live].epoch < MaxEpoch
        /\ Rebasable(content[live].fabric.jobs, content[live].epoch + 1)
        /\ Boot(Restored(content[live]))

\* The baseline is durable: the acceptor starts.
Serve ==
  /\ status = "starting"
  /\ handler[Main].at = "committed"
  /\ status' = "serving"
  /\ served' = IF epoch > served THEN epoch ELSE served
  /\ Replies(Main)
  /\ UNCHANGED <<storeVars, memory, session, issued, acked>>
-----------------------------------------------------------------------------
(* Sessions: HELLO, LOOKUP_HANDLE, and the mutating requests.              *)

CanReceive(s) == status = "serving" /\ handler[s].at = "idle"

Hello(s, b) ==
  /\ CanReceive(s)
  /\ session[s].boot = NoBoot
  /\ session' = [session EXCEPT ![s].boot = b, ![s].epoch = epoch]
  /\ UNCHANGED <<storeVars, status, memory, handler, issued, acked, served>>

\* The connection ends between two requests; another takes its place.
Disconnect(s) ==
  /\ CanReceive(s)
  /\ session[s].boot # NoBoot
  /\ session' = [session EXCEPT ![s] = Closed]
  /\ UNCHANGED <<storeVars, status, memory, handler, issued, acked, served>>

LookupHandle(s, j) ==
  /\ CanReceive(s)
  /\ session[s].boot # NoBoot
  /\ session' = [session EXCEPT ![s].job = j, ![s].incarnation = Job(j).incarnation]
  /\ UNCHANGED <<storeVars, status, memory, handler, issued, acked, served>>

\* A mutating request is decoded: the handler reads impl->epoch, and token_from
\* has compared it with the epoch the client was given at HELLO.
Receive(s, op, job, incarnation, e) ==
  /\ CanReceive(s)
  /\ session[s].boot # NoBoot
  /\ issued < MaxMutations
  /\ issued' = issued + 1
  /\ handler' = [handler EXCEPT ![s] =
       [Idle EXCEPT !.at = "received", !.op = op, !.id = issued + 1, !.job = job,
                    !.incarnation = incarnation, !.epoch = e, !.late = degraded]]
  /\ UNCHANGED <<storeVars, status, memory, session, acked, served>>

ReceiveRegisterJob(s) ==
  ~Bound(s) /\ Receive(s, "register", 0, 1, epoch)

ReceiveMutate(s) ==
  /\ Bound(s)
  /\ session[s].epoch = epoch
  /\ Receive(s, "mutate", session[s].job, session[s].incarnation, epoch)

\* The caller names the incarnation it expects to replace.
ReceiveAdmitReplacement(s, j) ==
  Receive(s, "replace", j, Job(j).incarnation, epoch)

ReceiveRebaseEpoch(s, requested) ==
  Rebasing /\ Receive(s, "rebase", 0, 0, requested)
-----------------------------------------------------------------------------
(* The effect in the fabric.                                               *)

\* resolve_authority, on what the model keeps of a job.
Holds(s, h) ==
  /\ Job(h.job).epoch = h.epoch
  /\ Job(h.job).incarnation = h.incarnation
  /\ Job(h.job).boot = session[s].boot

Replaceable(s, h) ==
  /\ Job(h.job).epoch = h.epoch
  /\ Job(h.job).incarnation = h.incarnation
  /\ Job(h.job).boot # session[s].boot

\* The fabrics the request may leave; none when it is refused.
Effects(s, h) ==
  LET with(jobs) == {[jobs |-> jobs, done |-> fabric.done \cup {h.id}]} IN
  CASE h.op = "register" /\ Len(fabric.jobs) < MaxJobs ->
         with(Append(fabric.jobs, [boot |-> session[s].boot, incarnation |-> 1,
                                   epoch |-> h.epoch]))
    [] h.op = "mutate" /\ Holds(s, h) -> with(fabric.jobs)
    [] h.op = "replace" /\ Replaceable(s, h) ->
         with([fabric.jobs EXCEPT ![h.job].boot = session[s].boot,
                                  ![h.job].incarnation = @ + 1])
    [] h.op = "rebase" /\ Rebasable(fabric.jobs, h.epoch) ->
         with(Rebased(fabric.jobs, h.epoch))
    [] OTHER -> {}

\* The job and incarnation the handle or the grant will carry.
Granted(h, after) ==
  CASE h.op = "register" -> [job |-> Len(after.jobs), incarnation |-> 1]
    [] h.op = "replace" -> [job |-> h.job, incarnation |-> h.incarnation + 1]
    [] OTHER -> [job |-> h.job, incarnation |-> h.incarnation]

Effect(s) ==
  LET h == handler[s] IN
  /\ h.at = "received"
  /\ \E after \in Effects(s, h) :
       /\ fabric' = after
       /\ handler' = [handler EXCEPT
            ![s] = [h EXCEPT !.at = IF h.op = "rebase" THEN "rebased" ELSE "effected",
                             !.job = Granted(h, after).job,
                             !.incarnation = Granted(h, after).incarnation]]
  /\ UNCHANGED <<storeVars, status, epoch, commitSequence, degraded, session, issued,
                 acked, served>>

\* A refusal changes nothing, except that RebaseEpoch may have rebased some of
\* the jobs it visited before the one that refuses.
Refuse(s) ==
  LET h == handler[s] IN
  /\ h.at = "received"
  /\ Effects(s, h) = {}
  /\ \E visited \in SUBSET {j \in DOMAIN fabric.jobs :
                              h.op = "rebase" /\ Job(j).epoch < h.epoch} :
       fabric' = [fabric EXCEPT !.jobs =
                    [j \in DOMAIN @ |-> IF j \in visited
                                        THEN [@[j] EXCEPT !.epoch = h.epoch] ELSE @[j]]]
  /\ Replies(s)
  /\ UNCHANGED <<storeVars, status, epoch, commitSequence, degraded, session, issued,
                 acked, served>>

\* REBASE_EPOCH: the coordinator's own epoch follows, in a step of its own.
SetEpoch(s) ==
  /\ handler[s].at = "rebased"
  /\ epoch' = handler[s].epoch
  /\ served' = IF epoch' > served THEN epoch' ELSE served
  /\ Goes(s, "effected")
  /\ UNCHANGED <<storeVars, status, fabric, commitSequence, degraded, session, issued, acked>>
-----------------------------------------------------------------------------
(* commit_state.                                                           *)

\* Mutant: commit_state does not look at the degraded flag.
PassDegraded(t) ==
  /\ handler[t].at = "effected"
  /\ Goes(t, "cleared")
  /\ UNCHANGED <<storeVars, status, memory, session, issued, acked, served>>

CheckDegraded(t) ==
  /\ handler[t].at = "effected"
  /\ IF degraded THEN Replies(t) ELSE Goes(t, "cleared")
  /\ UNCHANGED <<storeVars, status, memory, session, issued, acked, served>>

TakeSnapshot(t) ==
  /\ handler[t].at = "cleared"
  /\ handler' = [handler EXCEPT ![t].at = "snapshot", ![t].fabric = fabric]
  /\ UNCHANGED <<storeVars, status, memory, session, issued, acked, served>>

ReadSequence(t) ==
  /\ handler[t].at = "snapshot"
  /\ handler' = [handler EXCEPT ![t].at = "sequenced", ![t].sequence = commitSequence + 1]
  /\ UNCHANGED <<storeVars, status, memory, session, issued, acked, served>>

\* Mutant: the header carries the epoch the request arrived under.
StoredAsReceived(t) ==
  [epoch |-> IF handler[t].op = "rebase" THEN session[t].epoch ELSE epoch,
   sequence |-> handler[t].sequence, fabric |-> handler[t].fabric]

StateToStore(t) ==
  [epoch |-> epoch, sequence |-> handler[t].sequence, fabric |-> handler[t].fabric]

CallStore(t) ==
  /\ handler[t].at = "sequenced"
  /\ Call(t, StateToStore(t))
  /\ Goes(t, "storing")
  /\ UNCHANGED <<status, memory, session, issued, acked, served>>

InStore(t) ==
  /\ handler[t].at = "storing"
  /\ StoreStep(t)
  /\ UNCHANGED <<status, memory, session, handler, issued, acked, served>>

RecordCommit(t) ==
  /\ handler[t].at = "storing"
  /\ call[t].at = "done"
  /\ Return(t)
  /\ commitSequence' = handler[t].sequence
  /\ Goes(t, "committed")
  /\ UNCHANGED <<disk, lastSequence, failures, status, fabric, epoch, degraded, session,
                 issued, acked, served>>

\* A failed commit degrades the coordinator; the request is refused.
FailCommit(s) ==
  /\ handler[s].at = "storing"
  /\ call[s].at = "failed"
  /\ Return(s)
  /\ degraded' = TRUE
  /\ Replies(s)
  /\ UNCHANGED <<disk, lastSequence, failures, status, fabric, epoch, commitSequence,
                 session, issued, acked, served>>

\* Mutant: the reply does not wait for the commit.
ReplyEarly(s) ==
  /\ handler[s].at \in {"sequenced", "committed"}
  /\ acked' = acked \cup {handler[s].id}
  /\ Replies(s)
  /\ UNCHANGED <<storeVars, status, memory, session, issued, served>>

\* The acknowledgement; registration and replacement bind the session first.
Reply(s) ==
  /\ handler[s].at = "committed"
  /\ session' = IF handler[s].op \in {"register", "replace"}
                THEN [session EXCEPT ![s].job = handler[s].job,
                                     ![s].incarnation = handler[s].incarnation]
                ELSE session
  /\ acked' = acked \cup {handler[s].id}
  /\ Replies(s)
  /\ UNCHANGED <<storeVars, status, memory, issued, served>>
-----------------------------------------------------------------------------
(* Stop, and the deaths of the process.                                    *)

Stop ==
  /\ status = "serving"
  /\ status' = "stopping"
  /\ UNCHANGED <<storeVars, memory, session, handler, issued, acked, served>>

\* Every session thread has finished its request and was joined.
Joined ==
  /\ status = "stopping"
  /\ \A t \in Threads : handler[t].at = "idle"

FinalCommit ==
  /\ Joined
  /\ ~degraded
  /\ Goes(Main, "effected")
  /\ UNCHANGED <<storeVars, status, memory, session, issued, acked, served>>

\* The memory of the process is gone.
Gone ==
  /\ status' = "down"
  /\ fabric' = EmptyFabric
  /\ epoch' = 0
  /\ commitSequence' = 0
  /\ degraded' = FALSE
  /\ session' = [s \in Sessions |-> Closed]
  /\ handler' = [t \in Threads |-> Idle]
  /\ UNCHANGED <<issued, acked, served>>

\* Stop returns, or Start fails because its baseline commit did.
Exit ==
  /\ \/ Joined /\ degraded
     \/ status = "stopping" /\ handler[Main].at = "committed"
     \/ call[Main].at = "failed"
  /\ ProcessDies
  /\ Gone

Crash ==
  /\ status # "down"
  /\ ProcessDies \/ PowerFails
  /\ Gone

SessionNext(s) ==
  \/ \E b \in Boots : Hello(s, b)
  \/ Disconnect(s)
  \/ \E j \in DOMAIN fabric.jobs : LookupHandle(s, j) \/ ReceiveAdmitReplacement(s, j)
  \/ ReceiveRegisterJob(s)
  \/ ReceiveMutate(s)
  \/ \E e \in 1..MaxEpoch : ReceiveRebaseEpoch(s, e)
  \/ Effect(s)
  \/ Refuse(s)
  \/ SetEpoch(s)
  \/ FailCommit(s)
  \/ Reply(s)

CommitNext(t) ==
  \/ CheckDegraded(t)
  \/ TakeSnapshot(t)
  \/ ReadSequence(t)
  \/ CallStore(t)
  \/ InStore(t)
  \/ RecordCommit(t)

MainNext == Start \/ Serve \/ Stop \/ FinalCommit \/ Exit \/ Crash

Next ==
  \/ MainNext
  \/ \E s \in Sessions : SessionNext(s)
  \/ \E t \in Threads : CommitNext(t)

Spec == Init /\ [][Next]_vars
-----------------------------------------------------------------------------
(* Properties.                                                             *)

\* What a restart would find.
Durable(inode) == IF Loaded(inode) \in {Absent, Torn} THEN {} ELSE content[inode].fabric.done

\* No acknowledged mutation is missing from the state on disk: "only then
\* publishes the response" (coordinator.cpp, commit_state and its callers).
AckedSurvive == \A inode \in {live, liveOnDisk} : acked \subseteq Durable(inode)

\* Seen from outside, mutations become durable one at a time, before they are
\* acknowledged, and stay (commit_state and StateStore::Commit together).
Promise == INSTANCE DurableMutations WITH
  Mutations <- 1..MaxMutations, durable <- Durable(live), acked <- acked
MutationsAreDurable == Promise!Spec

\* No epoch is served by two runs of the coordinator, whatever died when: a
\* session id or token of an earlier run never matches a current one (Start).
\* It holds without REBASE_EPOCH, whose epoch is served before it is stored.
EpochsFresh == [][status = "starting" /\ status' = "serving" => epoch' > served]_status

\* The state on disk can be started from: no job is ahead of the epoch stored
\* with it, or Start would fail with Conflict for ever (Start, RebaseEpoch).
Startable ==
  \A inode \in {live, liveOnDisk} :
    Loaded(inode) \notin {Absent, Torn} =>
      Rebasable(content[inode].fabric.jobs, content[inode].epoch + 1)

\* A request received by a degraded coordinator is never acknowledged, also
\* when a commit of another session is still under way (commit_state).
DegradedNeverAcks == [][\A s \in Sessions : handler[s].late => handler[s].id \notin acked']_acked
=============================================================================
