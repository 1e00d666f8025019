# Training Traffic Fabric: specification, model checking and proofs

The Training Traffic Fabric arbitrates the network traffic of distributed training jobs. A *fabric* (a
deterministic state machine) decides, per job, which traffic intents may run on which parallelism group at what
rate; a *coordinator* process puts it behind a socket, gives every connection a thread, and commits the state to a
single file before it acknowledges anything. This directory holds TLA+ models of those parts, the TLC runs that
check them and TLAPS proofs about them. Paths are relative to the repository (`fabric_core.cpp` is
`src/src/fabric_core.cpp` as `PROJECT.json` names it).

Run from this directory:

    tlc -config FabricLifecycle.cfg MCFabric      # also FabricTraffic, LateGroup
    tlc -config RestartCodec.cfg MCRestart        # also Unrestorable
    tlc -config CoordinatorAlone.cfg Coordinator  # also CoordinatorShared, LostAck, RebaseRace
    tlc -config AcceptorChurn.cfg Acceptor
    tlc -config ClientRecovery.cfg MCClient
    tlc -config ScenarioChecks.cfg MCPublisher
    tlapm FabricProofs.tla ; tlapm LedgerProofs.tla ; tlapm GrantProofs.tla ; tlapm RestartProofs.tla
    tlapm CoordinatorProofs.tla ; tlapm AcceptorProofs.tla ; tlapm Pacing.tla ; tlapm ClientProofs.tla

## 1. The system

| Component | State | Operations | Interacts with |
|---|---|---|---|
| Fabric core (`fabric_core`, `fabric_traffic`, `fabric_recovery`) | per job: epoch, incarnation, boot identity, retired incarnations, groups, topology evidence, open step with phases, flows and burst, per-group utilisation, decisions, receipts, reports; one policy | register, publish, apply, begin/end step and phase, request, complete, revalidate, burst, replace, retire | pure; called through the facade |
| Fabric facade (`fabric_api`) | the fabric state and one mutex | every operation above, `RebaseEpoch`, `Snapshot`, `Restore` | locks the mutex from first to last line of every method |
| Model and validators (`model.cpp`, `policy.hpp`, ...) | none | validate documents, contracts, evidence | called by the core before it changes anything |
| Snapshot codec (`fabric_state.cpp`) | none | `serialize`, `deserialize` | called by `Snapshot`, `Restore` |
| State store (`persistence.cpp`) | two paths on disk, `last_sequence_` | `Load`, `Commit` | file system; called by coordinator threads, without a lock |
| Coordinator (`coordinator.cpp`) | fabric, store, `epoch`, `commit_sequence`, `degraded`, sessions, stop flag, wake pair | `Start`, `Stop`, HELLO, SHUTDOWN, about twenty requests | one acceptor thread, one thread per session, the main thread |
| Wire protocol (`wire.cpp`) | replay window of a session | encode, decode, `ReplayWindow::accept` | called by client and session |
| Client (`client.cpp`) | connection, boot identity, handle, current step, sequence number | connect, the calls (`transact`), raw frames, close | coordinator |
| Applications (`ttf-publisher`, `ttf-ctl`, the example) | progress through a scenario, failed checks | the scenarios | client; `ttf-ctl simulate` and the example a fabric of their own |
| Networking, codec, utilities | sockets, buffers | | leaves |

Communication is by framed request and response over one connection per client; between the threads of the
coordinator by shared members (some atomic, some under a mutex, `epoch` and `commit_sequence` under none), a stop
flag and a wake pair; between runs of the coordinator by the state file.

What is hard, and what makes each part correct:

* **Fabric core.** No concurrency inside (one mutex), but long sequences: utilisation, bytes and counts are kept by
  increments on six different paths, several of which saturate at zero instead of failing; policy, topology, bursts and
  replacement each invalidate some of what was granted before. Correct means: nothing is held under an authority that no
  longer resolves; the increments equal the sums they stand for; a link is never over-committed; preemption and
  isolation take exactly what the rules allow; a flow is credited once; records tell the truth.
* **State store.** A crash or power loss between any two system calls; concurrent callers sharing a temporary path.
  Correct means: a reader finds no file or a whole one, and its sequence only grows.
* **Coordinator.** Effect, snapshot, sequence and commit are separate steps of each session thread; a failed commit
  after the effect; epochs that must never be served twice. Correct means: what is acknowledged survives; a restart is
  always possible; a degraded coordinator acknowledges nothing.
* **Threads.** Stop racing accept, a client that stops in the middle of a frame, wake-ups between two threads. Correct
  means: bounded threads, every ended session reaped, every stop completes.
* **Client.** A reply lost after the effect, a process that comes back on a second connection while the session of the
  first still carries out what it had read, a job taken over by another process, a crash of the coordinator: what the
  client tracks, what the session believes of it and what the fabric holds are three copies of one authority. Correct
  means: only the holder changes the job, the holder knows its open step, and a client that has just looked its handle
  up is honoured.
* **Programs.** Multi-process scenarios with a primary that is killed in the middle of its step. Correct means: every
  check they make holds wherever the kill and the crash fall, and every process comes to its end.

`PROJECT.json` lists every hazard at its line with the properties that watch it.

## 2. Modules

    TrafficPolicy ── Fabric ── MCFabric                 (TLC instances)
                        ├───── FabricProofs ── LedgerProofs ── GrantProofs    (TLAPS)
                        └───── Restart ── MCRestart     (TLC instance)
                                  └─── RestartProofs    (TLAPS, with GrantProofs)
    StateStore ──── Coordinator ── CoordinatorProofs    (TLAPS)
                        └── DurableMutations            (abstract, INSTANCE with a refinement mapping)
    Acceptor ── AcceptorProofs                          (TLAPS)

    Restart ── Client ── MCClient                       (TLC instance)
                  ├───── ClientProofs                   (TLAPS, with RestartProofs)
                  └───── Publisher ── MCPublisher       (TLC instance)
    Scenarios ──────────────┤
    Pacing (TLAPS) ─────────┤
    ReplayWindow ───────────┘

**TrafficPolicy** holds the pure operators: what `PolicyDocument::validate` guarantees, the priority a class is
arbitrated at inside and outside isolation, the test that decides whether a flow survives a new generation, saturating
subtraction and sums.

**Fabric** is the core for one job. Every operation is one action because every public method holds the mutex
throughout; jobs share only the policy and the job-id allocator. Its variables are the members of `JobState`,
`StepState` and `FlowState` that a guard or a property reads. `step.acct` is the step's `StepAccounting`, `phaseAcct` the
`PhaseAccounting` of each of its phases, of which the bytes are kept; a closed step leaves both in `history`, as
`build_report` does.

| Action | Code |
|---|---|
| `Init` | `register_job` |
| `RegisterGroup`, `PublishTopology`, `ApplyPolicy`, `RetireJob`, `RebaseEpoch` | the functions of those names, with `Invalidate` for `invalidate_for_generation_change` and `FenceOpenStep` for `fence_open_step` |
| `BeginStep`, `BeginPhase`, `EndPhase`, `EndStep` | the functions of those names |
| `RequestTraffic` = `Unresolved`, `Rejected`, `Held` or `Admitted` | the exits of `request_traffic`; `Victims` is `arbitrate_capacity` |
| `CompleteFlow`, `RevalidateFlow`, `BeginCheckpointBurst`, `EndCheckpointBurst` | the functions of those names |
| `AdmitReplacement`, `RetireIncarnation` | the functions of those names |

`arbitrate_capacity` sorts its candidates and takes them until the request fits; the model says which set that is: a
candidate is a victim when all candidates before it do not suffice. A token carries the current or the previous value
of each field it is compared on; `resolve_authority` compares for equality (the policy's generation excepted, where a
future one is enumerated), so one stale value stands for all. Operations refused by `resolve_authority` change fence
records and statistics only and are stuttering steps; `RequestTraffic` is modelled when refused too, because it mints
an id and records a decision, and so is `RevalidateFlow` when it changes nothing, because its answer (`StillValid`) is
what a client reads. With `AnyAge` a token may carry any earlier value: no guard tells those from the previous one, but
a request of `Client` may be of any age when it is carried out, and what the session then does is a step of `Fabric` by
name (`JobIsServed`). The other runs set it to FALSE.

**StateStore** is `StateStore::Commit` one system call at a time, for any number of threads inside it. A file is an
inode, because `fopen`, `flush_file` and `rename` each look the temporary path up again: another thread may have
renamed or truncated what it names. `Written` is the one place where data is abstract: two writers of one inode may
leave a mixture, which is `Torn`, what the header, checksums and end marker of `DecodeFile` recognise. `PowerFails`
tears every inode that was not flushed and may undo a rename whose directory was not flushed.

**Coordinator** EXTENDS it with the process: `Start` (load, restore, advance and rebase the epoch, baseline commit,
then serve), HELLO, LOOKUP_HANDLE and the mutating requests, `Stop` with its last commit, crash and power loss at any
step. A request is `Receive` (the epoch is read, the session's handle is checked), `Effect` or `Refuse` in the fabric,
and then `commit_state`: `CheckDegraded`, `TakeSnapshot`, `ReadSequence`, `CallStore`, the steps of Commit,
`RecordCommit` or `FailCommit`, and `Reply`. The fabric is reduced to its jobs (boot identity, incarnation, epoch) and
the set of mutations it contains; `Mutate` stands for every committed operation made under a token. That set is what
relates memory, snapshot, disk and acknowledgement.

**DurableMutations** is the promise to a client: a mutation becomes durable at one moment, by itself; only then is it
acknowledged; it may be lost before, never after. `MutationsAreDurable` says Coordinator implements it, `durable`
mapped to the mutations in the live file.

**Restart** EXTENDS Fabric with the state codec. `Commit` stores the job as `write_job` writes it, at any moment,
because an operation on any job stores the whole fabric; `Restart` is a crash followed by `Start`: what `read_job`
accepts (`Readable`) is restored under a later epoch, without flows, decisions or receipts, and stored again. The books
of the step are written without its live flows (`Reconciled`), those of its phases as they are, and the reader takes the
flows out of them (`PhasesBooked`). `ReaderMax` holds the counts of the reader the code does not make the same as a limit
of the fabric: 4096 phases of a step or summaries of a report (fabric_state.cpp:333, 430) and 4096 retired incarnations,
of which `admit_replacement` keeps the latest 64 (`MaxRetired`). The reader's other counts are a limit the fabric keeps
under the same name (groups, reports) or are of fence records, which are trimmed to the 64 it accepts and left out.
That phases, groups and links are strictly ordered in the file is how `write_job` walks its maps.

**Acceptor** is the thread structure: listener and wake pair, session limit, frames that arrive in parts, reaping,
SHUTDOWN and Stop, teardown.

**Client** EXTENDS Restart with trainer processes and sessions: the whole path of a call through `Client`, `run_session`,
`dispatch_request`, the fabric and the commit, for one job.

| Action | Code |
|---|---|
| `Connect` | `Client::Connect` with HELLO: a fresh boot identity, or the one of `config.boot_seed` again; the epoch is read |
| `Call`, `Send` | the calls of `Client`: `authority()` builds the `Token` from what is tracked, `transact` sends it |
| `Execute`, `RefuseRequest` | `dispatch_request`: `Proven` is `ensure_bound`, `session_envelope` and `token_from`, `Perform` the operation in `Fabric` |
| `CommitEffect` | `commit_state`, then `bind_session` (a crash may fall between the effect and this step) |
| `FailCommit` | `commit_state` fails: it is degraded, the snapshot cannot be made, or the store fails and degrades it. The effect stands, the reply is an error (`failure(committed)`) and nobody is bound |
| `Receive` | the caller of `transact` reads the reply: `Learnt` is what it then tracks |
| `Disconnect` | either end loses the connection, also with a request under way: the session becomes an orphan |
| `EndSession` | `run_session` ends because its reply cannot be sent |
| `CrashAndRestart` | the coordinator dies and `Start` restores what was committed |

A refused call (`~Accepts`) changes nothing and answers `Refusal`. A call whose commit failed has changed the fabric and
answers `Failure`; a client cannot tell the two apart. `behind` records, for the properties only, in what such an answer
has left the client behind: the step it opened or closed, or the evidence it published. How a commit is made is left to
`Coordinator`; here it is one step that happens or fails, with the new state on the disk or not (a store can fail after
its rename), and the properties of `Client` hold at every moment between an effect and that step. A crash, or a stop and
a start, is what ends the degraded mode.

A `Client` is moved in the programs only before it has opened a step (publisher_main.cpp:144), and moving it is left out:
its move constructor forgets the step it tracks and its move assignment keeps that of the client assigned to
(client.cpp:29-59), so a program that moved one later would not track its step.

**Scenarios** is data: each program of the repository as the sequence of its calls, with the default policy, its
contract, its links and the answer each `Checks::expect` counts on. **Publisher** runs them: `CallNext` and `Hear` take a
process through its scenario over `Client`; `CallDirectly` is a program that holds a fabric of its own; `Kill` and `Cued`
are the driver of the multi-process test, which kills the primary once its step is open and then starts the replacement;
`CutOff` is a crash. A process that is told of a failed commit gives up (`GiveUp`), as the scenarios return the error of
every call but EndPhase, whose answer is only a check. A session of Publisher has the two parts `Client` leaves out: the replay window in front of every
request (`Passed` or `Fence`) and EVALUATE_PACING (`EvaluatePacing`).

**ReplayWindow** is `ReplayWindow::accept`: what is acceptable, and the window after it. **Pacing** is the answer of
`evaluate_pacing` as a function of the intent, the time and the deadline; its record budget is left out.

## 3. What the runs check

States are distinct states found; every run takes three minutes or less on two workers.

| Run | Bounds | Properties |
|---|---|---|
| `fabric_lifecycle` | 2 boot identities, 2 incarnations, epochs 0..1, 2 generations of topology and of the policy, 2 steps, 2 intents; 110,328 states | `OpenStepIsHeld`, `LiveFlowsHoldAuthority`, `AccountsBalance`, `TopologyBound`, `StepsAdvance`, `CreditedOnce` |
| `fabric_traffic` | a link of 3, three phases (urgent, ordinary, best-effort) and a checkpoint burst, 3 intents, 2 decisions retained; 374,440 | `UtilizationMatchesFlows`, `PhaseAccountsBalance`, `WithinCapacity`, `GrantsWithinCeilings`, `PreemptionIsJust`, `TypeOK`, `IsolationHolds`, `DecisionsAgree`, `GrantsOnlyShrink` |
| `restart_codec` | 3 epochs (two restarts, or a rebase and a restart), 2 steps, 2 phases of which a step may have 1 and the reader accepts 1, 1 intent, 1 report kept, a lenient and a remapping policy; 214,251 | `Restorable`, `PhaseAccountsBalance`, `RoundTripStable`, `UtilizationMatchesFlows`, `FlowsMatchPolicy` |
| `coordinator_alone` | 1 session, 2 mutations, epochs to 3, rebasing on, 1 I/O error, crashes without bound; 2,353,866 | `LiveIsWhole`, `Startable`, `SequenceAdvances`, `MutationsAreDurable` |
| `coordinator_shared` | 2 sessions of 2 processes, 2 mutations, 2 epochs, rebasing off, 1 I/O error; 2,694,226 | `EpochsFresh`, `DegradedNeverAcks` |
| `acceptor_churn` | 3 connections, 2 session slots; 176,072 | `ThreadsBounded`, `StopCompletes`, `FinishedAreReaped` |
| `client_recovery` | 2 processes, 2 sessions, 2 boot identities (`MaxBoots`), 3 requests (`MaxCalls`) of 8 operations, commits that fail, crashes up to the last epoch; 1,688,608 up to symmetry | `HolderKnowsStep`, `EnvelopesAgree`, `ToldIsTrue`, `HonouredOnceLookedUp`, `OnlyTheHolderActs` |
| `scenario_checks` | every scenario, the primary with its replacement, one crash, commits that fail, a window of 256 nonces (`Window`), a clock of 1..60 (`MaxTicks`); tokens of any age; 7,548 | `ChecksHold`, `OrdinaryFramesPass`, `DeadStepIsClosed`, `ScenariosFinish`, `JobIsServed` |

Why the bounds are enough to be interesting. Lifecycle: a replacement needs a second process and incarnation, a
resumed step needs a second step id, stale evidence a second generation, and a double credit a second intent.
Traffic: on a link of 3, grants of 1 and 2 make a request fit, need one victim, need two, or fail; the classes give a
protected, an urgent and a preemptible one, a burst finds one flow of each fate (kept, cut, displaced), and a table of
two decisions evicts. Restart: two steps fill and overflow a history of one, a state stored in the middle of a step with a
live flow has books to reconcile, a second phase meets the limit of the contract, which is the reader's too, and a second restart
starts from what the first one stored; no process is replaced there, so the trimming of retired incarnations is only
proved (`JobsAreRestorable`). Coordinator: two mutations are the
least for one to be overwritten by the other's older snapshot; three epochs are a start, a rebase and a restart; 3 or 5
inodes are the live, the flushed-live, the temporary one and one handle per thread, so none is ever missing. Acceptor:
the third connection meets a full table and reuses a freed slot. Client: the second session is the orphan of the first;
a takeover takes a second boot identity and a request, whether another process makes it or the first one, come back as
another while its orphan still acts; the third request is the orphan's, the intruder's or the stale one. A third identity
would let both happen in one behaviour; the theorems cover any number. Scenarios: the
programs bound themselves; no scenario sends more than 256 frames, so the window never slides, and all ticks of a
scenario lie below 60. `JobIsServed` is checked here because the programs take a job through all of its life, the takeover
of a dead primary and the crash included; for all processes and requests it is a theorem.

Deadlock is not checked: identifiers are bounded, so a model may come to its end where the program would go on, and a
stopped process may stay stopped. Every property is broken by a mutant of the code it is about, listed in
`PROJECT.json`: the operators marked "Fault" or "Mutant" in the modules.

**Preconditions.** `RegisteredTrafficOnly` says that callers name only registered groups in an intent, and
`RegisteredEvidenceOnly` that they publish evidence for registered groups only; the fabric checks neither. The passing
fabric runs, `restart_codec`, `client_recovery` and `scenario_checks` assume the first, `restart_codec` the second;
`late_group` and `unrestorable` show what happens without them. `Restorable` has a second condition, that the contract
allows no more phases in a step than the reader accepts (4096): `WorkloadContract` may allow 65536 (model.cpp:318) and
`begin_phase` (fabric_core.cpp:755) tests nothing else. With a reader of one phase fewer than the contract TLC finds a
job that is stored and never read again. The policies of the runs cap UNKNOWN phases (`unknownCeiling` is not 0, as in the default policy).

### Runs that show a disagreement with the documents

* `late_group`. `request_traffic` accepts an intent for an unregistered group that evidence names; `register_group`
  (fabric_core.cpp:642) then resets that group's utilisation under its live flows, and the next request over-commits
  the link. property_tests.cpp:133 says "a group can never be over-committed".
* `lost_ack`. Two sessions in `commit_state` (coordinator.cpp:126): one takes its snapshot, the other acts, commits and
  acknowledges, the first reads the next sequence and stores its older snapshot. README.md:124 says an acknowledgement
  is never published before its durability point.
* `rebase_race`. REBASE_EPOCH rebases the jobs, then assigns `impl->epoch` (coordinator.cpp:645-649). A commit of
  another session in between stores jobs that are ahead of the stored epoch; after a crash every `Start` fails with
  Conflict.
* `unrestorable`. `publish_topology` accepts evidence for a group that is not registered and the coordinator stores it;
  `read_job` (fabric_state.cpp:664) refuses it, so no later `Start` succeeds. README.md:116 lists topology evidence as
  durable, and the comment at fabric_state.cpp:668 says a job must survive a snapshot round trip. The example publishes
  such evidence itself (fabric_demo.cpp:91): its links name a group it never registers.

Met while modelling and kept out of the properties above, without a run of their own:

* The comment at fabric_state.cpp:290-293 says the reconciled form "keeps serialize/deserialize idempotent". It does for
  the books of the step; those of its phases (283-287) are written with the bytes of live flows and read without them
  (343), so the state is written differently after a restart, once. `RoundTripStable` says exactly that, and
  `PhaseAccountsBalance` that what is dropped is what belonged to flows that are gone.
* A job within its contract may have more than 4096 phases in a step, is stored, and is refused by every later `Start`
  (fabric_state.cpp:333, 430), where the comment at 668 says it must survive a snapshot round trip.
* A client that is told of an error may have had its way (coordinator.cpp:585, 675): it then does not know the step it
  has opened, cannot close it, and tracks evidence that is superseded. `HolderKnowsStep` and `HonouredOnceLookedUp`
  name these as exceptions; TLC finds both when they are taken out.
* TLC found each of these five in the models as they stand, stated as a property for the occasion. Among flows of one
  priority `arbitrate_capacity` (fabric_core.cpp:387) takes the older one, where decisions.md:64 says ties break on
  criticality, then slack; `ArbitrationKey`, which would do so, is unused. A process admitted as a replacement tracks the
  generations of its earlier handle (client.cpp:530), so its first request may be refused as stale, where protocol.md:45
  says authority is regained through ADMIT_REPLACEMENT. A stop shuts the sockets down before it joins the sessions (coordinator.cpp:1237),
  so a reply under way is cut, where architecture.md:51 says a session that is mid-request always finishes its reply
  first. After a crash the intent allocator goes back to its stored value (fabric_traffic.cpp:93), where
  architecture.md:31 says the allocators are monotonic. A policy with `unknown_phase_ceiling_bps` 0 is valid (model.cpp:515
  bounds it from above only); `request_traffic` (fabric_traffic.cpp:168) takes the minimum of the class ceiling and 0 and
  reads that 0 as no ceiling, so an UNKNOWN phase is granted more than the ceiling of its class, where decisions.md:71
  says UNKNOWN phases are capped.
* Commitments lost in a crash are released, not "reconciled as cancelled" (README.md:122): `write_open_step` takes them
  off the books, no counter of cancellations moves, and the reconciliation in `read_open_step` never finds anything.
* `pacing_records` (fabric_traffic.cpp:593) is counted and never reset, so once a job has had its budget of evaluations
  every further one is refused until the coordinator restarts.
* REBASE_EPOCH serves its epoch before storing it (coordinator.cpp:649), so with rebasing a restart may serve that epoch
  again, and `EpochsFresh` is checked without it; with no jobs, `RebaseEpoch` accepts a lower epoch (fabric_api.cpp:80).
* Two threads inside Commit can leave a torn live file (persistence.cpp:202): `LiveIsWhole` holds for one session and is
  violated with two.
* A degraded coordinator performs a mutation in memory and then refuses it (coordinator.cpp:123).
* A class ceiling lowered below the maximum, but not the minimum, of a live grant leaves the grant (fabric_core.cpp:539); a burst leaves the maximum of a flow
  whose minimum is within the isolation ceiling (fabric_traffic.cpp:527), and its own flows keep their priority after it;
  a phase that ends leaves the decisions of its flows reading as admitted (fabric_core.cpp:787).
* Evidence republished under a policy that is not strict keeps flows granted on the old capacity (fabric_core.cpp:663),
  which is why `TopologyBound` and `WithinCapacity` are checked under strict ones.

### Fairness

`Acceptor`: weak fairness of the acceptor's steps and of each session thread's. Both are threads the operating system
schedules, and none of their steps waits on another of their own kind for ever. Nothing is assumed of clients (a client
may stop in the middle of a frame) or of the caller of Stop.

`Publisher`: weak fairness of each process (`Begin`, `Played`) and of each session thread (`Served`). A process is a
program that runs and a session a thread that runs; the kill of the primary and the crash are not fair, so nothing that
is claimed depends on their happening: `ScenariosFinish` asks for the end of a process only once its cue has come.

The other modules check safety and a refinement without liveness; they need none.

## 4. What is proved

`FabricProofs` (TLAPS, 1682 obligations) for every choice of groups, boot identities, policies, evidence, intents and
bounds that satisfies `FabricAssumption`:

* `HeldInvariant`, `StepIsHeld`: `FabricSpec => []OpenStepIsHeld`. The inductive invariant `HeldInv` adds the record
  shapes of the step and of flows, and that what is closed was begun (`lastClosed <= highestStep`): without the latter
  a new step could be opened at or below a closed one.
* `AuthorityInvariant`: `FabricSpec => []LiveFlowsHoldAuthority`, relative to `HeldInv`: a flow is granted under a token
  that names the open step and its incarnation, and every action that changes incarnation, boot identity or step first
  closes the step with its flows.

The other theorems of the module build on `HeldInv`:

* `FlowsAreCreditedOnce`: `FabricSpec => CreditedOnce`. The inductive invariant `CreditInv` says that every flow and
  every receipt has an id below `nextIntent` and that no id has both. Every path that closes flows is shown to write one
  receipt for each of exactly those flows (`ClosedOnce`), and a new flow takes an id nobody has.
* `ClassesFollowPolicy`: `FabricSpec => []FlowsMatchPolicy`, under strict policies and others. `MatchInv` adds that phase
  ids are below `nextPhase`: otherwise a new phase could give the flows of an older one another class.
* `StepsOnlyAdvance`: `FabricSpec => StepsAdvance`. `HistoryInv` says that the retained reports are in strict order and
  none is later than `lastClosed`; together with `lastClosed <= highestStep` of `HeldInv` this survives trimming the history
  from the front and a takeover that closes the step of another. It uses that the contract's `historySteps` is a natural
  number.
* `FlowsBoundToTopology`: `[]TopologyBound` if every policy document is strict (`AllStrict`). The hypothesis is necessary:
  evidence republished under a lenient policy keeps its flows. `BoundInv` adds that the policy in force is one of the
  documents and that generation 0 has no links.
* `DecisionsTellTheTruth`: `[]DecisionsAgree` if every policy document is strict. `AgreeInv` relates each decision to its
  flow, and is stronger than the property in two ways: decisions have ids below `nextIntent`, so recording one rewrites no
  other, and the decision of a live flow is of the policy in force, so revalidation has nothing to withdraw from it.
  The case with content is the burst, which rewrites flow and decision separately (`CutAgrees`). Under a lenient policy
  a flow may outlive its policy, and revalidation withdraws its decision while it runs.

`LedgerProofs` (2951 obligations) is about sums. `SumTo` adds up a function over the flows by a recursive function on the
naturals; the provers cannot instantiate the library's induction rules, so the induction is made from the existence of a
least element (`WFMin`), which gives what is needed: the sum over a set of flows changes by the weight of a flow that
enters, leaves or is cut, and is not less than the sum over a subset. `NumberInv` is the layer all of it rests on: the
rates and bytes of flows are naturals, the policy in force is one of the documents, the phases have classes it knows.

* `UtilizationIsExact`: `[]UtilizationMatchesFlows` if intents name registered groups. The code subtracts with
  `saturating_sub` on every path; the theorem says that none of those subtractions ever saturates. The hypothesis is
  necessary: `late_group`.
* `BooksBalance`: `[]AccountsBalance`, without a hypothesis. The counters of the open step (flows, committed rate, bytes)
  equal the sums over its live flows and what has ended, and a report is taken only when nothing is live. `AccountInv` adds
  that every counter is a natural number. It has a parameter: with `exact` FALSE it leaves out that as many flows were
  admitted as are live or have ended, which is all that a restart breaks (`RestartProofs`).
* `PhaseBooksBalance`: `[]PhaseAccountsBalance`, without a hypothesis. `PhaseInv` adds that the books are
  natural numbers, and relies on `MatchInv` for phase ids that are used once, so that a new phase starts with no flow of
  its own. What several cancelled flows take out of a phase is the sum over those of that phase, which the subtractions of
  `close_flow`, saturating too, never cut short; that the phases together completed what the step did is `CompletedSum`.

`GrantProofs` (1293 obligations):

* `CapacityHolds`: `[]WithinCapacity` if policies are strict and intents name registered groups. It follows from
  `UtilizationMatchesFlows`: the victims of an admission free what the request needs, and a strict policy closes every flow
  when evidence is republished.
* `BurstsIsolate`: `[]IsolationHolds` if every policy document is strict. `IsolationInv` adds that every phase has a class
  in the policy in force and every flow a class with a specification and a natural rate: `begin_checkpoint_burst` passes
  over a flow whose class it does not find, which would leave it running. That the class maps of all documents have one
  domain is an assumption of `FabricAssumption` (`phase_class_map` is an array over all phase classes), as is that rates
  are naturals (they are unsigned in the code). `TrafficPolicies` of the run is strict too.
* `CeilingsHold`: `[]GrantsWithinCeilings` if policies are strict and cap UNKNOWN phases (`UnknownCapped`). Both are
  necessary: see the cap of 0 and the lowered ceiling in section 3.
* `FlowsAreNeverRepriced` (`GrantsOnlyShrink`) and `PreemptionsAreJust` (`PreemptionIsJust`), for all policies: what a live
  flow was granted only shrinks, and whoever a request displaces is preemptible, of its group and less urgent.
* `TypesHold`: `[]TypeOK`, the type of every variable.

`RestartProofs` (1067 obligations) takes the job through its codec. The argument goes round once: the invariants of the
fabric bound what `write_job` can meet (`WrittenIsSound`: what is written satisfies `Sound`), and what `read_job` makes of
a sound job satisfies those invariants again (`RestoredRuns`), so that nothing a restart leaves behind is new to the fabric.
`RunInv` is that set of invariants: those of the theorems above, the books without their exact counts (the flows that were
live are gone, and their number with them), and `InputInv`, that groups and reports stay within the contract. The last
uses that `historySteps` is not 0, which `ContractDocument::validate` checks (model.cpp:333).

* `JobsAreRestorable`: `[]Restorable` if callers publish evidence of registered groups only and the contract allows no
  more phases than the reader accepts. Both hypotheses are necessary (section 3) and nobody's to keep but the callers':
  neither `publish_topology` nor `validate` of a contract checks them. The phases of a step, and the summaries of a report,
  are as many as the contract allows at most; the incarnations that are written are at most `MaxRetired`.
* `RoundTripsAreStable`: `RestartSpec => RoundTripStable`. The books of the step as written have nothing left to reconcile
  (`BalancedStays`), so reading and writing them again changes nothing, for any number of restarts; those of the phases
  lose what was committed to flows that are gone, and then have nothing left to lose either.
* `PhaseBooksBalanceAcrossRestarts`: `[]PhaseAccountsBalance`. What the reader makes of the books of the phases is what
  they are without a live flow.
* `UtilizationIsExactAcrossRestarts`, `ClassesFollowPolicyAcrossRestarts`: the two invariants of the fabric that the run
  checks across restarts, under the hypotheses they have without.
* `AuthorityHoldsAcrossRestarts`, `DecisionsTellTheTruthAcrossRestarts`, `BurstsIsolateAcrossRestarts`,
  `CapacityHoldsAcrossRestarts`, `CeilingsHoldAcrossRestarts`: the other invariants of the fabric, each under the hypotheses
  it has without restarts. The fabric's own steps are the lemmas of `FabricProofs` and `GrantProofs` once more; what is new
  is what a restart owes them. A restart drops flows, decisions and receipts together, so an invariant that relates those
  comes back by itself. What bounds later grants must come back from the file: the evidence with its generation
  (`EvidenceRight`), the burst of the step (`BurstIntact`) and classes for its phases in the policy that is restored with
  them (`SoundStep`), each an invariant of what is stored.

`Pacing`:

* `HoldsAreBounded`: for all intents, times, deadlines and slack, `evaluate_pacing` holds nobody who declared no grace or
  whose participants have all arrived, and no hold outlasts the declared grace and maximum or passes a deadline that is
  still ahead. The argument is by the two branches of the code, the hold that fits before the deadline and the one that
  is cut at it; the only hypothesis is `Well`, the check at the head of the function. No run evaluates it for more than
  the intents of the scenarios.

`CoordinatorProofs` (3101 obligations):

* `LiveStateIsWhole`: with one session, `Spec => []LiveIsWhole`, for every number of mutations, epochs, I/O errors,
  crashes and inodes. The argument has two layers. `TurnInv`: a thread inside Commit is executing a request, and the
  main thread executes only while every session is idle, so one session means one caller (`OneThreadCommits`).
  `FileInv`: the caller alone moves the temporary path, which never names an inode the live path names, in memory or
  on disk; what it renames it has written and flushed. `LiveIsWhole` is not inductive without both: a caller that could
  meet another's temporary file might rename a torn inode. `StatesAreNotTorn` is the hypothesis that a stored state is
  a different value from `Torn`; TLC's model value satisfies it. The hypothesis of one session is necessary: with two,
  TLC finds a torn live file.

The others hold for any number of sessions, so nothing in them relies on whole files:

* `EpochsAreServedOnce`: `EpochsFresh` where REBASE_EPOCH is not allowed. A torn file makes `Start` fail, so all that must
  hold of the files is that whatever whole state a path names is of no epoch before the greatest served (`Recent`, in
  `EpochInv`). The call of a thread stores the epoch of its own run (`Carried`), the temporary file is truncated by the
  first call of a run before any call renames it, and `Serve` waits for the baseline commit, so the epoch about to be
  served is on disk, also in the flushed directory a power loss goes back to (`Baseline`). The hypothesis is necessary:
  REBASE_EPOCH serves its epoch before it stores it.
* `RestartsAreNeverRefused`: `[]Startable` where REBASE_EPOCH is not allowed, or where there is one session only. Every fabric
  in a snapshot, inside Commit or in a file, also in a file no path names any more, has its jobs at or behind the epoch
  stored with it (`JobInv`): registration takes the epoch of the run, and only `Start` and a rebase move jobs. Between
  RebaseEpoch and the assignment of `impl->epoch` the fabric in memory is at the epoch of the request (`MemoryBehind`); that
  is harmless while no other thread can take a snapshot (`RebasesAlone`); with two sessions one can, as `rebase_race` shows.
  A rebase that is refused halfway leaves jobs no further than the one that refused it, which is not ahead.
* `DegradedAcknowledgesNothing`: `DegradedNeverAcks`. Requests have distinct names and an acknowledged one has left; one
  that was received degraded is stopped by the look at the flag, which nothing clears within a run (`LateInv`).

The last part of the module is again for one session (`lost_ack` shows why), and for every number of mutations, I/O
errors, crashes and power losses. `StatesAreStored` says, as `StatesAreNotTorn` does, that a stored state is neither of the model
values for a torn and an absent file. The inductive invariant `WholeInv` adds `DurableInv` to the layers above: the thread
that commits carries the fabric as it is and the sequence after the current one (`Underway`); the live file lacks at most
the request that is being executed, the file in the flushed directory at most one mutation of the live one and none that
was acknowledged, because the directory is flushed before the answer (`Places`); a failed commit degrades the coordinator,
and while it is degraded it stores nothing more.

* `CommitsArePromised`: the refinement `Spec => MutationsAreDurable`. Initial states map to initial states; a rename
  is the moment a mutation becomes durable, a power loss takes back one that was not acknowledged, a reply acknowledges,
  and every other step stutters.
* `AcknowledgedSurvives`: `[]AckedSurvive`, the same promise as an invariant of the two paths.
* `SequencesAdvance`: `SequenceAdvances`. Every state written is one ahead of the live one, and the next is written only
  after the previous reached the flushed directory or the run has ended.

`AcceptorProofs` (169 obligations):

* `ThreadsStayBounded`: `[]ThreadsBounded` for any set of clients and any `max_sessions`. A session that ended is still a
  thread until it is joined, and leaves the map before that; the bound holds of both sets together (`ThreadsInv`), because
  the acceptor has joined whom it took from the map before it compares the map's size with the limit again.

`ClientProofs` (3978 obligations), for any number of processes, sessions, requests, lost connections, crashes and boot
identities, and whatever the parameters of the fabric; the only hypotheses are the assumptions on the constants. Whether
the fabric accepts a request is ENABLED of its operation. Nothing of that is used: a refused request changes nothing, so
what is proved holds whatever is refused. `NextIsMove` reduces every step to what it does to the client, the session and
the fabric, field by field, and `PerformEffect` every operation to what a process can tell of it. A failed commit is a move
of its own (`FailMove`): it changes the session's answer and nothing else a process sees. The invariant
`ClientInv`, which TLC checked on the instance of `client_recovery` before it was proved, has these layers:

* `LinkInv`: a session has one client, of the same boot identity and the epoch being served; `CountInv` and
  `BehindInv`: no process, session, request or answer claims a generation, an incarnation or a step the fabric has not
  come to.
* `TrustInv`: client and session bind the same incarnation at the two ends of every exchange. With an answer under way the
  client is behind; what agrees then is `Due`, what it will track once it has received the answer.
* `BootInv`: a boot identity is one process, however often it connects. `NamesInv`: no two sessions, with the clients on
  them, can name the same step, so the EndStep an orphan still carries out is never one of the holder's step.
* `HolderInv`: a process whose boot identity has the job knows the open step and its generations (`Informed`), unless it
  came back as itself or an error has left it behind; and if it believes in a step that is not open, nobody else is left who could open one in its name. This second part is what makes
  the first inductive: the orphan of an earlier connection of the holder is as entitled as the holder, and might open a step
  behind its back. It cannot: while the holder's step is open nobody can begin another; it is closed without the holder
  only by a replacement, a retirement or a crash, and the first two leave every token under way worthless, the third
  leaves no session.

The theorems about the clients:

* `TheToldIsTrue`: `[]ToldIsTrue`; `EnvelopesAlwaysAgree`: `[]EnvelopesAgree`; `TheHolderKnowsItsStep`:
  `[]HolderKnowsStep`; `TheHolderIsHonoured`: `[]HonouredOnceLookedUp`.
* `OnlyHoldersAct`: `OnlyTheHolderActs`. An operation that changes what the holder has asks for a token the fabric honours
  or replaces the holder, and a session only carries a token of its own boot identity.

The proof also found that two arms of the CASE in `Learnt` overlapped for a refused LOOKUP_HANDLE, where CASE promises
neither; they are now told apart as `client.cpp` does, by the answer's success first.

The last part of the module is a refinement, with tokens of any age (`AnyAge`: a request may be carried out long after it
was sent, and claims what was true then).

* `SessionsServeTheJob`: `ClientSpec => JobIsServed`, that is `RestartSpec` itself: `Client` implements `Restart` with its
  variables as they are. Connecting, sending, receiving and losing a connection stutter; `Execute` is one operation of
  the fabric or none, `CommitEffect` is `Commit`, `CrashAndRestart` is `Restart`. An operation of `Fabric` takes its inputs
  from sets that the state bounds (a token's generations, a phase, a burst, registered groups), a session takes them from
  a request made in an earlier state. `RequestInv` says that a request a session still holds is an input the fabric has
  now (`Possible`). It is inductive because everything those sets are bounded by only grows while the session lives
  (`CountersGrow`, `AllocatorsGrow`), though `Fabric` closes steps, phases and bursts, and because a crash, which takes
  generations and allocators back, leaves no session. A BeginStep is the exception: its token names the step that is to
  be opened, so only the rest of it is bounded by what is (`Stepless`). `ServedInv` puts this together with `ClientInv`,
  `RestartInv` and the evidence of registered groups that callers publish.
* `ServedJobsAreKept`, `ServedGrantsAreBounded`: what `FabricProofs`, `GrantProofs` and `RestartProofs` say of the fabric holds
  of the fabric that clients and sessions use, under the same hypotheses. `Restorable` needs that of the contract's phases
  only: in `Client` the evidence a caller publishes is of registered groups, and groups are never unregistered, so it
  still is when an orphaned session publishes it.

Every property of `Fabric`, `Restart` and `Client` and every safety property of `Coordinator` and `Acceptor` is a theorem,
under the hypotheses named above. Only model-checked: liveness (`StopCompletes`, `FinishedAreReaped`, `ScenariosFinish`,
which need fairness); and the invariants of `Publisher`, which are about what the programs of the repository do, not
about every value of a constant. Enabledness is not proved either: that a request the model refuses is one the code
refuses rests on the guards of the operations.

## 5. What is left out

Fence records, statistics, the counters of intents in the books of a phase, explanation texts, names and labels: nothing here depends on them. Receipts are never
evicted in the model (`max_flow_receipts_per_job` bounds them in the code). The record budget of `evaluate_pacing`, the
request budget of a session and the views change no state a property reads. Validators bound what inputs an action
enumerates. The byte layout of the state file is whole or torn, that of frames and messages is not modelled: encoding and
decoding are byte handling without protocol state, and their round trip is data, not control. In `Coordinator`, read-only
requests other than LOOKUP_HANDLE are left out, and the operations made under a token are one, their rules being
`Fabric` and their handlers `Client`. `Client` leaves out REBASE_EPOCH and a second REGISTER_JOB, and the checks a client
makes of a reply's session and sequence, which no reply of the coordinator fails. Socket wrappers, byte buffers,
checksums, clocks and the argument parsing and printing of the programs keep no protocol state.

## 6. Where to go on

* Several jobs: they share the policy, the commit and the epoch; the rebase of many jobs is only in `Coordinator`, where
  a job is three numbers.
* REBASE_EPOCH in `Client`: a session bound before it carries an epoch nobody accepts any more; what a client can then do
  is in the code, but no document states it.
* Proofs: that a session and its commit implement the request of `Coordinator`, which would join the refinement of
  `Restart` with that of `DurableMutations`; the replay window as an invariant of one client (`OrdinaryFramesPass`).
