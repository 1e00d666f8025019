------------------------------ MODULE Publisher ------------------------------
(***************************************************************************)
(* The programs of module Scenarios, run: ttf-publisher processes that     *)
(* play their calls through Client against the coordinator, a primary that *)
(* is killed in the middle of its step and the replacement that takes the  *)
(* job over, and programs that call a Fabric of their own directly.        *)
(***************************************************************************)
EXTENDS Client, Scenarios, Pacing, ReplayWindow

CONSTANTS
  Window,   \* nonces a ReplayWindow remembers
  MaxTicks  \* bound: what the clock of a fabric may read when pacing is evaluated

ASSUME PublisherAssumption == Window \in Nat \ {0} /\ MaxTicks \in Nat

VARIABLES
  program,  \* the progress of each process through its scenario
  sent,     \* out_sequence_ of each client
  window,   \* of each session: its ReplayWindow
  frame     \* of each session: sequence and nonce of the frame it has received

wireVars == <<sent, window, frame>>
programVars == <<program, wireVars, clientVars>>

\* phases, intents: what the process was told, in order; failed: a check did not hold.
Started(name) ==
  [name |-> name, done |-> 0, phases |-> <<>>, intents |-> <<>>, failed |-> FALSE, alive |-> TRUE]

Pending(c) == program[c].alive /\ ~program[c].failed
              /\ program[c].done < Len(Script[program[c].name])
CallOf(c) == Script[program[c].name][program[c].done + 1]

\* One process plays a scenario; next to a primary another one is its replacement.
Cast(c) ==
  \E name \in DOMAIN Script \ {"replacement", "none"} :
    program = [d \in Clients |->
                 IF d = c THEN Started(name)
                 ELSE Started(IF name = "primary" THEN "replacement" ELSE "none")]

\* next_nonce, of a client on one connection: mixed from its boot identity and the sequence
\* number, so that two are taken to be the same only for the same number, and none is one of
\* the small ones of raw frames.
Nonce(sequence) == 100000 + sequence
OwnFrame(sequence) == [sequence |-> sequence, nonce |-> Nonce(sequence)]
NoFrame == [sequence |-> 0, nonce |-> 0]

\* HELLO was the first frame, REGISTER_JOB the second.
PublisherInit ==
  /\ ClientInit
  /\ Cast(CHOOSE c \in Clients : Connected(c))
  /\ sent = [c \in Clients |-> IF Connected(c) THEN 2 ELSE 0]
  /\ window = [s \in Sessions |->
       IF Orphan(s) THEN EmptyWindow
       ELSE Accepted(Accepted(EmptyWindow, OwnFrame(1), Window), OwnFrame(2), Window)]
  /\ frame = [s \in Sessions |-> NoFrame]

\* A token that is not the client's own: of the dead incarnation, or of another epoch.
Forged(c, call) ==
  IF call.claim = "retired" THEN [Token(c, call.step) EXCEPT !.incarnation = 1, !.boot = 0]
  ELSE [Token(c, call.step) EXCEPT !.boot = 0, !.epoch = 0, !.topology = 0, !.policy = 0]

\* The request a call comes to, with what the process was told put in.
Request(c, call) ==
  [f \in (DOMAIN call \cup {"token"}) \ {"step", "want", "claim", "sequence"} |->
     CASE f = "token" -> IF "claim" \in DOMAIN call THEN Forged(c, call) ELSE Token(c, call.step)
       [] f = "phase" -> program[c].phases[call.phase]
       [] f = "intent" /\ call.op # "RequestTraffic" -> program[c].intents[call.intent]
       [] OTHER -> call[f]]

\* expect(): the reply is what the scenario counts on.
Met(want, reply) ==
  /\ reply.ok = want.ok
  /\ "outcome" \in DOMAIN want => reply.outcome = want.outcome
  /\ "stragglers" \in DOMAIN want => reply.stragglers = want.stragglers
  /\ "valid" \in DOMAIN want => reply.valid = want.valid
  /\ "class" \in DOMAIN want => reply.grant.class = want.class
  /\ "max" \in DOMAIN want => reply.grant.max <= want.max
  /\ "balanced" \in DOMAIN want => Balanced(reply.report)
  /\ "completed" \in DOMAIN want => reply.report.completed = want.completed

\* The process reads the reply to its current call; that a commit failed is nothing a
\* scenario checks.
Told(c, reply) ==
  LET call == CallOf(c)
      op == IF reply.ok THEN call.op ELSE "None"
  IN  [program[c] EXCEPT
         !.done = @ + 1, !.failed = reply # Failure /\ ~Met(call.want, reply),
         !.phases = IF op = "BeginPhase" THEN Append(@, reply.minted) ELSE @,
         !.intents = IF op = "RequestTraffic" THEN Append(@, reply.minted) ELSE @]

-----------------------------------------------------------------------------
\* The replacement waits for the driver, which waits for the primary's "midstep".
Cued(c) ==
  program[c].name = "replacement" =>
    \A d \in Clients : program[d].name = "primary" =>
      program[d].done = Len(Primary) /\ ~program[d].failed

\* Client::Connect, by a process that has not called anything yet.
Begin(c) ==
  /\ Pending(c) /\ Cued(c) /\ program[c].done = 0
  /\ \E s \in Sessions :
       /\ Connect(c, s)
       /\ window' = [window EXCEPT ![s] = Accepted(EmptyWindow, OwnFrame(1), Window)]
  /\ sent' = [sent EXCEPT ![c] = 1]
  /\ UNCHANGED <<program, frame>>

\* prepare() of the replacement: its handle is that of its own job, at its first generations.
PrepareOwnJob(c) ==
  /\ Idle(c) /\ Pending(c) /\ CallOf(c).op = "PrepareOwnJob"
  /\ client' = [client EXCEPT ![c].topology = 1, ![c].policy = 1]
  /\ program' = [program EXCEPT ![c].done = @ + 1]
  /\ UNCHANGED <<wireVars, session, minted, called, serverVars>>

\* The frame of a call: RawRequest is told its sequence and nonce.
FrameOf(c, call) ==
  CASE "claim" \notin DOMAIN call -> OwnFrame(sent[c] + 1)
    [] call.claim = "retired" ->
         [sequence |-> sent[c] + call.sequence, nonce |-> sent[c] + 7919]
    [] OTHER -> [sequence |-> call.sequence, nonce |-> 1]

\* Fault: a raw frame does not advance the floor of the client's sequence.
OrdinaryFloor(c, sequence) == sent[c] + 1

\* out_sequence_ after a frame of either kind.
Floor(c, sequence) == MaxOf2(sent[c], sequence)

CallNext(c) ==
  LET call == CallOf(c)
  IN  /\ Pending(c) /\ Idle(c) /\ call.op # "PrepareOwnJob"
      /\ program[c].name \notin InProcess
      /\ Send(c, Request(c, call))
      /\ frame' = [frame EXCEPT ![client[c].session] = FrameOf(c, call)]
      /\ sent' = [sent EXCEPT ![c] = Floor(c, FrameOf(c, call).sequence)]
      /\ UNCHANGED <<program, window>>

\* The call took effect, its commit failed: the program returns the error it is told.
Abandoned(c) ==
  /\ session[client[c].session].reply = Failure
  /\ session[client[c].session].request.op # "EndPhase"

Hear(c) ==
  /\ Receive(c) /\ ~Abandoned(c)
  /\ program' = [program EXCEPT ![c] = Told(c, session[client[c].session].reply)]
  /\ UNCHANGED wireVars

GiveUp(c) ==
  /\ Connected(c) /\ session[client[c].session].at = "answered" /\ Abandoned(c)
  /\ program' = [program EXCEPT ![c].alive = FALSE]
  /\ Disconnect(c)
  /\ UNCHANGED wireVars

\* A call on the process's own Fabric: made, answered and read at once.
CallDirectly(c) ==
  LET r == Request(c, CallOf(c))
  IN  /\ Pending(c) /\ program[c].name \in InProcess
      /\ \/ /\ PerformRegistration(r) \/ PerformLifecycle(r) \/ PerformTraffic(r)
            /\ client' = [client EXCEPT ![c] = Learnt(c, r, Answer(r))]
            /\ program' = [program EXCEPT ![c] = Told(c, Answer(r))]
         \/ /\ ~ENABLED (PerformRegistration(r) \/ PerformLifecycle(r) \/ PerformTraffic(r))
            /\ program' = [program EXCEPT ![c] = Told(c, Refusal)]
            /\ UNCHANGED <<client, vars>>
      /\ UNCHANGED <<wireVars, session, minted, called, degraded, stored>>

\* Close() at the end of the scenario, or after a failed check.
Finish(c) ==
  /\ program[c].alive /\ ~Pending(c) /\ program[c].name # "primary"
  /\ program[c].name \notin InProcess
  /\ Disconnect(c)
  /\ UNCHANGED <<program, wireVars>>

\* The driver kills the primary once it holds its step open.
Kill(c) ==
  /\ program[c].alive /\ ~Pending(c) /\ program[c].name = "primary"
  /\ program' = [program EXCEPT ![c].alive = FALSE]
  /\ Disconnect(c)
  /\ UNCHANGED wireVars

\* A crash cuts every connection; what a process was doing ends in an error.
CutOff ==
  /\ \A c \in Clients : program[c].name \notin InProcess
  /\ CrashAndRestart
  /\ program' = [c \in Clients |->
                   [program[c] EXCEPT !.alive = @ /\ ~Connected(c)]]
  /\ UNCHANGED wireVars

-----------------------------------------------------------------------------
(* run_session: the window first, then the request.                        *)

Received(s) == session[s].at = "received"
Clean(s) == Admissible(window[s], frame[s])
Passed(s) == window' = [window EXCEPT ![s] = Accepted(@, frame[s], Window)]

\* EvaluatePacing for an open step and a registered group.  The clock of the fabric is
\* not tracked: other jobs drive it too.  (The record budget is out of reach here.)
PacingAnswer(r, now) ==
  LET answer == Evaluate(r.pacing, now, r.deadline, 0)
  IN  [ok |-> TRUE, outcome |-> answer.outcome, stragglers |-> Stragglers(r.pacing)]

EvaluatePacing(s) ==
  LET r == session[s].request
      honoured == Proven(s, r.token) /\ InStep(r.token) /\ r.group \in groups
  IN  /\ Received(s) /\ Clean(s) /\ r.op = "EvaluatePacing"
      /\ Passed(s)
      /\ \E now \in 1 .. MaxTicks :
           session' = [session EXCEPT ![s].at = "answered",
                         ![s].reply = IF honoured THEN PacingAnswer(r, now) ELSE Refusal]
      /\ UNCHANGED <<program, sent, frame, client, minted, called, serverVars>>

Serve(s) ==
  /\ Received(s) /\ Clean(s) /\ session[s].request.op # "EvaluatePacing"
  /\ Execute(s) \/ RefuseRequest(s)
  /\ Passed(s)
  /\ UNCHANGED <<program, sent, frame>>

\* send_protocol_error: the session ends with this reply, and so does the one scenario
\* that sends such a frame.
Fence(s) ==
  /\ Received(s) /\ ~Clean(s)
  /\ session' = [session EXCEPT ![s].at = "answered", ![s].reply = Refusal]
  /\ UNCHANGED <<program, wireVars, client, minted, called, serverVars>>

Conclude(s) ==
  /\ CommitEffect(s) \/ FailCommit(s) \/ (EndSession(s) /\ ~Received(s))
  /\ UNCHANGED <<program, wireVars>>

Served(s) == EvaluatePacing(s) \/ Serve(s) \/ Fence(s) \/ Conclude(s)

-----------------------------------------------------------------------------
Played(c) ==
  PrepareOwnJob(c) \/ CallNext(c) \/ Hear(c) \/ GiveUp(c) \/ CallDirectly(c) \/ Finish(c)

PublisherNext ==
  \/ \E c \in Clients : Begin(c) \/ Played(c) \/ Kill(c)
  \/ \E s \in Sessions : Served(s)
  \/ CutOff

\* Processes and session threads run; nobody has to kill or to crash.
PublisherFairness ==
  /\ \A c \in Clients : WF_programVars(Begin(c)) /\ WF_programVars(Played(c))
  /\ \A s \in Sessions : WF_programVars(Served(s))

PublisherSpec == PublisherInit /\ [][PublisherNext]_programVars /\ PublisherFairness

-----------------------------------------------------------------------------
(* Properties.                                                             *)

(***************************************************************************)
(* No check of a scenario that is answered, by anything but the failure of *)
(* a commit, fails, wherever the primary is killed and the coordinator     *)
(* crashes (publisher_main.cpp, Checks::expect): in particular the         *)
(* replacement cannot reopen the dead step, the stale token is refused and *)
(* the resumed step closes balanced.  The check of a call that a crash     *)
(* leaves without an answer does fail in the program, and is not counted.  *)
(***************************************************************************)
ChecksHold == \A c \in Clients : ~program[c].failed

(***************************************************************************)
(* A step that was left open by a dead primary is closed once its          *)
(* replacement has come, with its books balanced (scenario_primary, "the   *)
(* trainer dies mid-step"; fence_open_step): also when the coordinator     *)
(* crashed in between.                                                     *)
(***************************************************************************)
Resumed(c) == program[c].name = "replacement" /\ program[c].done > 1

DeadStepIsClosed ==
  \A c \in Clients : Resumed(c) =>
    /\ step.id # 1
    /\ \E k \in DOMAIN history : history[k].step = 1 /\ Balanced(history[k].acct)

(***************************************************************************)
(* The only frame a window turns away is the one that replays an old       *)
(* session.  A raw frame of a scenario is ahead of the client's sequence,  *)
(* and an ordinary request after it must not be fenced for a reason that   *)
(* has nothing to do with it (client.cpp:213, RawRequest).                 *)
(***************************************************************************)
OrdinaryFramesPass ==
  \A c \in Clients :
    Connected(c) /\ Received(client[c].session) /\ "claim" \notin DOMAIN CallOf(c)
      => Clean(client[c].session)

(***************************************************************************)
(* Every process gets through its scenario, is cut off or gives up: no     *)
(* call waits for ever for its reply (Client::transact, run_session), on a *)
(* session left behind by a process that is gone or on any other, and      *)
(* whether its commit fails or not.                                        *)
(***************************************************************************)
ScenariosFinish == \A c \in Clients : (Pending(c) /\ Cued(c)) ~> ~Pending(c)
=============================================================================
