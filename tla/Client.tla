-------------------------------- MODULE Client --------------------------------
(***************************************************************************)
(* Trainer processes that reach the fabric through ttf::Client and a       *)
(* session of the coordinator each.  The client tracks what it was told    *)
(* (its handle and the step it opened) and builds every authority token    *)
(* from it; the session compares the token with what the connection has    *)
(* proven, runs the operation, commits it and only then replies.           *)
(*                                                                         *)
(* A client has one request outstanding.  Its connection may be lost at    *)
(* any moment: the session is then an orphan that may still carry out what *)
(* it has read, while the process is back on another session.  The         *)
(* coordinator may crash (module Restart), which ends every session.       *)
(*                                                                         *)
(* How a commit is made is StateStore and Coordinator, the frames and the  *)
(* replay window ReplayWindow: here a commit is one step, which may fail   *)
(* after the operation has taken effect: the caller is told an error, and  *)
(* the coordinator is degraded until it is started again.                  *)
(***************************************************************************)
EXTENDS Restart

CONSTANTS
  Clients,     \* processes
  Sessions,    \* session threads the coordinator can run
  NoSession,
  Calls        \* the operations the processes call

CONSTANTS MaxBoots, MaxCalls  \* bounds: boot identities minted, requests sent

ASSUME ClientAssumption ==
  /\ Clients # {} /\ Sessions # {} /\ NoSession \notin Sessions
  /\ Boots = 1 .. MaxBoots /\ MaxCalls \in Nat

VARIABLES
  client,    \* the Client object of each process
  session,   \* the sessions of the coordinator
  degraded,  \* a commit to the store has failed
  minted,    \* boot identities minted so far
  called     \* requests sent so far

fabricVars == <<vars, stored>>
serverVars == <<degraded, fabricVars>>
clientVars == <<client, session, minted, called, serverVars>>

Tokened ==
  {"RegisterGroup", "PublishTopology", "RetireJob", "RetireIncarnation",
   "BeginStep", "BeginPhase", "EndPhase", "EndStep", "RequestTraffic", "CompleteFlow",
   "RevalidateFlow", "BeginCheckpointBurst", "EndCheckpointBurst"}

\* Operations whose handler calls commit_state.
Committed ==
  {"RegisterGroup", "PublishTopology", "ApplyPolicy", "RetireJob", "RetireIncarnation",
   "BeginStep", "BeginPhase", "EndPhase", "EndStep", "AdmitReplacement"}

\* An error reply does not say whether the operation took effect before its commit failed.
NoRequest == [op |-> "None"]
Refusal == [ok |-> FALSE, effected |-> FALSE]
Failure == [ok |-> FALSE, effected |-> TRUE]

\* What an operation that took effect changed, though its caller was told an error.
Untold(op) ==
  CASE op \in {"BeginStep", "EndStep"} -> {"step"}
    [] op = "PublishTopology" -> {"topology"}
    [] OTHER -> {}

\* A default-constructed Client; its process may remember its boot identity.
\* granted: the last reply that bound it was a RecoveryGrant, not a handle;
\* again: it connected under the identity it had before;
\* behind: what it has been left behind in by errors of this connection.
Unconnected(b) ==
  [session |-> NoSession, boot |-> b, epoch |-> 0, incarnation |-> 0,
   topology |-> 0, policy |-> 0, step |-> 0, granted |-> FALSE, again |-> FALSE,
   behind |-> {}]

Free == [at |-> "free", boot |-> 0, incarnation |-> 0, request |-> NoRequest, reply |-> Refusal]

Connected(c) == client[c].session # NoSession
Idle(c) == Connected(c) /\ session[client[c].session].at = "open"
Waiting(c) == Connected(c) /\ session[client[c].session].at # "open"
Orphan(s) == \A c \in Clients : client[c].session # s

\* c has just registered the job: session and handle are bound to incarnation 1.
ClientInit ==
  /\ RestartInit /\ boot = 1
  /\ degraded = FALSE /\ minted = 1 /\ called = 0
  /\ \E c \in Clients, s \in Sessions :
       /\ client = [d \in Clients |->
            IF d = c THEN [session |-> s, boot |-> 1, epoch |-> epoch,
                           incarnation |-> incarnation, topology |-> 0,
                           policy |-> policyGen, step |-> 0, granted |-> FALSE,
                           again |-> FALSE, behind |-> {}]
            ELSE Unconnected(0)]
       /\ session = [r \in Sessions |->
            IF r = s THEN [Free EXCEPT !.at = "open", !.boot = 1, !.incarnation = incarnation]
            ELSE Free]

-----------------------------------------------------------------------------
(* The client's side.                                                      *)

\* Fault: a client that reconnects keeps its handle and its step.
Remembering(c) == [client[c] EXCEPT !.session = NoSession]

\* A connection gone for good: the next one is another Client object.
Closed(c) == Unconnected(client[c].boot)

\* Connect up to HELLO_ACK: a new Client, a new session, the epoch in force.  The boot
\* identity is derived afresh, or from config.boot_seed, the one it had before.
Connect(c, s) ==
  /\ ~Connected(c)
  /\ session[s] = Free
  /\ \E b \in ({minted + 1, client[c].boot} \ {0}) \cap Boots :
       /\ minted' = MaxOf2(minted, b)
       /\ client' = [client EXCEPT ![c] =
                       [@ EXCEPT !.boot = b, !.session = s, !.epoch = epoch,
                                 !.again = b = client[c].boot]]
       /\ session' = [session EXCEPT ![s] = [Free EXCEPT !.at = "open", !.boot = b]]
  /\ UNCHANGED <<called, serverVars>>

\* authority(): s is the step of the caller's StepPosition, 0 for none.
Token(c, s) ==
  [epoch |-> client[c].epoch, incarnation |-> client[c].incarnation, boot |-> client[c].boot,
   topology |-> client[c].topology, policy |-> client[c].policy,
   step |-> IF s # 0 THEN s ELSE client[c].step]

\* The step a caller may name: none, the one open or the last one closed.
Positions == {0, step.id, lastClosed}

\* The step a caller may open, or resume from: the highest one begun or the one after it.
Upcoming == {highestStep, highestStep + 1} \cap 0 .. MaxStep

(* The requests a process can make of an operation.  The incarnation to    *)
(* replace, intents, phases and bursts are arguments of the caller.        *)

RegistrationRequests(c, op) ==
  LET tok == Token(c, 0)
  IN  CASE op = "RegisterGroup" -> {[op |-> op, token |-> tok, group |-> g] : g \in Groups}
        [] op = "PublishTopology" ->
             {[op |-> op, token |-> tok, evidence |-> cap] :
                cap \in {e \in Evidence : DOMAIN e \subseteq groups}}
        [] op = "ApplyPolicy" -> {[op |-> op, document |-> k] : k \in DOMAIN Policies}
        [] op = "RetireJob" -> {[op |-> op, token |-> tok]}
        [] OTHER -> {}

LifecycleRequests(c, op) ==
  LET tok == Token(c, 0)
  IN  CASE op = "BeginStep" ->
             {[op |-> op, token |-> Token(c, s)] : s \in Upcoming \ {0}}
        [] op = "BeginPhase" ->
             {[op |-> op, token |-> tok, cls |-> cls, group |-> g] :
                cls \in DOMAIN Doc.classOf, g \in Groups}
        [] op = "EndPhase" -> {[op |-> op, token |-> tok, phase |-> p] : p \in 1 .. nextPhase}
        [] op = "EndStep" -> {[op |-> op, token |-> tok]}
        [] OTHER -> {}

TrafficRequests(c, op) ==
  LET placed == {Token(c, s) : s \in Positions}
  IN  CASE op = "RequestTraffic" ->
             {[op |-> op, token |-> t, phase |-> p, intent |-> it] :
                t \in placed, p \in 1 .. nextPhase, it \in Intents}
        [] op = "CompleteFlow" ->
             {[op |-> op, token |-> t, intent |-> i, bytes |-> bytes, cancelled |-> x] :
                t \in placed, i \in Ids, bytes \in Reports, x \in BOOLEAN}
        [] op = "RevalidateFlow" ->
             {[op |-> op, token |-> t, intent |-> i] : t \in placed, i \in Ids}
        [] op = "BeginCheckpointBurst" ->
             {[op |-> op, token |-> t, group |-> g] : t \in placed, g \in groups}
        [] op = "EndCheckpointBurst" ->
             {[op |-> op, token |-> t, burst |-> b] : t \in placed, b \in 1 .. nextBurst}
        [] OTHER -> {}

RecoveryRequests(c, op) ==
  CASE op = "LookupHandle" -> {[op |-> op]}
    [] op = "AdmitReplacement" ->
         {[op |-> op, expected |-> i, resume |-> r] :
            i \in Recent(incarnation) \ {0}, r \in Upcoming}
    [] op = "RetireIncarnation" -> {[op |-> op, token |-> Token(c, 0)]}
    [] OTHER -> {}

Requests(c, op) ==
  RegistrationRequests(c, op) \cup LifecycleRequests(c, op)
    \cup TrafficRequests(c, op) \cup RecoveryRequests(c, op)

\* transact(), up to the frame in the socket.
Send(c, r) ==
  /\ Idle(c)
  /\ called < MaxCalls
  /\ called' = called + 1
  /\ session' = [session EXCEPT ![client[c].session].at = "received",
                                ![client[c].session].request = r]
  /\ UNCHANGED <<client, minted, serverVars>>

Call(c, op) == \E r \in Requests(c, op) : Send(c, r)

\* Close(), a broken connection or the death of the process.
Disconnect(c) ==
  /\ Connected(c)
  /\ client' = [client EXCEPT ![c] = Closed(c)]
  /\ UNCHANGED <<session, minted, called, serverVars>>

\* The handle of a LOOKUP_HANDLE reply replaces the old one.
Adopted(c, reply) ==
  [client[c] EXCEPT !.incarnation = reply.incarnation, !.topology = reply.topology,
                    !.policy = reply.policy, !.granted = FALSE, !.behind = @ \ {"topology"}]

\* Fault: current_step_ is set before the reply is looked at.
LearntEarly(c, r, reply) ==
  CASE r.op = "BeginStep" -> [client[c] EXCEPT !.step = r.token.step]
    [] r.op = "LookupHandle" /\ reply.ok -> Adopted(c, reply)
    [] r.op = "AdmitReplacement" /\ reply.ok ->
         [client[c] EXCEPT !.incarnation = reply.incarnation, !.granted = TRUE]
    [] OTHER -> client[c]

\* Fault: PublishTopology does not take the new generation over.
LearntButTopology(c, r, reply) ==
  CASE r.op = "LookupHandle" /\ reply.ok -> Adopted(c, reply)
    [] OTHER -> client[c]

\* What the client tracks after the reply to r: an error leaves it as it was, and behind
\* the fabric when the operation took effect.
Learnt(c, r, reply) ==
  IF ~reply.ok
  THEN [client[c] EXCEPT !.behind = IF reply.effected THEN @ \cup Untold(r.op) ELSE @]
  ELSE CASE r.op = "LookupHandle" -> Adopted(c, reply)
         [] r.op = "AdmitReplacement" ->
              [client[c] EXCEPT !.incarnation = reply.incarnation, !.granted = TRUE]
         [] r.op = "PublishTopology" ->
              [client[c] EXCEPT !.topology = reply.topology, !.behind = @ \ {"topology"}]
         [] r.op = "ApplyPolicy" -> [client[c] EXCEPT !.policy = reply.policy]
         [] r.op = "BeginStep" ->
              [client[c] EXCEPT !.step = r.token.step, !.behind = @ \ {"step"}]
         [] r.op = "EndStep" -> [client[c] EXCEPT !.step = 0, !.behind = @ \ {"step"}]
         [] OTHER -> client[c]

\* transact(), from the reply on.
Receive(c) ==
  LET s == client[c].session
  IN  /\ Connected(c) /\ session[s].at = "answered"
      /\ client' = [client EXCEPT ![c] = Learnt(c, session[s].request, session[s].reply)]
      /\ session' = [session EXCEPT ![s].at = "open", ![s].request = NoRequest,
                                    ![s].reply = Refusal]
      /\ UNCHANGED <<minted, called, serverVars>>

-----------------------------------------------------------------------------
(* The coordinator's side.                                                 *)

\* token_from: the session is bound, and the claim is what the connection proves.
Proven(s, t) ==
  /\ session[s].incarnation # 0
  /\ t.incarnation = session[s].incarnation
  /\ t.boot = session[s].boot
  /\ t.epoch = epoch

(* The fabric's operation for request r: not enabled when it is refused.   *)

PerformRegistration(r) ==
  \/ r.op = "RegisterGroup" /\ RegisterGroup(r.token, r.group)
  \/ r.op = "PublishTopology" /\ PublishTopology(r.token, r.evidence)
  \/ r.op = "ApplyPolicy" /\ ApplyPolicy(r.document)
  \/ r.op = "RetireJob" /\ RetireJob(r.token)

PerformLifecycle(r) ==
  \/ r.op = "BeginStep" /\ BeginStep(r.token, r.token.step)
  \/ r.op = "BeginPhase" /\ BeginPhase(r.token, r.cls, r.group)
  \/ r.op = "EndPhase" /\ EndPhase(r.token, r.phase)
  \/ r.op = "EndStep" /\ EndStep(r.token)

PerformTraffic(r) ==
  \/ r.op = "RequestTraffic" /\ RequestTraffic(r.token, r.phase, r.intent)
  \/ r.op = "CompleteFlow" /\ CompleteFlow(r.token, r.intent, r.bytes, r.cancelled)
  \/ r.op = "RevalidateFlow" /\ RevalidateFlow(r.token, r.intent)
  \/ r.op = "BeginCheckpointBurst" /\ BeginCheckpointBurst(r.token, r.group)
  \/ r.op = "EndCheckpointBurst" /\ EndCheckpointBurst(r.token, r.burst)

\* Fault: an admission hands the job over as it is, with its incarnation and its step.
PerformHandover(s, r) ==
  \/ r.op = "LookupHandle" /\ UNCHANGED vars
  \/ /\ r.op = "AdmitReplacement" /\ r.expected = incarnation /\ ~retired
     /\ boot' = session[s].boot
     /\ UNCHANGED <<epoch, incarnation, retiredSet, retired, configVars, ledgerVars, idVars,
                    recordVars>>
  \/ r.op = "RetireIncarnation" /\ RetireIncarnation(r.token)

\* LOOKUP_HANDLE changes no more than the session; an admission names its boot identity.
PerformRecovery(s, r) ==
  \/ r.op = "LookupHandle" /\ UNCHANGED vars
  \/ r.op = "AdmitReplacement" /\ AdmitReplacement(epoch, r.expected, session[s].boot, r.resume)
  \/ r.op = "RetireIncarnation" /\ RetireIncarnation(r.token)

Perform(s, r) ==
  PerformRegistration(r) \/ PerformLifecycle(r) \/ PerformTraffic(r) \/ PerformRecovery(s, r)

Accepts(s, r) ==
  /\ r.op \in Tokened => Proven(s, r.token)
  /\ ENABLED Perform(s, r)

\* The body of the reply: the handle or grant, the id minted, the decision, its validity,
\* the report.
Answer(r) ==
  [ok |-> TRUE, incarnation |-> incarnation', topology |-> topology'.gen, policy |-> policyGen',
   minted |-> CASE r.op = "BeginPhase" -> nextPhase
                [] r.op = "RequestTraffic" -> nextIntent
                [] r.op = "BeginCheckpointBurst" -> nextBurst
                [] OTHER -> 0,
   outcome |-> IF r.op = "RequestTraffic" THEN decisions'[nextIntent].outcome ELSE "None",
   grant |-> IF r.op = "RequestTraffic" THEN decisions'[nextIntent].grant ELSE NoGrant,
   valid |-> r.op = "RevalidateFlow" /\ r.intent \in StillValid',
   report |-> IF r.op = "EndStep" THEN history'[Len(history')].acct ELSE NoAccounting]

\* dispatch_request, the effect: LOOKUP_HANDLE binds the session at once.
Execute(s) ==
  LET r == session[s].request
  IN  /\ session[s].at = "received" /\ Accepts(s, r)
      /\ Perform(s, r)
      /\ session' = [session EXCEPT
           ![s].at = IF r.op \in Committed THEN "effected" ELSE "answered",
           ![s].incarnation = IF r.op = "LookupHandle" THEN incarnation ELSE @,
           ![s].reply = Answer(r)]
      /\ UNCHANGED <<client, minted, called, degraded, stored>>

\* Fault: a refused request gets no reply.
RefuseSilently(s) ==
  /\ session[s].at = "received" /\ ~Accepts(s, session[s].request)
  /\ session' = [session EXCEPT ![s].at = "silent"]
  /\ UNCHANGED <<client, minted, called, serverVars>>

\* dispatch_request, a refusal: nothing changes.
RefuseRequest(s) ==
  /\ session[s].at = "received" /\ ~Accepts(s, session[s].request)
  /\ session' = [session EXCEPT ![s].at = "answered", ![s].reply = Refusal]
  /\ UNCHANGED <<client, minted, called, serverVars>>

\* Fault: the admission leaves the session bound as it was.
CommitUnbound(s) ==
  /\ session[s].at = "effected" /\ ~degraded
  /\ stored' = Written
  /\ session' = [session EXCEPT ![s].at = "answered"]
  /\ UNCHANGED <<client, degraded, minted, called, vars>>

\* commit_state; ADMIT_REPLACEMENT binds the session once it is durable.
CommitEffect(s) ==
  /\ session[s].at = "effected" /\ ~degraded
  /\ stored' = Written
  /\ session' = [session EXCEPT ![s].at = "answered",
       ![s].incarnation = IF session[s].request.op = "AdmitReplacement"
                          THEN session[s].reply.incarnation ELSE @]
  /\ UNCHANGED <<client, degraded, minted, called, vars>>

(***************************************************************************)
(* commit_state fails: the coordinator is degraded already, the snapshot   *)
(* cannot be made, or the store fails, which degrades it; the new state    *)
(* may be on the disk even so.  The effect stands and the reply is an      *)
(* error, which binds nobody.                                              *)
(***************************************************************************)
FailCommit(s) ==
  /\ session[s].at = "effected"
  /\ \/ UNCHANGED <<degraded, stored>>
     \/ ~degraded /\ degraded' = TRUE /\ stored' \in {stored, Written}
  /\ session' = [session EXCEPT ![s].at = "answered", ![s].reply = Failure]
  /\ UNCHANGED <<client, minted, called, vars>>

\* run_session of a session whose client is gone: a read or a send fails.
EndSession(s) ==
  /\ session[s] # Free /\ Orphan(s)
  /\ session[s].at # "effected"
  /\ session' = [session EXCEPT ![s] = Free]
  /\ UNCHANGED <<client, minted, called, serverVars>>

\* Every session ends with the process; the next one starts from what is stored.
CrashAndRestart ==
  /\ stored.epoch < MaxEpoch
  /\ Restart(stored.epoch + 1)
  /\ client' = [c \in Clients |-> Closed(c)]
  /\ session' = [s \in Sessions |-> Free]
  /\ degraded' = FALSE
  /\ UNCHANGED <<minted, called>>

ClientStep(c) ==
  \/ \E s \in Sessions : Connect(c, s)
  \/ \E op \in Calls : Call(c, op)
  \/ Receive(c)
  \/ Disconnect(c)

SessionStep(s) ==
  Execute(s) \/ RefuseRequest(s) \/ CommitEffect(s) \/ FailCommit(s) \/ EndSession(s)

ClientNext ==
  \/ \E c \in Clients : ClientStep(c)
  \/ \E s \in Sessions : SessionStep(s)
  \/ CrashAndRestart

ClientSpec == ClientInit /\ [][ClientNext]_clientVars

-----------------------------------------------------------------------------
(* Properties.                                                             *)

\* Process c holds the job as far as the coordinator is concerned.
Holds(c) ==
  /\ Connected(c)
  /\ client[c].boot = boot
  /\ session[client[c].session].incarnation = incarnation
  /\ incarnation \notin retiredSet /\ ~retired

(***************************************************************************)
(* protocol.md:45: a process that is not the owner binds with LOOKUP_HANDLE *)
(* but regains authority only through ADMIT_REPLACEMENT.  Whatever was in  *)
(* flight on whichever session, a step, its books and the registrations    *)
(* change only on a request of the process the job belongs to afterwards.  *)
(***************************************************************************)
OnlyTheHolderActs ==
  [][\A s \in Sessions :
       (/\ session[s].at = "received" /\ session'[s].at \in {"effected", "answered"}
        /\ session[s].request.op # "ApplyPolicy"
        /\ <<step, flows, groups, topology, incarnation, retiredSet, retired>>' #
             <<step, flows, groups, topology, incarnation, retiredSet, retired>>)
       => session[s].boot = boot']_clientVars

(***************************************************************************)
(* The step an idle holder tracks is the one that is open (client.hpp:     *)
(* requests that name no step are bound to the step this session opened).  *)
(* Two exceptions, in both of which it cannot close the step: the process  *)
(* came back as itself, and the step was opened on a connection that was   *)
(* lost; or opening (or closing) a step took effect and its commit failed  *)
(* (coordinator.cpp:675), so that it was told an error.                    *)
(***************************************************************************)
HolderKnowsStep ==
  \A c \in Clients : Idle(c) /\ Holds(c) /\ step.id # 0 =>
    \/ client[c].step = step.id
    \/ client[c].again /\ client[c].step = 0
    \/ "step" \in client[c].behind

(***************************************************************************)
(* A client and its session agree on who they are: no request of a bound   *)
(* client is refused for what it claims (AuthorityMismatch, token_from).   *)
(***************************************************************************)
EnvelopesAgree ==
  \A s \in Sessions :
    LET r == session[s].request
    IN  session[s].at = "received" /\ ~Orphan(s) /\ r.op \in Tokened /\ r.token.incarnation # 0
          => Proven(s, r.token)

(***************************************************************************)
(* What a connected client was told is never ahead of the fabric, though   *)
(* LOOKUP_HANDLE answers from a fabric that is ahead of the disk and a     *)
(* crash takes the difference back (dispatch_request, Client::Connect).    *)
(***************************************************************************)
ToldIsTrue ==
  \A c \in Clients : Connected(c) =>
    /\ client[c].epoch <= epoch /\ client[c].incarnation <= incarnation
    /\ client[c].topology <= topology.gen /\ client[c].policy <= policyGen
    /\ client[c].step <= highestStep

(***************************************************************************)
(* protocol.md:46: authority is regained through ADMIT_REPLACEMENT.  A     *)
(* process that holds the job, with nothing in flight, is honoured as soon *)
(* as it has looked its handle up, whatever the processes, the connections *)
(* and the coordinator went through.  Before the lookup it is not: the     *)
(* grant leaves the client without the generations of the job.  And a      *)
(* process that came back as itself may be overtaken by what it had sent   *)
(* before: its orphaned session holds the same authority.  Evidence that   *)
(* was published though its commit failed (coordinator.cpp:585) leaves the *)
(* publisher a generation behind, until it looks its handle up again.      *)
(***************************************************************************)
HonouredOnceLookedUp ==
  \A c \in Clients :
    (/\ Idle(c) /\ Holds(c)
     /\ ~client[c].granted /\ ~client[c].again /\ "topology" \notin client[c].behind)
    => Authorised(Token(c, 0))

(***************************************************************************)
(* Seen from the job, the processes, their sessions and the crashes are    *)
(* one fabric that is operated, stored and restarted: whatever a request   *)
(* still claims when it is carried out, it does what one operation of the  *)
(* fabric does at that moment, or nothing (dispatch_request, commit_state, *)
(* Start).  Tokens are of AnyAge: a request may be late.                   *)
(***************************************************************************)
JobIsServed == RestartSpec
=============================================================================
