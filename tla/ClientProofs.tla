---------------------------- MODULE ClientProofs -----------------------------
(***************************************************************************)
(* Theorems about Client, for any number of processes, sessions, requests  *)
(* in flight, lost connections, crashes and boot identities.  Whether the  *)
(* fabric accepts a request is ENABLED of its operation, of which nothing  *)
(* is used: what is proved holds whatever is refused.                      *)
(***************************************************************************)
EXTENDS Client, RestartProofs

-----------------------------------------------------------------------------
(* The invariant, in layers.                                               *)

StepRecord(x) ==
  x = [id |-> x.id, incarnation |-> x.incarnation, seen |-> x.seen,
       phases |-> x.phases, burst |-> x.burst, acct |-> x.acct]

ClientRecord(x) ==
  x = [session |-> x.session, boot |-> x.boot, epoch |-> x.epoch, incarnation |-> x.incarnation,
       topology |-> x.topology, policy |-> x.policy, step |-> x.step, granted |-> x.granted,
       again |-> x.again, behind |-> x.behind]

SessionRecord(x) ==
  x = [at |-> x.at, boot |-> x.boot, incarnation |-> x.incarnation, request |-> x.request,
       reply |-> x.reply]

Bound(c) == session[client[c].session]

ShapeInv ==
  /\ DOMAIN client = Clients /\ \A c \in Clients : ClientRecord(client[c])
  /\ DOMAIN session = Sessions /\ \A s \in Sessions : SessionRecord(session[s])
  /\ \A s \in Sessions : session[s].at \in {"free", "open", "received", "effected", "answered"}
  /\ StepRecord(step) /\ StepRecord(stored.step)

\* The counters of the fabric, in memory and on the disk.
CountInv ==
  /\ epoch \in Nat /\ incarnation \in Nat /\ topology.gen \in Nat /\ policyGen \in Nat
  /\ highestStep \in Nat /\ lastClosed \in Nat /\ step.id \in Nat
  /\ stored.epoch \in Nat /\ stored.incarnation \in Nat /\ stored.topology.gen \in Nat
  /\ stored.policyGen \in Nat /\ stored.highestStep \in Nat /\ stored.lastClosed \in Nat
  /\ stored.step.id \in Nat

\* A session has one client, which got what it has from that session alone.
LinkInv ==
  /\ \A c, d \in Clients : Connected(c) /\ client[c].session = client[d].session => c = d
  /\ \A c \in Clients : ~Connected(c) => client[c] = Unconnected(client[c].boot)
  /\ \A c \in Clients : Connected(c) =>
       /\ client[c].session \in Sessions /\ Bound(c).at # "free"
       /\ Bound(c).boot = client[c].boot /\ client[c].boot # 0 /\ client[c].epoch = epoch

\* What c tracks once it has received what its session has in store for it.
Due(c) ==
  IF Bound(c).at \in {"effected", "answered"} THEN Learnt(c, Bound(c).request, Bound(c).reply)
  ELSE client[c]

\* The session of c has bound what c believes its incarnation to be.
Agrees(c) ==
  LET r == Bound(c).request
      a == Bound(c).reply
  IN  /\ Bound(c).at = "effected" => a.ok /\ r.op # "LookupHandle"
      /\ Bound(c).at # "answered" => client[c].incarnation = Bound(c).incarnation
      /\ Bound(c).at = "answered" => Due(c).incarnation = Bound(c).incarnation
      /\ Bound(c).at = "received" /\ r.op \in Tokened =>
           /\ r.token.incarnation = client[c].incarnation /\ r.token.boot = client[c].boot
           /\ r.token.epoch = client[c].epoch
           /\ r.op = "EndStep" => r.token.step = client[c].step

TrustInv == \A c \in Clients : Connected(c) => Agrees(c)

\* Nobody has been told, or claims, what the fabric has not come to.
Behind(k) ==
  /\ k.incarnation \in Nat /\ k.incarnation <= incarnation
  /\ k.topology \in Nat /\ k.topology <= topology.gen
  /\ k.policy \in Nat /\ k.policy <= policyGen
  /\ k.step \in Nat /\ k.step <= highestStep

\* The same of session x: what it has bound, the request it has read, the answer it has ready.
SessionBehind(x) ==
  LET r == x.request
      a == x.reply
  IN  /\ x.incarnation \in Nat /\ x.incarnation <= incarnation
      /\ x.at = "effected" => a.ok
      /\ x.at = "effected" /\ r.op = "AdmitReplacement" => x.incarnation < a.incarnation
      /\ x.at = "received" /\ r.op = "ApplyPolicy" => r.document \in Nat
      /\ x.at = "received" /\ r.op \in Tokened =>
           /\ r.token.incarnation \in Nat /\ r.token.incarnation <= incarnation
           /\ r.token.step \in Nat
      /\ x.at \in {"effected", "answered"} /\ a.ok =>
           /\ a.incarnation \in Nat /\ a.incarnation <= incarnation
           /\ a.topology \in Nat /\ a.topology <= topology.gen
           /\ a.policy \in Nat /\ a.policy <= policyGen
           /\ r.op = "BeginStep" => r.token.step \in Nat /\ r.token.step <= highestStep

BehindInv ==
  /\ \A c \in Clients : Connected(c) => Behind(client[c])
  /\ \A s \in Sessions : SessionBehind(session[s])

\* A boot identity is one process, however often it connects.
BootInv ==
  /\ minted \in Nat
  /\ boot \in Nat /\ boot <= minted /\ stored.boot \in Nat /\ stored.boot <= minted
  /\ \A c \in Clients : client[c].boot \in Nat /\ client[c].boot <= minted
  /\ \A s \in Sessions : session[s].boot \in Nat /\ session[s].boot <= minted
  /\ \A c, d \in Clients : client[c].boot = client[d].boot => c = d \/ client[c].boot = 0
  /\ \A c \in Clients : Connected(c) /\ ~client[c].again =>
       \A s \in Sessions : s # client[c].session => session[s].boot # client[c].boot

\* Session s, or the client on it, can name step x as the one it opened.
Names(s, x) ==
  LET r == session[s].request
  IN  \/ \E c \in Clients : client[c].session = s /\ client[c].step = x
      \/ session[s].at = "received" /\ r.op = "EndStep" /\ r.token.step = x
      \/ /\ session[s].at \in {"effected", "answered"} /\ session[s].reply.ok
         /\ r.op = "BeginStep" /\ r.token.step = x

\* No two of them can name the same step, and nobody a step that was not begun.
NamesInv ==
  \A s \in Sessions, x \in Nat \ {0} : Names(s, x) =>
    /\ x <= highestStep
    /\ \A r \in Sessions : Names(r, x) => r = s

(***************************************************************************)
(* What holds of a process whose boot identity has the job, in this order: *)
(* it knows the step that is open, unless it came back as itself; if it    *)
(* believes in a step that is not open, nobody else is left who could open *)
(* one in its name; if it has looked up the handle of the incarnation that *)
(* has the job, it has the generation of the topology.  Of what it was     *)
(* left behind in by an error nothing of this is known.                    *)
(***************************************************************************)
Informed(c) ==
  LET k == Due(c)
  IN  /\ step.id # 0 /\ "step" \notin k.behind =>
           k.step = step.id \/ (client[c].again /\ k.step = 0)
      /\ /\ k.step # 0 /\ k.step # step.id /\ "step" \notin k.behind
         /\ ~retired /\ incarnation \notin retiredSet
         => \A s \in Sessions :
              s # client[c].session /\ session[s].boot = boot /\ session[s].at = "received"
                /\ session[s].request.op \in Tokened
              => session[s].request.token.incarnation # incarnation
      /\ ~client[c].again /\ ~k.granted /\ k.incarnation = incarnation
           /\ "topology" \notin k.behind
         => k.topology = topology.gen

HolderInv == \A c \in Clients : Connected(c) /\ client[c].boot = boot => Informed(c)

-----------------------------------------------------------------------------
(* What an executed request does, as far as processes can tell.            *)

keptByAll == <<epoch, policyGen, highestStep>>

Quiet(r) ==
  /\ r.op \notin {"AdmitReplacement", "BeginStep", "EndStep", "PublishTopology", "ApplyPolicy"}
  /\ UNCHANGED <<authVars, topology, lastClosed>> /\ UNCHANGED keptByAll /\ step'.id = step.id

Applied(r) ==
  /\ r.op = "ApplyPolicy"
  /\ policyGen' = r.document /\ r.document > policyGen
  /\ UNCHANGED <<authVars, topology, highestStep, lastClosed>> /\ step'.id = step.id

Published(r) ==
  /\ r.op = "PublishTopology" /\ Authorised(r.token)
  /\ topology'.gen = topology.gen + 1
  /\ UNCHANGED <<authVars, lastClosed>> /\ UNCHANGED keptByAll /\ step'.id = step.id

Begun(r) ==
  /\ r.op = "BeginStep" /\ Authorised(r.token) /\ step.id = 0
  /\ r.token.step > highestStep
  /\ step'.id = r.token.step /\ highestStep' = r.token.step
  /\ UNCHANGED <<authVars, topology, policyGen, lastClosed>>

Ended(r) ==
  /\ r.op = "EndStep" /\ InStep(r.token)
  /\ step'.id = 0 /\ lastClosed' = step.id
  /\ UNCHANGED <<authVars, topology>> /\ UNCHANGED keptByAll

\* RETIRE_JOB or RETIRE_INCARNATION.
Revoked(r) ==
  /\ r.op \in {"RetireJob", "RetireIncarnation"} /\ Authorised(r.token)
  /\ retired' \/ incarnation \in retiredSet'
  /\ step'.id = 0 /\ lastClosed' \in {lastClosed, step.id}
  /\ UNCHANGED <<incarnation, boot, topology>> /\ UNCHANGED keptByAll

Replaced(b, r) ==
  /\ r.op = "AdmitReplacement" /\ b # boot
  /\ incarnation' = incarnation + 1 /\ boot' = b
  /\ step'.id = 0 /\ lastClosed' \in {lastClosed, step.id}
  /\ UNCHANGED topology /\ UNCHANGED keptByAll

\* Request r of a session whose process is b.
Effect(b, r) ==
  \/ Quiet(r) \/ Applied(r) \/ Published(r) \/ Begun(r) \/ Ended(r) \/ Revoked(r)
  \/ Replaced(b, r)

LEMMA FenceEffect ==
  ASSUME StepRecord(step), FenceOpenStep
  PROVE  StepRecord(step)' /\ step'.id = 0 /\ lastClosed' \in {lastClosed, step.id}
<1>1. CASE step.id # 0
  BY <1>1 DEF FenceOpenStep, CloseStep, NoStep, StepRecord
<1>2. CASE step.id = 0
  BY <1>2 DEF FenceOpenStep, StepRecord
<1> QED BY <1>1, <1>2

LEMMA RegistrationEffect ==
  ASSUME StepRecord(step), NEW b, NEW r, PerformRegistration(r)
  PROVE  Effect(b, r) /\ StepRecord(step)'
<1> USE DEF authVars, keptByAll
<1>1. CASE r.op = "RegisterGroup" /\ RegisterGroup(r.token, r.group)
  <2>1. Quiet(r) BY <1>1 DEF RegisterGroup, idVars, Quiet
  <2> QED BY <1>1, <2>1 DEF RegisterGroup, Effect, StepRecord
<1>2. CASE r.op = "PublishTopology" /\ PublishTopology(r.token, r.evidence)
  <2>1. PICK a : step' = [step EXCEPT !.acct = a] BY <1>2 DEF PublishTopology, Invalidate
  <2>2. step'.id = step.id /\ StepRecord(step)' BY <2>1 DEF StepRecord
  <2>3. Published(r) BY <1>2, <2>2 DEF PublishTopology, idVars, Published
  <2> QED BY <2>2, <2>3 DEF Effect
<1>3. CASE r.op = "ApplyPolicy" /\ ApplyPolicy(r.document)
  <2>1. PICK a : step' = [step EXCEPT !.acct = a] BY <1>3 DEF ApplyPolicy, Invalidate
  <2>2. step'.id = step.id /\ StepRecord(step)' BY <2>1 DEF StepRecord
  <2>3. Applied(r) BY <1>3, <2>2 DEF ApplyPolicy, idVars, Applied
  <2> QED BY <2>2, <2>3 DEF Effect
<1>4. CASE r.op = "RetireJob" /\ RetireJob(r.token)
  <2>1. StepRecord(step)' /\ step'.id = 0 /\ lastClosed' \in {lastClosed, step.id}
    BY <1>4, FenceEffect DEF RetireJob
  <2>2. Revoked(r) BY <1>4, <2>1 DEF RetireJob, configVars, Revoked
  <2> QED BY <2>1, <2>2 DEF Effect
<1> QED BY <1>1, <1>2, <1>3, <1>4 DEF PerformRegistration

LEMMA LifecycleEffect ==
  ASSUME StepRecord(step), NEW b, NEW r, PerformLifecycle(r)
  PROVE  Effect(b, r) /\ StepRecord(step)'
<1> USE DEF authVars, configVars, keptByAll
<1>1. CASE r.op = "BeginStep" /\ BeginStep(r.token, r.token.step)
  <2>1. Begun(r) BY <1>1 DEF BeginStep, NoStep, Ahead, Begun
  <2>2. StepRecord(step)' BY <1>1 DEF BeginStep, NoStep, StepRecord
  <2> QED BY <2>1, <2>2 DEF Effect
<1>2. CASE r.op = "BeginPhase" /\ BeginPhase(r.token, r.cls, r.group)
  <2>1. PICK x : step' = [step EXCEPT !.phases = x] BY <1>2 DEF BeginPhase
  <2>2. step'.id = step.id /\ StepRecord(step)' BY <2>1 DEF StepRecord
  <2>3. Quiet(r) BY <1>2, <2>2 DEF BeginPhase, Quiet
  <2> QED BY <2>2, <2>3 DEF Effect
<1>3. CASE r.op = "EndPhase" /\ EndPhase(r.token, r.phase)
  <2>1. PICK a : step' = [step EXCEPT !.acct = a, !.phases[r.phase].open = FALSE]
    BY <1>3 DEF EndPhase
  <2>2. step'.id = step.id /\ StepRecord(step)' BY <2>1 DEF StepRecord
  <2>3. Quiet(r) BY <1>3, <2>2 DEF EndPhase, idVars, Quiet
  <2> QED BY <2>2, <2>3 DEF Effect
<1>4. CASE r.op = "EndStep" /\ EndStep(r.token)
  <2>1. step'.id = 0 /\ StepRecord(step)' /\ lastClosed' = step.id
    BY <1>4 DEF EndStep, CloseStep, NoStep, StepRecord
  <2>2. Ended(r) BY <1>4, <2>1 DEF EndStep, Ended
  <2> QED BY <2>1, <2>2 DEF Effect
<1> QED BY <1>1, <1>2, <1>3, <1>4 DEF PerformLifecycle

LEMMA RequestEffect ==
  ASSUME StepRecord(step), NEW t, NEW p, NEW it, RequestTraffic(t, p, it)
  PROVE  step'.id = step.id /\ StepRecord(step)'
<1>1. CASE Unresolved(t, p) BY <1>1 DEF Unresolved, StepRecord
<1>2. CASE Rejected(t, p, it) BY <1>2 DEF Rejected, Refuse, StepRecord
<1>3. CASE Held(t, p, it) BY <1>3 DEF Held, Refuse, StepRecord
<1>4. CASE Admitted(t, p, it)
  <2>1. PICK n, a : step' = [step EXCEPT !.seen = n, !.acct = a] BY <1>4 DEF Admitted
  <2> QED BY <2>1 DEF StepRecord
<1> QED BY <1>1, <1>2, <1>3, <1>4 DEF RequestTraffic

LEMMA TrafficEffect ==
  ASSUME StepRecord(step), NEW b, NEW r, PerformTraffic(r)
  PROVE  Effect(b, r) /\ StepRecord(step)'
<1> USE DEF authVars, configVars, keptByAll
<1>1. CASE r.op = "RequestTraffic" /\ RequestTraffic(r.token, r.phase, r.intent)
  <2>1. step'.id = step.id /\ StepRecord(step)' BY <1>1, RequestEffect
  <2>2. Quiet(r) BY <1>1, <2>1 DEF RequestTraffic, Quiet
  <2> QED BY <2>1, <2>2 DEF Effect
<1>2. CASE r.op = "CompleteFlow" /\ CompleteFlow(r.token, r.intent, r.bytes, r.cancelled)
  <2>1. PICK a : step' = [step EXCEPT !.acct = a] BY <1>2 DEF CompleteFlow
  <2>2. step'.id = step.id /\ StepRecord(step)' BY <2>1 DEF StepRecord
  <2>3. Quiet(r) BY <1>2, <2>2 DEF CompleteFlow, idVars, Quiet
  <2> QED BY <2>2, <2>3 DEF Effect
<1>3. CASE r.op = "RevalidateFlow" /\ RevalidateFlow(r.token, r.intent)
  <2>1. Quiet(r) BY <1>3 DEF RevalidateFlow, ledgerVars, idVars, Quiet
  <2>2. StepRecord(step)' BY <1>3 DEF RevalidateFlow, ledgerVars, StepRecord
  <2> QED BY <2>1, <2>2 DEF Effect
<1>4. CASE r.op = "BeginCheckpointBurst" /\ BeginCheckpointBurst(r.token, r.group)
  <2>1. PICK x, a : step' = [step EXCEPT !.burst = x, !.acct = a]
    BY <1>4 DEF BeginCheckpointBurst
  <2>2. step'.id = step.id /\ StepRecord(step)' BY <2>1 DEF StepRecord
  <2>3. Quiet(r) BY <1>4, <2>2 DEF BeginCheckpointBurst, Quiet
  <2> QED BY <2>2, <2>3 DEF Effect
<1>5. CASE r.op = "EndCheckpointBurst" /\ EndCheckpointBurst(r.token, r.burst)
  <2>1. step' = [step EXCEPT !.burst.active = FALSE] BY <1>5 DEF EndCheckpointBurst
  <2>2. step'.id = step.id /\ StepRecord(step)' BY <2>1 DEF StepRecord
  <2>3. Quiet(r) BY <1>5, <2>2 DEF EndCheckpointBurst, idVars, Quiet
  <2> QED BY <2>2, <2>3 DEF Effect
<1> QED BY <1>1, <1>2, <1>3, <1>4, <1>5 DEF PerformTraffic

LEMMA RecoveryEffect ==
  ASSUME StepRecord(step), NEW s, NEW r, PerformRecovery(s, r)
  PROVE  Effect(session[s].boot, r) /\ StepRecord(step)'
<1> USE DEF authVars, configVars, keptByAll
<1>1. CASE r.op = "LookupHandle" /\ UNCHANGED vars
  BY <1>1 DEF vars, ledgerVars, idVars, Quiet, Effect, StepRecord
<1>2. CASE /\ r.op = "AdmitReplacement"
           /\ AdmitReplacement(epoch, r.expected, session[s].boot, r.resume)
  <2>1. StepRecord(step)' /\ step'.id = 0 /\ lastClosed' \in {lastClosed, step.id}
    BY <1>2, FenceEffect DEF AdmitReplacement
  <2>2. Replaced(session[s].boot, r) BY <1>2, <2>1 DEF AdmitReplacement, Replaced
  <2> QED BY <2>1, <2>2 DEF Effect
<1>3. CASE r.op = "RetireIncarnation" /\ RetireIncarnation(r.token)
  <2>1. StepRecord(step)' /\ step'.id = 0 /\ lastClosed' \in {lastClosed, step.id}
    BY <1>3, FenceEffect DEF RetireIncarnation
  <2>2. Revoked(r) BY <1>3, <2>1 DEF RetireIncarnation, Revoked
  <2> QED BY <2>1, <2>2 DEF Effect
<1> QED BY <1>1, <1>2, <1>3 DEF PerformRecovery

LEMMA PerformEffect ==
  ASSUME StepRecord(step), NEW s, NEW r, Perform(s, r)
  PROVE  Effect(session[s].boot, r) /\ StepRecord(step)'
BY RegistrationEffect, LifecycleEffect, TrafficEffect, RecoveryEffect DEF Perform
-----------------------------------------------------------------------------
(* What the steps of processes and sessions change, field by field.        *)

OnlyClient(c) == session' = session /\ \A d \in Clients : d # c => client'[d] = client[d]
OnlySession(s) == client' = client /\ \A r \in Sessions : r # s => session'[r] = session[r]

\* c, known as b, is given session s.
ConnectedAs(c, s, b) ==
  /\ ~Connected(c) /\ session[s] = Free
  /\ b \in {minted + 1, client[c].boot} /\ b # 0 /\ b \in Nat
  /\ minted' = MaxOf2(minted, b)
  /\ \A d \in Clients : d # c => client'[d] = client[d]
  /\ client'[c].session = s /\ client'[c].boot = b /\ client'[c].epoch = epoch
  /\ client'[c].incarnation = 0 /\ client'[c].topology = 0 /\ client'[c].policy = 0
  /\ client'[c].step = 0 /\ ~client'[c].granted /\ client'[c].behind = {}
  /\ client'[c].again <=> b = client[c].boot
  /\ \A r \in Sessions : r # s => session'[r] = session[r]
  /\ session'[s] = [Free EXCEPT !.at = "open", !.boot = b]
  /\ UNCHANGED fabricVars

LEMMA ConnectDoes ==
  ASSUME ShapeInv, LinkInv, NEW c \in Clients, NEW s \in Sessions, Connect(c, s)
  PROVE  ShapeInv' /\ \E b : ConnectedAs(c, s, b)
<1>1. PICK b \in ({minted + 1, client[c].boot} \ {0}) \cap Boots :
        /\ minted' = MaxOf2(minted, b)
        /\ client' = [client EXCEPT ![c] =
                        [@ EXCEPT !.boot = b, !.session = s, !.epoch = epoch,
                                  !.again = b = client[c].boot]]
        /\ session' = [session EXCEPT ![s] = [Free EXCEPT !.at = "open", !.boot = b]]
  BY DEF Connect
<1>2. b \in Nat BY ClientAssumption DEF ClientAssumption
<1>3. client[c] = Unconnected(client[c].boot) BY DEF Connect, LinkInv
<1>4. client'[c] = [client[c] EXCEPT !.boot = b, !.session = s, !.epoch = epoch,
                                     !.again = b = client[c].boot]
  BY <1>1 DEF ShapeInv
<1>5. /\ client'[c].session = s /\ client'[c].boot = b /\ client'[c].epoch = epoch
      /\ client'[c].incarnation = 0 /\ client'[c].topology = 0 /\ client'[c].policy = 0
      /\ client'[c].step = 0 /\ ~client'[c].granted /\ client'[c].behind = {}
      /\ client'[c].again <=> b = client[c].boot
      /\ ClientRecord(client'[c])
  <2>1. PICK k, o : k = client[c] /\ o = client[c].boot OBVIOUS
  <2>2. k = Unconnected(o) BY <1>3, <2>1
  <2>3. /\ ClientRecord(k) /\ k.incarnation = 0 /\ k.topology = 0 /\ k.policy = 0
        /\ k.step = 0 /\ k.granted = FALSE /\ k.behind = {}
    BY <2>2 DEF Unconnected, ClientRecord
  <2> QED BY <1>4, <2>1, <2>3 DEF ClientRecord
<1>6. session'[s] = [Free EXCEPT !.at = "open", !.boot = b] BY <1>1 DEF ShapeInv
<1>7. ConnectedAs(c, s, b) BY <1>1, <1>2, <1>5, <1>6 DEF Connect, ConnectedAs, ShapeInv, serverVars
<1>8. SessionRecord(session'[s]) /\ session'[s].at = "open" BY <1>6 DEF Free, SessionRecord
<1>9. ShapeInv'
  BY <1>1, <1>5, <1>7, <1>8 DEF ConnectedAs, ShapeInv, fabricVars, vars, ledgerVars
<1> QED BY <1>7, <1>9

\* Session s goes from one stage to another; what belongs to the connection stays.
Staged(s, from, to) ==
  /\ OnlySession(s)
  /\ session[s].at = from /\ session'[s].at = to /\ session'[s].boot = session[s].boot

Sent(c, r) ==
  LET s == client[c].session
  IN  /\ Staged(s, "open", "received")
      /\ session'[s].request = r /\ session'[s].incarnation = session[s].incarnation
      /\ UNCHANGED <<minted, fabricVars>>

LEMMA SendDoes ==
  ASSUME ShapeInv, LinkInv, NEW c \in Clients, NEW r, Send(c, r)
  PROVE  ShapeInv' /\ Connected(c) /\ Sent(c, r)
<1>1. PICK s \in Sessions : s = client[c].session /\ Connected(c)
  BY DEF Send, Idle, LinkInv
<1>2. session' = [session EXCEPT ![s].at = "received", ![s].request = r] /\ session[s].at = "open"
  BY <1>1 DEF Send, Idle
<1>3. session'[s] = [session[s] EXCEPT !.at = "received", !.request = r]
  BY <1>2 DEF ShapeInv
<1>4. /\ SessionRecord(session'[s]) /\ session'[s].at = "received" /\ session'[s].request = r
      /\ session'[s].boot = session[s].boot /\ session'[s].incarnation = session[s].incarnation
  BY <1>3 DEF ShapeInv, SessionRecord
<1>5. Sent(c, r) BY <1>1, <1>2, <1>4 DEF Send, Sent, Staged, OnlySession, ShapeInv, serverVars
<1>6. ShapeInv'
  BY <1>2, <1>4, <1>5 DEF Sent, Staged, OnlySession, ShapeInv, fabricVars, vars, ledgerVars
<1> QED BY <1>1, <1>5, <1>6

\* What c is behind in after the reply a to r.
StepBehind(k, c, r, a) ==
  "step" \in k.behind <=>
    IF r.op \in {"BeginStep", "EndStep"}
    THEN ~a.ok /\ (a.effected \/ "step" \in client[c].behind)
    ELSE "step" \in client[c].behind

TopologyBehind(k, c, r, a) ==
  "topology" \in k.behind <=>
    IF r.op = "PublishTopology" THEN ~a.ok /\ (a.effected \/ "topology" \in client[c].behind)
    ELSE ~(a.ok /\ r.op = "LookupHandle") /\ "topology" \in client[c].behind

\* What c tracks after the reply a to r, one field after the other.
Tracks(k, c, r, a) ==
  /\ ClientRecord(k)
  /\ k.session = client[c].session /\ k.boot = client[c].boot
  /\ k.epoch = client[c].epoch /\ k.again = client[c].again
  /\ k.incarnation = IF a.ok /\ r.op \in {"LookupHandle", "AdmitReplacement"}
                     THEN a.incarnation ELSE client[c].incarnation
  /\ k.topology = IF a.ok /\ r.op \in {"LookupHandle", "PublishTopology"}
                  THEN a.topology ELSE client[c].topology
  /\ k.policy = IF a.ok /\ r.op \in {"LookupHandle", "ApplyPolicy"}
                THEN a.policy ELSE client[c].policy
  /\ k.step = IF a.ok /\ r.op = "BeginStep" THEN r.token.step
              ELSE IF a.ok /\ r.op = "EndStep" THEN 0 ELSE client[c].step
  /\ a.ok /\ r.op = "AdmitReplacement" => k.granted = TRUE
  /\ a.ok /\ r.op = "LookupHandle" => k.granted = FALSE
  /\ ~a.ok \/ r.op \notin {"AdmitReplacement", "LookupHandle"} => k.granted = client[c].granted
  /\ StepBehind(k, c, r, a) /\ TopologyBehind(k, c, r, a)

LEMMA LearntFields ==
  ASSUME NEW c, ClientRecord(client[c]), NEW r, NEW a
  PROVE  Tracks(Learnt(c, r, a), c, r, a)
<1> USE DEF Tracks, StepBehind, TopologyBehind
<1>1. PICK k : k = client[c] /\ ClientRecord(k) OBVIOUS
<1>2. CASE ~a.ok
  <2>1. PICK b : b = IF a.effected THEN k.behind \cup Untold(r.op) ELSE k.behind OBVIOUS
  <2>2. Learnt(c, r, a) = [k EXCEPT !.behind = b] BY <1>1, <1>2, <2>1 DEF Learnt
  <2>3. PICK z : z = [k EXCEPT !.behind = b] OBVIOUS
  <2>4. ClientRecord(z) /\ z.behind = b BY <1>1, <2>3 DEF ClientRecord
  <2>5. /\ z.session = k.session /\ z.boot = k.boot /\ z.epoch = k.epoch /\ z.again = k.again
        /\ z.incarnation = k.incarnation /\ z.topology = k.topology /\ z.policy = k.policy
        /\ z.step = k.step /\ z.granted = k.granted
    BY <1>1, <2>3 DEF ClientRecord
  <2>6. "step" \in b <=> "step" \in k.behind \/ (a.effected /\ r.op \in {"BeginStep", "EndStep"})
    BY <2>1 DEF Untold
  <2>7. "topology" \in b <=> "topology" \in k.behind \/ (a.effected /\ r.op = "PublishTopology")
    BY <2>1 DEF Untold
  <2> QED BY <1>1, <1>2, <2>2, <2>3, <2>4, <2>5, <2>6, <2>7
<1>10. PICK u, v : u = k.behind \ {"topology"} /\ v = k.behind \ {"step"}
  OBVIOUS
<1>11. /\ "topology" \notin u /\ ("step" \in u <=> "step" \in k.behind)
       /\ "step" \notin v /\ ("topology" \in v <=> "topology" \in k.behind)
  BY ONLY <1>10
<1>9. CASE a.ok /\ r.op \notin {"LookupHandle", "AdmitReplacement", "PublishTopology",
                                 "ApplyPolicy", "BeginStep", "EndStep"}
  <2>1. Learnt(c, r, a) = client[c] BY <1>9 DEF Learnt
  <2> QED BY <1>9, <2>1
<1>3. CASE a.ok /\ r.op = "LookupHandle"
  <2>1. Learnt(c, r, a) = [k EXCEPT !.incarnation = a.incarnation, !.topology = a.topology,
                                    !.policy = a.policy, !.granted = FALSE, !.behind = u]
    BY <1>1, <1>3, <1>10 DEF Learnt, Adopted
  <2> QED BY <1>1, <1>3, <1>11, <2>1 DEF ClientRecord
<1>4. CASE a.ok /\ r.op = "AdmitReplacement"
  <2>1. Learnt(c, r, a) = [k EXCEPT !.incarnation = a.incarnation, !.granted = TRUE]
    BY <1>1, <1>4 DEF Learnt
  <2> QED BY <1>1, <1>4, <2>1 DEF ClientRecord
<1>5. CASE a.ok /\ r.op = "PublishTopology"
  <2>1. Learnt(c, r, a) = [k EXCEPT !.topology = a.topology, !.behind = u]
    BY <1>1, <1>5, <1>10 DEF Learnt
  <2> QED BY <1>1, <1>5, <1>11, <2>1 DEF ClientRecord
<1>6. CASE a.ok /\ r.op = "ApplyPolicy"
  <2>1. Learnt(c, r, a) = [k EXCEPT !.policy = a.policy] BY <1>1, <1>6 DEF Learnt
  <2> QED BY <1>1, <1>6, <2>1 DEF ClientRecord
<1>7. CASE a.ok /\ r.op = "BeginStep"
  <2>1. Learnt(c, r, a) = [k EXCEPT !.step = r.token.step, !.behind = v]
    BY <1>1, <1>7, <1>10 DEF Learnt
  <2> QED BY <1>1, <1>7, <1>11, <2>1 DEF ClientRecord
<1>8. CASE a.ok /\ r.op = "EndStep"
  <2>1. Learnt(c, r, a) = [k EXCEPT !.step = 0, !.behind = v]
    BY <1>1, <1>8, <1>10 DEF Learnt
  <2> QED BY <1>1, <1>8, <1>11, <2>1 DEF ClientRecord
<1> QED BY <1>2, <1>3, <1>4, <1>5, <1>6, <1>7, <1>8, <1>9

Received(c) ==
  LET s == client[c].session
  IN  /\ \A d \in Clients : d # c => client'[d] = client[d]
      /\ client'[c] = Learnt(c, session[s].request, session[s].reply)
      /\ \A r \in Sessions : r # s => session'[r] = session[r]
      /\ session[s].at = "answered" /\ session'[s].at = "open"
      /\ session'[s].boot = session[s].boot /\ session'[s].incarnation = session[s].incarnation
      /\ UNCHANGED <<minted, fabricVars>>

LEMMA ReceiveDoes ==
  ASSUME ShapeInv, LinkInv, NEW c \in Clients, Receive(c)
  PROVE  ShapeInv' /\ Connected(c) /\ Received(c)
<1>1. PICK s \in Sessions : s = client[c].session /\ Connected(c)
  BY DEF Receive, LinkInv
<1>2. /\ session[s].at = "answered"
      /\ client' = [client EXCEPT ![c] = Learnt(c, session[s].request, session[s].reply)]
      /\ session' = [session EXCEPT ![s].at = "open", ![s].request = NoRequest,
                                    ![s].reply = Refusal]
  BY <1>1 DEF Receive
<1>3. session'[s] = [session[s] EXCEPT !.at = "open", !.request = NoRequest, !.reply = Refusal]
  BY <1>2 DEF ShapeInv
<1>4. /\ SessionRecord(session'[s]) /\ session'[s].at = "open"
      /\ session'[s].boot = session[s].boot /\ session'[s].incarnation = session[s].incarnation
  BY <1>3 DEF ShapeInv, SessionRecord
<1>5. client'[c] = Learnt(c, session[s].request, session[s].reply) /\ ClientRecord(client'[c])
  BY <1>2, LearntFields DEF ShapeInv, Tracks
<1>6. Received(c) BY <1>1, <1>2, <1>4, <1>5 DEF Receive, Received, ShapeInv, serverVars
<1>7. ShapeInv'
  BY <1>1, <1>2, <1>4, <1>5, <1>6 DEF Received, ShapeInv, fabricVars, vars, ledgerVars
<1> QED BY <1>1, <1>6, <1>7

LEMMA ReceivedTracks ==
  ASSUME ShapeInv, NEW c \in Clients, Received(c)
  PROVE  Tracks(client'[c], c, Bound(c).request, Bound(c).reply)
<1>1. PICK q, a : q = Bound(c).request /\ a = Bound(c).reply OBVIOUS
<1>2. client'[c] = Learnt(c, q, a) BY <1>1 DEF Received, Bound
<1>3. ClientRecord(client[c]) BY DEF ShapeInv
<1>4. Tracks(client'[c], c, q, a) BY <1>2, <1>3, LearntFields
<1> QED BY <1>1, <1>4

Left(c) ==
  /\ OnlyClient(c) /\ client'[c] = Unconnected(client[c].boot)
  /\ UNCHANGED <<minted, fabricVars>>

LEMMA DisconnectDoes ==
  ASSUME ShapeInv, NEW c \in Clients, Disconnect(c)
  PROVE  ShapeInv' /\ Left(c)
<1>1. client'[c] = Unconnected(client[c].boot) BY DEF Disconnect, Closed, ShapeInv
<1>2. Left(c) BY <1>1 DEF Disconnect, Left, OnlyClient, ShapeInv, serverVars
<1>3. ClientRecord(client'[c]) BY <1>1 DEF Unconnected, ClientRecord
<1> QED BY <1>2, <1>3
  DEF Disconnect, Left, OnlyClient, ShapeInv, serverVars, fabricVars, vars, ledgerVars

-----------------------------------------------------------------------------
Executed(s) ==
  LET r == session[s].request
      a == session'[s].reply
  IN  /\ OnlySession(s) /\ session[s].at = "received"
      /\ session'[s].at = IF r.op \in Committed THEN "effected" ELSE "answered"
      /\ session'[s].boot = session[s].boot /\ session'[s].request = r
      /\ session'[s].incarnation =
           IF r.op = "LookupHandle" THEN incarnation ELSE session[s].incarnation
      /\ a.ok /\ a.incarnation = incarnation' /\ a.topology = topology'.gen
      /\ a.policy = policyGen'
      /\ r.op \in Tokened => Proven(s, r.token)
      /\ Effect(session[s].boot, r)
      /\ UNCHANGED <<minted, stored>>

LEMMA ExecuteAccepted ==
  ASSUME NEW s, Execute(s)
  PROVE  session[s].request.op \in Tokened => Proven(s, session[s].request.token)
BY DEF Execute, Accepts

LEMMA ExecuteDoes ==
  ASSUME ShapeInv, NEW s \in Sessions, Execute(s)
  PROVE  ShapeInv' /\ Executed(s)
<1>1. PICK r, a : r = session[s].request /\ a = Answer(r) OBVIOUS
<1>2. /\ session[s].at = "received" /\ Perform(s, r)
      /\ session' = [session EXCEPT
           ![s].at = IF r.op \in Committed THEN "effected" ELSE "answered",
           ![s].incarnation = IF r.op = "LookupHandle" THEN incarnation ELSE @,
           ![s].reply = a]
      /\ UNCHANGED <<client, minted, called, stored>>
  BY <1>1 DEF Execute
<1>3. Effect(session[s].boot, r) /\ StepRecord(step)' BY <1>2, PerformEffect DEF ShapeInv
<1>4. a.ok /\ a.incarnation = incarnation' /\ a.topology = topology'.gen /\ a.policy = policyGen'
  BY <1>1 DEF Answer
<1>5. PICK n, i :
        /\ n = IF r.op \in Committed THEN "effected" ELSE "answered"
        /\ i = IF r.op = "LookupHandle" THEN incarnation ELSE session[s].incarnation
  OBVIOUS
<1>6. session'[s] = [session[s] EXCEPT !.at = n, !.incarnation = i, !.reply = a]
  BY <1>2, <1>5 DEF ShapeInv
<1>7. /\ SessionRecord(session'[s]) /\ session'[s].at = n /\ session'[s].incarnation = i
      /\ session'[s].boot = session[s].boot /\ session'[s].request = session[s].request
      /\ session'[s].reply = a
  BY <1>6 DEF ShapeInv, SessionRecord
<1>8. OnlySession(s) BY <1>2 DEF OnlySession, ShapeInv
<1>9. Executed(s) BY <1>1, <1>2, <1>3, <1>4, <1>5, <1>7, <1>8, ExecuteAccepted DEF Executed
<1>10. n \in {"effected", "answered"} BY <1>5
<1>11. ShapeInv' BY <1>2, <1>3, <1>7, <1>8, <1>10 DEF OnlySession, ShapeInv
<1> QED BY <1>9, <1>11

Refused(s) ==
  /\ Staged(s, "received", "answered")
  /\ ~session'[s].reply.ok /\ ~session'[s].reply.effected
  /\ session'[s].request = session[s].request
  /\ session'[s].incarnation = session[s].incarnation
  /\ UNCHANGED <<minted, fabricVars>>

LEMMA RefuseDoes ==
  ASSUME ShapeInv, NEW s \in Sessions, RefuseRequest(s)
  PROVE  ShapeInv' /\ Refused(s)
<1>1. /\ session[s].at = "received"
      /\ session' = [session EXCEPT ![s].at = "answered", ![s].reply = Refusal]
      /\ UNCHANGED <<client, minted, called, fabricVars>>
  BY DEF RefuseRequest, serverVars
<1>2. session'[s] = [session[s] EXCEPT !.at = "answered", !.reply = Refusal]
  BY <1>1 DEF ShapeInv
<1>3. /\ SessionRecord(session'[s]) /\ session'[s].at = "answered"
      /\ session'[s].boot = session[s].boot /\ session'[s].request = session[s].request
      /\ session'[s].incarnation = session[s].incarnation /\ session'[s].reply = Refusal
  BY <1>2 DEF ShapeInv, SessionRecord
<1>4. Refused(s) BY <1>1, <1>3 DEF Refused, Staged, OnlySession, Refusal, ShapeInv
<1> QED BY <1>1, <1>3, <1>4
  DEF Refused, Staged, OnlySession, ShapeInv, fabricVars, vars, ledgerVars

Durable(s) ==
  /\ Staged(s, "effected", "answered")
  /\ session'[s].request = session[s].request /\ session'[s].reply = session[s].reply
  /\ session'[s].incarnation = IF session[s].request.op = "AdmitReplacement"
                               THEN session[s].reply.incarnation ELSE session[s].incarnation
  /\ stored' = Written
  /\ UNCHANGED <<minted, vars>>

LEMMA CommitDoes ==
  ASSUME ShapeInv, NEW s \in Sessions, CommitEffect(s)
  PROVE  ShapeInv' /\ Durable(s)
<1>1. PICK i : i = IF session[s].request.op = "AdmitReplacement"
                   THEN session[s].reply.incarnation ELSE session[s].incarnation
  OBVIOUS
<1>2. /\ session[s].at = "effected" /\ stored' = Written
      /\ session' = [session EXCEPT ![s].at = "answered", ![s].incarnation = i]
      /\ UNCHANGED <<client, minted, called, vars>>
  BY <1>1 DEF CommitEffect
<1>3. session'[s] = [session[s] EXCEPT !.at = "answered", !.incarnation = i]
  BY <1>2 DEF ShapeInv
<1>4. /\ SessionRecord(session'[s]) /\ session'[s].at = "answered"
      /\ session'[s].boot = session[s].boot /\ session'[s].request = session[s].request
      /\ session'[s].incarnation = i /\ session'[s].reply = session[s].reply
  BY <1>3 DEF ShapeInv, SessionRecord
<1>5. Durable(s) BY <1>1, <1>2, <1>4 DEF Durable, Staged, OnlySession, ShapeInv
<1>6. StepRecord(stored'.step)
  <2>1. PICK a : stored'.step = [step EXCEPT !.acct = a] BY <1>2 DEF Written, WrittenStep
  <2> QED BY <2>1 DEF StepRecord, ShapeInv
<1> QED BY <1>2, <1>4, <1>5, <1>6 DEF Durable, Staged, OnlySession, ShapeInv, vars, ledgerVars

Failed(s) ==
  /\ Staged(s, "effected", "answered")
  /\ ~session'[s].reply.ok /\ session'[s].reply.effected
  /\ session'[s].request = session[s].request
  /\ session'[s].incarnation = session[s].incarnation
  /\ stored' \in {stored, Written}
  /\ UNCHANGED <<minted, vars>>

LEMMA FailDoes ==
  ASSUME ShapeInv, NEW s \in Sessions, FailCommit(s)
  PROVE  ShapeInv' /\ Failed(s)
<1>1. /\ session[s].at = "effected" /\ stored' \in {stored, Written}
      /\ session' = [session EXCEPT ![s].at = "answered", ![s].reply = Failure]
      /\ UNCHANGED <<client, minted, called, vars>>
  BY DEF FailCommit
<1>2. session'[s] = [session[s] EXCEPT !.at = "answered", !.reply = Failure]
  BY <1>1 DEF ShapeInv
<1>3. /\ SessionRecord(session'[s]) /\ session'[s].at = "answered"
      /\ session'[s].boot = session[s].boot /\ session'[s].request = session[s].request
      /\ session'[s].incarnation = session[s].incarnation /\ session'[s].reply = Failure
  BY <1>2 DEF ShapeInv, SessionRecord
<1>4. Failed(s) BY <1>1, <1>3 DEF Failed, Staged, OnlySession, Failure, ShapeInv
<1>5. StepRecord(Written.step)
  <2>1. PICK a : Written.step = [step EXCEPT !.acct = a] BY DEF Written, WrittenStep
  <2> QED BY <2>1 DEF StepRecord, ShapeInv
<1> QED BY <1>1, <1>3, <1>4, <1>5
  DEF Failed, Staged, OnlySession, ShapeInv, vars, ledgerVars

Freed(s) ==
  /\ OnlySession(s) /\ session'[s] = Free
  /\ Orphan(s) /\ session[s].at # "effected"
  /\ UNCHANGED <<minted, fabricVars>>

LEMMA EndDoes ==
  ASSUME ShapeInv, NEW s \in Sessions, EndSession(s)
  PROVE  ShapeInv' /\ Freed(s)
<1>1. Freed(s) BY DEF EndSession, Freed, OnlySession, ShapeInv, serverVars
<1>2. SessionRecord(session'[s]) /\ session'[s].at = "free"
  BY <1>1 DEF Freed, Free, SessionRecord
<1> QED BY <1>1, <1>2
  DEF EndSession, Freed, OnlySession, ShapeInv, serverVars, fabricVars, vars, ledgerVars

Restarted ==
  /\ \A c \in Clients : client'[c] = Unconnected(client[c].boot)
  /\ \A s \in Sessions : session'[s] = Free
  /\ epoch' = stored.epoch + 1 /\ stored'.epoch = epoch'
  /\ incarnation' = stored.incarnation /\ boot' = stored.boot
  /\ topology' = stored.topology /\ policyGen' = stored.policyGen
  /\ highestStep' = stored.highestStep /\ lastClosed' = stored.lastClosed
  /\ step'.id = stored.step.id
  /\ stored'.incarnation = incarnation' /\ stored'.boot = boot'
  /\ stored'.topology = topology' /\ stored'.policyGen = policyGen'
  /\ stored'.highestStep = highestStep' /\ stored'.lastClosed = lastClosed'
  /\ stored'.step.id = step'.id
  /\ UNCHANGED minted

LEMMA RestartDoes ==
  ASSUME ShapeInv, CrashAndRestart
  PROVE  ShapeInv' /\ Restarted
<1>1. \A c \in Clients : client'[c] = Unconnected(client[c].boot)
  BY DEF CrashAndRestart, Closed
<1>2. DOMAIN client' = Clients /\ \A c \in Clients : ClientRecord(client'[c])
  BY <1>1 DEF CrashAndRestart, Unconnected, ClientRecord
<1>3. /\ \A s \in Sessions : session'[s] = Free
      /\ DOMAIN session' = Sessions /\ \A s \in Sessions : SessionRecord(session'[s])
      /\ \A s \in Sessions : session'[s].at = "free"
  BY DEF CrashAndRestart, Free, SessionRecord
<1>4. PICK a : step' = [stored.step EXCEPT !.acct = a] BY DEF CrashAndRestart, Restart
<1>5. StepRecord(step)' /\ step'.id = stored.step.id BY <1>4 DEF StepRecord, ShapeInv
<1>6. stored' = Written' BY DEF CrashAndRestart, Restart
<1>7. /\ Written'.epoch = epoch' /\ Written'.incarnation = incarnation' /\ Written'.boot = boot'
      /\ Written'.topology = topology' /\ Written'.policyGen = policyGen'
      /\ Written'.highestStep = highestStep' /\ Written'.lastClosed = lastClosed'
      /\ Written'.step.id = step'.id /\ StepRecord(Written'.step)
  <2>1. PICK o : WrittenStep' = [step' EXCEPT !.acct = o] BY DEF WrittenStep
  <2>2. WrittenStep'.id = step'.id /\ StepRecord(WrittenStep') BY <1>5, <2>1 DEF StepRecord
  <2> QED BY <2>2 DEF Written
<1>8. ShapeInv' BY <1>2, <1>3, <1>5, <1>6, <1>7 DEF ShapeInv, StepRecord
<1>9. Restarted BY <1>1, <1>3, <1>5, <1>6, <1>7 DEF Restarted, CrashAndRestart, Restart
<1> QED BY <1>8, <1>9

-----------------------------------------------------------------------------
(* Every step, by what it changes.                                         *)

\* A request of c: what it claims is what c was told.
Claimed(c, r) ==
  /\ r.op = "ApplyPolicy" => r.document \in Nat
  /\ r.op \in Tokened =>
       LET t == r.token
       IN  /\ t.incarnation = client[c].incarnation /\ t.boot = client[c].boot
           /\ t.epoch = client[c].epoch
           /\ t.step \in Nat \/ t.step = client[c].step
           /\ r.op = "EndStep" => t.step = client[c].step

LEMMA TokenFields ==
  ASSUME NEW c, NEW x
  PROVE  LET t == Token(c, x)
         IN  /\ t.incarnation = client[c].incarnation /\ t.boot = client[c].boot
             /\ t.epoch = client[c].epoch
             /\ t.step = x \/ t.step = client[c].step
             /\ x = 0 => t.step = client[c].step
BY DEF Token

LEMMA RequestClaims ==
  ASSUME CountInv, NEW c, NEW op, NEW r \in Requests(c, op)
  PROVE  Claimed(c, r)
<1>1. r.op = op
  BY DEF Requests, RegistrationRequests, LifecycleRequests, TrafficRequests, RecoveryRequests
<1>2. ASSUME op = "ApplyPolicy" PROVE r.document \in Nat
  <2>1. r.document \in DOMAIN Policies
    BY <1>2 DEF Requests, RegistrationRequests, LifecycleRequests, TrafficRequests,
                RecoveryRequests
  <2> QED BY <2>1, FabricAssumption DEF FabricAssumption
<1>3. ASSUME op \in Tokened
      PROVE  \E x : /\ r.token = Token(c, x) /\ x \in Nat
                    /\ op = "EndStep" => x = 0
  <2>1. CASE op \in {"RegisterGroup", "PublishTopology", "RetireJob"}
    <3>1. r \in RegistrationRequests(c, op) BY <2>1
      DEF Requests, LifecycleRequests, TrafficRequests, RecoveryRequests
    <3>2. r.token = Token(c, 0) BY <2>1, <3>1 DEF RegistrationRequests
    <3> QED BY <2>1, <3>2
  <2>2. CASE op = "BeginStep"
    <3>1. r \in LifecycleRequests(c, op) BY <2>2
      DEF Requests, RegistrationRequests, TrafficRequests, RecoveryRequests
    <3>2. \E s \in Upcoming \ {0} : r.token = Token(c, s)
      BY <2>2, <3>1 DEF LifecycleRequests
    <3> QED BY <2>2, <3>2 DEF CountInv, Upcoming
  <2>3. CASE op \in {"BeginPhase", "EndPhase", "EndStep"}
    <3>1. r \in LifecycleRequests(c, op) BY <2>3
      DEF Requests, RegistrationRequests, TrafficRequests, RecoveryRequests
    <3>2. r.token = Token(c, 0) BY <2>3, <3>1 DEF LifecycleRequests
    <3> QED BY <3>2
  <2>4. CASE op \in {"RequestTraffic", "CompleteFlow", "RevalidateFlow",
                     "BeginCheckpointBurst", "EndCheckpointBurst"}
    <3>1. r \in TrafficRequests(c, op) BY <2>4
      DEF Requests, RegistrationRequests, LifecycleRequests, RecoveryRequests
    <3>2. \E s \in Positions : r.token = Token(c, s) BY <2>4, <3>1 DEF TrafficRequests
    <3> QED BY <2>4, <3>2 DEF Positions, CountInv
  <2>5. CASE op = "RetireIncarnation"
    <3>1. r \in RecoveryRequests(c, op) BY <2>5
      DEF Requests, RegistrationRequests, LifecycleRequests, TrafficRequests
    <3>2. r.token = Token(c, 0) BY <2>5, <3>1 DEF RecoveryRequests
    <3> QED BY <2>5, <3>2
  <2> QED BY <1>3, <2>1, <2>2, <2>3, <2>4, <2>5 DEF Tokened
<1> QED BY <1>1, <1>2, <1>3, TokenFields DEF Claimed

ConnectMove == \E c \in Clients, s \in Sessions, b \in Nat : ConnectedAs(c, s, b)
SendMove == \E c \in Clients : \E r : Connected(c) /\ Claimed(c, r) /\ Sent(c, r)
ReceiveMove == \E c \in Clients : Connected(c) /\ Received(c)
LeaveMove == \E c \in Clients : Left(c)
ExecuteMove == \E s \in Sessions : Executed(s)
RefuseMove == \E s \in Sessions : Refused(s)
CommitMove == \E s \in Sessions : Durable(s)
FailMove == \E s \in Sessions : Failed(s)
EndMove == \E s \in Sessions : Freed(s)

LEMMA NextIsMove ==
  ASSUME ShapeInv, LinkInv, CountInv, ClientNext
  PROVE  /\ ShapeInv'
         /\ \/ ConnectMove \/ SendMove \/ ReceiveMove \/ LeaveMove
            \/ ExecuteMove \/ RefuseMove \/ CommitMove \/ FailMove \/ EndMove \/ Restarted
<1>1. ASSUME NEW c \in Clients, ClientStep(c)
      PROVE  ShapeInv' /\ (ConnectMove \/ SendMove \/ ReceiveMove \/ LeaveMove)
  <2>1. CASE \E s \in Sessions : Connect(c, s)
    <3>1. PICK s \in Sessions : Connect(c, s) BY <2>1
    <3>2. ShapeInv' /\ \E b : ConnectedAs(c, s, b) BY <3>1, ConnectDoes
    <3> QED BY <3>2 DEF ConnectMove, ConnectedAs
  <2>2. CASE \E op \in Calls : Call(c, op)
    <3>1. PICK op \in Calls : \E r \in Requests(c, op) : Send(c, r) BY <2>2 DEF Call
    <3>3. PICK r \in Requests(c, op) : Send(c, r) BY <3>1
    <3>2. Claimed(c, r) BY RequestClaims
    <3> QED BY <3>2, <3>3, SendDoes DEF SendMove
  <2>3. CASE Receive(c) BY <2>3, ReceiveDoes DEF ReceiveMove
  <2>4. CASE Disconnect(c) BY <2>4, DisconnectDoes DEF LeaveMove
  <2> QED BY <1>1, <2>1, <2>2, <2>3, <2>4 DEF ClientStep
<1>2. ASSUME NEW s \in Sessions, SessionStep(s)
      PROVE  ShapeInv' /\ (ExecuteMove \/ RefuseMove \/ CommitMove \/ FailMove \/ EndMove)
  <2>1. CASE Execute(s) BY <2>1, ExecuteDoes DEF ExecuteMove
  <2>2. CASE RefuseRequest(s) BY <2>2, RefuseDoes DEF RefuseMove
  <2>3. CASE CommitEffect(s) BY <2>3, CommitDoes DEF CommitMove
  <2>4. CASE EndSession(s) BY <2>4, EndDoes DEF EndMove
  <2>5. CASE FailCommit(s) BY <2>5, FailDoes DEF FailMove
  <2> QED BY <1>2, <2>1, <2>2, <2>3, <2>4, <2>5 DEF SessionStep
<1> QED BY <1>1, <1>2, RestartDoes DEF ClientNext

-----------------------------------------------------------------------------
(* The layers, one after the other.                                        *)

LEMMA WrittenFields ==
  ASSUME StepRecord(step)
  PROVE  /\ Written.epoch = epoch /\ Written.incarnation = incarnation /\ Written.boot = boot
         /\ Written.topology = topology /\ Written.policyGen = policyGen
         /\ Written.highestStep = highestStep /\ Written.lastClosed = lastClosed
         /\ Written.step.id = step.id
<1>1. PICK a : WrittenStep = [step EXCEPT !.acct = a] BY DEF WrittenStep
<1>2. WrittenStep.id = step.id BY <1>1 DEF StepRecord
<1> QED BY <1>2 DEF Written

\* What a step does that is not of the fabric.
LEMMA FabricKept ==
  ASSUME UNCHANGED fabricVars
  PROVE  /\ UNCHANGED <<epoch, incarnation, boot, retiredSet, retired, topology, policyGen>>
         /\ UNCHANGED <<highestStep, lastClosed, step, stored>>
BY DEF fabricVars, vars, authVars, configVars, ledgerVars, idVars

LEMMA VarsKept ==
  ASSUME UNCHANGED vars
  PROVE  /\ UNCHANGED <<epoch, incarnation, boot, retiredSet, retired, topology, policyGen>>
         /\ UNCHANGED <<highestStep, lastClosed, step>>
BY DEF vars, authVars, configVars, ledgerVars, idVars

LEMMA ExecuteCounts ==
  ASSUME CountInv, BehindInv, NEW s \in Sessions, Executed(s)
  PROVE  /\ CountInv' /\ epoch' = epoch /\ incarnation <= incarnation'
         /\ topology.gen <= topology'.gen /\ policyGen <= policyGen'
         /\ highestStep <= highestStep'
<1>1. PICK r : r = session[s].request /\ Effect(session[s].boot, r) /\ UNCHANGED stored
  BY DEF Executed
<1>2. session[s].at = "received" BY DEF Executed
<1>3. r.op = "ApplyPolicy" => r.document \in Nat BY <1>1, <1>2 DEF BehindInv, SessionBehind
<1>4. r.op = "BeginStep" => r.token.step \in Nat BY <1>1, <1>2 DEF BehindInv, SessionBehind, Tokened
<1> USE DEF CountInv, authVars, keptByAll
<1>5. CASE Quiet(r) BY <1>1, <1>5 DEF Quiet
<1>6. CASE Applied(r) BY <1>1, <1>3, <1>6 DEF Applied
<1>7. CASE Published(r) BY <1>1, <1>7 DEF Published
<1>8. CASE Begun(r) BY <1>1, <1>4, <1>8 DEF Begun
<1>9. CASE Ended(r) BY <1>1, <1>9 DEF Ended
<1>10. CASE Revoked(r) BY <1>1, <1>10 DEF Revoked
<1>11. CASE Replaced(session[s].boot, r) BY <1>1, <1>11 DEF Replaced
<1> QED BY <1>1, <1>5, <1>6, <1>7, <1>8, <1>9, <1>10, <1>11 DEF Effect

LEMMA CountNext ==
  ASSUME ShapeInv, LinkInv, CountInv, BehindInv, ClientNext
  PROVE  CountInv'
<1>1. CASE ConnectMove BY <1>1, FabricKept DEF ConnectMove, ConnectedAs, CountInv
<1>2. CASE SendMove BY <1>2, FabricKept DEF SendMove, Sent, CountInv
<1>3. CASE ReceiveMove BY <1>3, FabricKept DEF ReceiveMove, Received, CountInv
<1>4. CASE LeaveMove BY <1>4, FabricKept DEF LeaveMove, Left, CountInv
<1>5. CASE ExecuteMove BY <1>5, ExecuteCounts DEF ExecuteMove
<1>6. CASE RefuseMove BY <1>6, FabricKept DEF RefuseMove, Refused, CountInv
<1>7. CASE CommitMove
  BY <1>7, VarsKept, WrittenFields DEF CommitMove, Durable, CountInv, ShapeInv
<1>8. CASE EndMove BY <1>8, FabricKept DEF EndMove, Freed, CountInv
<1>9. CASE Restarted BY <1>9 DEF Restarted, CountInv
<1>10. CASE FailMove
  BY <1>10, VarsKept, WrittenFields DEF FailMove, Failed, CountInv, ShapeInv
<1> QED BY NextIsMove, <1>1, <1>2, <1>3, <1>4, <1>5, <1>6, <1>7, <1>8, <1>9, <1>10

LEMMA FreeFields ==
  ASSUME NEW b
  PROVE  /\ Free.at = "free" /\ Free.boot = 0 /\ Free.incarnation = 0
         /\ [Free EXCEPT !.at = "open", !.boot = b].at = "open"
         /\ [Free EXCEPT !.at = "open", !.boot = b].boot = b
         /\ [Free EXCEPT !.at = "open", !.boot = b].incarnation = 0
BY DEF Free

\* Nobody is on a session that is free.
LEMMA FreeIsNobodys ==
  ASSUME LinkInv, NEW s \in Sessions, session[s].at = "free", NEW c \in Clients
  PROVE  client[c].session # s
BY ClientAssumption DEF LinkInv, Connected, Bound, ClientAssumption

LEMMA UnconnectedFields ==
  ASSUME NEW b
  PROVE  LET k == Unconnected(b)
         IN  /\ k.session = NoSession /\ k.boot = b /\ k.epoch = 0 /\ k.incarnation = 0
             /\ k.topology = 0 /\ k.policy = 0 /\ k.step = 0
             /\ k.granted = FALSE /\ k.again = FALSE
BY DEF Unconnected

LEMMA LinkOfSession ==
  ASSUME LinkInv, NEW s \in Sessions, OnlySession(s), epoch' = epoch,
         session'[s].at # "free", session'[s].boot = session[s].boot
  PROVE  LinkInv'
BY DEF LinkInv, OnlySession, Connected, Bound

LEMMA ConnectLinks ==
  ASSUME LinkInv, NEW c \in Clients, NEW s \in Sessions, NEW b, ConnectedAs(c, s, b)
  PROVE  LinkInv'
<1> USE DEF Connected, Bound
<1>1. session[s].at = "free" BY FreeFields DEF ConnectedAs
<1>2. session'[s].at = "open" /\ session'[s].boot = b BY FreeFields DEF ConnectedAs
<1>3. epoch' = epoch BY FabricKept DEF ConnectedAs
<1>4. \A d \in Clients : client[d].session # s BY <1>1, FreeIsNobodys
<1>5. \A d \in Clients : d # c => client'[d] = client[d] BY DEF ConnectedAs
<1>6. \A r \in Sessions : r # s => session'[r] = session[r] BY DEF ConnectedAs
<1>7. /\ client'[c].session = s /\ client'[c].boot = b /\ client'[c].epoch = epoch /\ b # 0
  BY DEF ConnectedAs
<1>8. \A d, e \in Clients : Connected(d)' /\ client'[d].session = client'[e].session => d = e
  BY <1>4, <1>5, <1>7 DEF LinkInv
<1>9. \A d \in Clients : ~Connected(d)' => client'[d] = Unconnected(client'[d].boot)
  BY <1>5, <1>7, ClientAssumption DEF LinkInv, ClientAssumption
<1>10. \A d \in Clients : Connected(d)' =>
         /\ client'[d].session \in Sessions /\ Bound(d)'.at # "free"
         /\ Bound(d)'.boot = client'[d].boot /\ client'[d].boot # 0 /\ client'[d].epoch = epoch'
  BY <1>2, <1>3, <1>4, <1>5, <1>6, <1>7 DEF LinkInv
<1> QED BY <1>8, <1>9, <1>10 DEF LinkInv

LEMMA ReceiveLinks ==
  ASSUME ShapeInv, LinkInv, NEW c \in Clients, Connected(c), Received(c)
  PROVE  LinkInv'
<1> USE DEF Connected, Bound
<1>1. PICK s \in Sessions : s = client[c].session BY DEF LinkInv
<1>2. epoch' = epoch BY FabricKept DEF Received
<1>3. /\ client'[c].session = s /\ client'[c].boot = client[c].boot
      /\ client'[c].epoch = client[c].epoch
  BY <1>1, ReceivedTracks DEF Tracks
<1>4. \A d \in Clients : d # c => client'[d] = client[d] BY DEF Received
<1>5. session'[s].at = "open" /\ session'[s].boot = session[s].boot BY <1>1 DEF Received
<1>6. \A r \in Sessions : r # s => session'[r] = session[r] BY <1>1 DEF Received
<1>7. \A d \in Clients : client'[d].session = client[d].session BY <1>1, <1>3, <1>4
<1>8. \A d \in Clients : ~Connected(d)' => client'[d] = Unconnected(client'[d].boot)
  BY <1>1, <1>3, <1>4, ClientAssumption DEF LinkInv, ClientAssumption
<1> QED BY <1>1, <1>2, <1>3, <1>4, <1>5, <1>6, <1>7, <1>8 DEF LinkInv

LEMMA LeaveLinks ==
  ASSUME LinkInv, NEW c \in Clients, Left(c)
  PROVE  LinkInv'
<1> USE DEF Connected, Bound
<1>1. client'[c].session = NoSession /\ client'[c] = Unconnected(client'[c].boot)
  BY UnconnectedFields DEF Left
<1>2. epoch' = epoch BY FabricKept DEF Left
<1> QED BY <1>1, <1>2 DEF Left, OnlyClient, LinkInv

LEMMA RestartLinks ==
  ASSUME Restarted
  PROVE  LinkInv' /\ \A c \in Clients : ~Connected(c)'
<1> USE DEF Connected
<1>1. ASSUME NEW c \in Clients
      PROVE  client'[c].session = NoSession /\ client'[c].boot = client[c].boot
  <2>1. client'[c] = Unconnected(client[c].boot) BY ONLY Restarted, c \in Clients DEF Restarted
  <2> QED BY ONLY <2>1 DEF Unconnected
<1> QED BY <1>1 DEF Restarted, LinkInv

LEMMA LinkNext ==
  ASSUME ShapeInv, LinkInv, CountInv, BehindInv, ClientNext
  PROVE  LinkInv'
<1>1. CASE ConnectMove BY <1>1, ConnectLinks DEF ConnectMove
<1>2. CASE SendMove
  <2>1. PICK c \in Clients : Connected(c) /\ \E r : Sent(c, r) BY <1>2 DEF SendMove
  <2>2. client[c].session \in Sessions BY <2>1 DEF LinkInv
  <2> QED BY <2>1, <2>2, FabricKept, LinkOfSession DEF Sent, Staged
<1>3. CASE ReceiveMove BY <1>3, ReceiveLinks DEF ReceiveMove
<1>4. CASE LeaveMove BY <1>4, LeaveLinks DEF LeaveMove
<1>5. CASE ExecuteMove
  <2>1. PICK s \in Sessions : Executed(s) BY <1>5 DEF ExecuteMove
  <2>2. epoch' = epoch BY <2>1, ExecuteCounts
  <2> QED BY <2>1, <2>2, LinkOfSession DEF Executed
<1>6. CASE RefuseMove BY <1>6, FabricKept, LinkOfSession DEF RefuseMove, Refused, Staged
<1>7. CASE CommitMove BY <1>7, VarsKept, LinkOfSession DEF CommitMove, Durable, Staged
<1>8. CASE EndMove
  <2>1. PICK s \in Sessions : Freed(s) BY <1>8 DEF EndMove
  <2>2. epoch' = epoch BY <2>1, FabricKept DEF Freed
  <2> QED BY <2>1, <2>2 DEF Freed, OnlySession, Orphan, LinkInv, Connected, Bound
<1>9. CASE Restarted BY <1>9, RestartLinks
<1>10. CASE FailMove BY <1>10, VarsKept, LinkOfSession DEF FailMove, Failed, Staged
<1> QED BY NextIsMove, <1>1, <1>2, <1>3, <1>4, <1>5, <1>6, <1>7, <1>8, <1>9, <1>10

LEMMA LeqTransitive ==
  ASSUME NEW a \in Nat, NEW b \in Nat, NEW d \in Nat, a <= b, b <= d
  PROVE  a <= d
OBVIOUS

\* The fabric is at least as far as it was.
Grown ==
  /\ CountInv /\ CountInv'
  /\ incarnation <= incarnation' /\ topology.gen <= topology'.gen /\ policyGen <= policyGen'
  /\ highestStep <= highestStep'

LEMMA KeptGrows ==
  ASSUME CountInv, CountInv',
         UNCHANGED <<incarnation, topology, policyGen, highestStep>>
  PROVE  Grown
BY DEF Grown, CountInv

LEMMA BehindGrows ==
  ASSUME NEW k, Behind(k), Grown
  PROVE  Behind(k)'
BY LeqTransitive DEF Behind, Grown, CountInv

LEMMA SessionGrows ==
  ASSUME NEW k, SessionBehind(k), Grown
  PROVE  SessionBehind(k)'
<1>1. k.incarnation \in Nat /\ k.incarnation <= incarnation'
  BY LeqTransitive DEF SessionBehind, Grown, CountInv
<1>2. k.at = "received" /\ k.request.op \in Tokened => k.request.token.incarnation <= incarnation'
  BY LeqTransitive DEF SessionBehind, Grown, CountInv
<1>3. k.at \in {"effected", "answered"} /\ k.reply.ok =>
        /\ k.reply.incarnation <= incarnation' /\ k.reply.topology <= topology'.gen
        /\ k.reply.policy <= policyGen'
        /\ k.request.op = "BeginStep" => k.request.token.step <= highestStep'
  BY LeqTransitive DEF SessionBehind, Grown, CountInv
<1> QED BY <1>1, <1>2, <1>3 DEF SessionBehind

\* Who and what is as it was is no further ahead than it was.
LEMMA BehindKept ==
  ASSUME BehindInv, Grown,
         \A c \in Clients : Connected(c)' => client'[c] = client[c] \/ Behind(client[c])',
         \A s \in Sessions : session'[s] = session[s] \/ SessionBehind(session[s])'
  PROVE  BehindInv'
<1>1. ASSUME NEW c \in Clients, Connected(c)', client'[c] = client[c]
      PROVE  Behind(client[c])'
  <2>1. PICK k : k = client[c] OBVIOUS
  <2>2. Connected(c) BY <1>1 DEF Connected
  <2>3. Behind(k)' BY <2>1, <2>2, BehindGrows DEF BehindInv
  <2> QED BY <1>1, <2>1, <2>3 DEF Behind
<1>2. ASSUME NEW r \in Sessions, session'[r] = session[r] PROVE SessionBehind(session[r])'
  <2>1. PICK k : k = session[r] OBVIOUS
  <2>2. SessionBehind(k)' BY <2>1, SessionGrows DEF BehindInv
  <2> QED BY <1>2, <2>1, <2>2 DEF SessionBehind
<1> QED BY <1>1, <1>2 DEF BehindInv

LEMMA ReceiveBehind ==
  ASSUME BehindInv, CountInv, NEW c \in Clients, NEW s \in Sessions, s = client[c].session,
         Connected(c), session[s].at = "answered",
         Tracks(client'[c], c, session[s].request, session[s].reply),
         UNCHANGED <<incarnation, topology, policyGen, highestStep>>
  PROVE  Behind(client[c])'
<1>1. Behind(client[c]) /\ SessionBehind(session[s]) BY DEF BehindInv
<1>2. PICK k, o, q, a :
        k = client'[c] /\ o = client[c] /\ q = session[s].request /\ a = session[s].reply
  OBVIOUS
<1>3. /\ Behind(o)
      /\ a.ok => /\ a.incarnation \in Nat /\ a.incarnation <= incarnation
                 /\ a.topology \in Nat /\ a.topology <= topology.gen
                 /\ a.policy \in Nat /\ a.policy <= policyGen
                 /\ q.op = "BeginStep" => q.token.step \in Nat /\ q.token.step <= highestStep
  BY <1>1, <1>2 DEF SessionBehind
<1>4. k.incarnation \in {o.incarnation} \cup (IF a.ok THEN {a.incarnation} ELSE {})
  BY <1>2 DEF Tracks
<1>5. k.topology \in {o.topology} \cup (IF a.ok THEN {a.topology} ELSE {})
  BY <1>2 DEF Tracks
<1>6. k.policy \in {o.policy} \cup (IF a.ok THEN {a.policy} ELSE {})
  BY <1>2 DEF Tracks
<1>7. k.step \in {o.step, 0} \cup (IF a.ok /\ q.op = "BeginStep" THEN {q.token.step} ELSE {})
  BY <1>2 DEF Tracks
<1>8. Behind(k) BY <1>3, <1>4, <1>5, <1>6, <1>7 DEF Behind, CountInv
<1> QED BY <1>2, <1>8 DEF Behind

LEMMA ExecuteBehind ==
  ASSUME ShapeInv, LinkInv, CountInv, BehindInv, NEW s \in Sessions, Executed(s)
  PROVE  BehindInv'
<1>1. Grown BY ExecuteCounts DEF Grown
<1>2. PICK r, a, z : r = session[s].request /\ a = session'[s].reply /\ z = session'[s] OBVIOUS
<1>3. /\ z.request = r /\ z.reply = a /\ z.at \in {"effected", "answered"}
      /\ z.incarnation \in {incarnation, session[s].incarnation}
      /\ a.ok /\ a.incarnation = incarnation' /\ a.topology = topology'.gen
      /\ a.policy = policyGen' /\ Effect(session[s].boot, r) /\ session[s].at = "received"
  BY <1>2 DEF Executed
<1>4. z.incarnation \in Nat /\ z.incarnation <= incarnation'
  <2>1. z.incarnation \in Nat /\ z.incarnation <= incarnation
    BY <1>3 DEF BehindInv, SessionBehind, CountInv
  <2> QED BY <1>1, <2>1, LeqTransitive DEF Grown, CountInv
<1>5. r.op = "BeginStep" => r.token.step \in Nat /\ r.token.step <= highestStep'
  <2>1. ASSUME r.op = "BeginStep" PROVE Begun(r) /\ r.token.step \in Nat
    <3>1. Begun(r)
      BY <1>3, <2>1 DEF Effect, Quiet, Applied, Published, Ended, Revoked, Replaced
    <3>2. r.token.step \in Nat BY <1>2, <1>3, <2>1 DEF BehindInv, SessionBehind, Tokened
    <3> QED BY <3>1, <3>2
  <2> QED BY <2>1 DEF Begun
<1>6. incarnation' <= incarnation' /\ topology'.gen <= topology'.gen /\ policyGen' <= policyGen'
      /\ incarnation' \in Nat /\ topology'.gen \in Nat /\ policyGen' \in Nat
  BY <1>1 DEF Grown, CountInv
<1>9. r.op = "AdmitReplacement" => z.incarnation < a.incarnation
  <2>1. ASSUME r.op = "AdmitReplacement" PROVE incarnation' = incarnation + 1
    BY <1>3, <2>1 DEF Effect, Quiet, Applied, Published, Begun, Ended, Revoked, Replaced
  <2>2. z.incarnation \in Nat /\ z.incarnation <= incarnation /\ incarnation \in Nat
    BY <1>3 DEF BehindInv, SessionBehind, CountInv
  <2> QED BY <1>3, <2>1, <2>2
<1>7. SessionBehind(z)' BY <1>3, <1>4, <1>5, <1>6, <1>9 DEF SessionBehind
<1>8. SessionBehind(session[s])' BY <1>2, <1>7 DEF SessionBehind
<1> QED BY <1>1, <1>8, BehindKept DEF Executed, OnlySession

LEMMA BehindNext ==
  ASSUME ShapeInv, LinkInv, CountInv, BehindInv, ClientNext
  PROVE  BehindInv'
<1> USE DEF Connected
<1>0. CountInv' BY CountNext
<1>a. ASSUME UNCHANGED <<incarnation, topology, policyGen, highestStep>> PROVE Grown
  BY <1>0, <1>a, KeptGrows
<1>1. CASE ConnectMove
  <2>1. PICK c \in Clients, s \in Sessions, b \in Nat : ConnectedAs(c, s, b)
    BY <1>1 DEF ConnectMove
  <2>2. Grown BY <1>a, <2>1, FabricKept DEF ConnectedAs
  <2>3. Behind(client[c])' BY <1>0, <2>1 DEF ConnectedAs, Behind, CountInv
  <2>4. session'[s].at = "open" /\ session'[s].incarnation = 0
    BY <2>1, FreeFields DEF ConnectedAs
  <2>5. SessionBehind(session[s])' BY <1>0, <2>4 DEF SessionBehind, CountInv
  <2> QED BY <2>1, <2>2, <2>3, <2>5, BehindKept DEF ConnectedAs
<1>2. CASE SendMove
  <2>1. PICK c \in Clients : Connected(c) /\ \E r : Claimed(c, r) /\ Sent(c, r)
    BY <1>2 DEF SendMove
  <2>2. PICK r : Claimed(c, r) /\ Sent(c, r) BY <2>1
  <2>3. PICK s \in Sessions : s = client[c].session BY <2>1 DEF LinkInv
  <2>4. Grown BY <1>a, <2>2, FabricKept DEF Sent
  <2>5. Behind(client[c]) /\ SessionBehind(session[s]) BY <2>1 DEF BehindInv
  <2>6. PICK o, x, z : o = client[c] /\ x = session[s] /\ z = session'[s] OBVIOUS
  <2>7. z.at = "received" /\ z.request = r /\ z.incarnation = x.incarnation
    BY <2>2, <2>3, <2>6 DEF Sent, Staged
  <2>8. r.op \in Tokened => /\ r.token.incarnation = o.incarnation
                            /\ r.token.step \in Nat \/ r.token.step = o.step
    BY <2>2, <2>6 DEF Claimed
  <2>9. SessionBehind(z) BY <2>2, <2>5, <2>6, <2>7, <2>8 DEF SessionBehind, Behind, Claimed
  <2>10. SessionBehind(z)' BY <2>4, <2>9, SessionGrows
  <2>11. SessionBehind(session[s])' BY <2>6, <2>10 DEF SessionBehind
  <2> QED BY <2>2, <2>3, <2>4, <2>11, BehindKept DEF Sent, Staged, OnlySession
<1>3. CASE ReceiveMove
  <2>1. PICK c \in Clients : Connected(c) /\ Received(c) BY <1>3 DEF ReceiveMove
  <2>2. PICK s \in Sessions : s = client[c].session BY <2>1 DEF LinkInv
  <2>3. UNCHANGED <<incarnation, topology, policyGen, highestStep>>
    BY <2>1, FabricKept DEF Received
  <2>4. Behind(client[c])' BY <2>1, <2>2, <2>3, ReceivedTracks, ReceiveBehind DEF Received, Bound
  <2>5. Grown BY <1>a, <2>3
  <2>6. session'[s].at = "open" /\ session'[s].incarnation = session[s].incarnation
    BY <2>1, <2>2 DEF Received
  <2>7. SessionBehind(session[s])' BY <2>3, <2>6 DEF SessionBehind, BehindInv
  <2> QED BY <2>1, <2>2, <2>4, <2>5, <2>7, BehindKept DEF Received
<1>4. CASE LeaveMove
  <2>1. PICK c \in Clients : Left(c) BY <1>4 DEF LeaveMove
  <2>2. Grown BY <1>a, <2>1, FabricKept DEF Left
  <2>3. ~Connected(c)' BY <2>1, UnconnectedFields DEF Left
  <2> QED BY <2>1, <2>2, <2>3, BehindKept DEF Left, OnlyClient
<1>5. CASE ExecuteMove BY <1>5, ExecuteBehind DEF ExecuteMove
<1>6. CASE RefuseMove
  <2>1. PICK s \in Sessions : Refused(s) BY <1>6 DEF RefuseMove
  <2>2. Grown /\ incarnation' = incarnation BY <1>a, <2>1, FabricKept DEF Refused
  <2>3. SessionBehind(session[s])'
    BY <2>1, <2>2 DEF SessionBehind, BehindInv, Refused, Staged
  <2> QED BY <2>1, <2>2, <2>3, BehindKept DEF Refused, Staged, OnlySession
<1>7. CASE CommitMove
  <2>1. PICK s \in Sessions : Durable(s) BY <1>7 DEF CommitMove
  <2>2. Grown BY <1>a, <2>1, VarsKept DEF Durable
  <2>3. PICK x, z : x = session[s] /\ z = session'[s] OBVIOUS
  <2>4. /\ x.at = "effected" /\ z.at = "answered" /\ z.request = x.request /\ z.reply = x.reply
        /\ z.incarnation \in {x.incarnation, x.reply.incarnation}
    BY <2>1, <2>3 DEF Durable, Staged
  <2>5. SessionBehind(x) BY <2>3 DEF BehindInv
  <2>6. SessionBehind(z) BY <2>4, <2>5 DEF SessionBehind
  <2>7. SessionBehind(session[s])' BY <2>2, <2>3, <2>6, SessionGrows DEF SessionBehind
  <2> QED BY <2>1, <2>2, <2>7, BehindKept DEF Durable, Staged, OnlySession
<1>8. CASE EndMove
  <2>1. PICK s \in Sessions : Freed(s) BY <1>8 DEF EndMove
  <2>2. Grown BY <1>a, <2>1, FabricKept DEF Freed
  <2>3. session'[s].at = "free" /\ session'[s].incarnation = 0 BY <2>1, FreeFields DEF Freed
  <2>4. SessionBehind(session[s])' BY <1>0, <2>3 DEF SessionBehind, CountInv
  <2> QED BY <2>1, <2>2, <2>4, BehindKept DEF Freed, OnlySession
<1>9. CASE Restarted
  <2>1. \A s \in Sessions : session'[s].at = "free" /\ session'[s].incarnation = 0
    BY <1>9, FreeFields DEF Restarted
  <2>2. \A s \in Sessions : SessionBehind(session[s])'
    BY <1>0, <2>1 DEF SessionBehind, CountInv
  <2> QED BY <1>9, <2>2, RestartLinks DEF BehindInv
<1>10. CASE FailMove
  <2>1. PICK s \in Sessions : Failed(s) BY <1>10 DEF FailMove
  <2>2. Grown /\ incarnation' = incarnation BY <1>a, <2>1, VarsKept DEF Failed
  <2>3. SessionBehind(session[s])'
    BY <2>1, <2>2 DEF SessionBehind, BehindInv, Failed, Staged
  <2> QED BY <2>1, <2>2, <2>3, BehindKept DEF Failed, Staged, OnlySession
<1> QED BY NextIsMove, <1>1, <1>2, <1>3, <1>4, <1>5, <1>6, <1>7, <1>8, <1>9, <1>10

-----------------------------------------------------------------------------
(* What a process is due.                                                  *)

LearntAlways ==
  \A c, r, a : ClientRecord(client[c]) => Tracks(Learnt(c, r, a), c, r, a)

LEMMA LearntNow == LearntAlways
BY LearntFields DEF LearntAlways

LEMMA LearntNext == LearntAlways'
BY LearntNow, PTL

\* What the answer to r leaves of k, as far as the invariants ask.
DueAs(k, x) ==
  /\ x.at \notin {"effected", "answered"} \/ ~x.reply.ok =>
       /\ Due(k).incarnation = client[k].incarnation /\ Due(k).step = client[k].step
       /\ Due(k).topology = client[k].topology /\ Due(k).granted = client[k].granted
  /\ IF x.at \in {"effected", "answered"}
     THEN StepBehind(Due(k), k, x.request, x.reply) /\ TopologyBehind(Due(k), k, x.request, x.reply)
     ELSE Due(k).behind = client[k].behind
  /\ x.at \in {"effected", "answered"} /\ x.reply.ok =>
       /\ Due(k).incarnation = IF x.request.op \in {"LookupHandle", "AdmitReplacement"}
                               THEN x.reply.incarnation ELSE client[k].incarnation
       /\ Due(k).step = IF x.request.op = "BeginStep" THEN x.request.token.step
                        ELSE IF x.request.op = "EndStep" THEN 0 ELSE client[k].step
       /\ Due(k).topology = IF x.request.op \in {"LookupHandle", "PublishTopology"}
                            THEN x.reply.topology ELSE client[k].topology
       /\ x.request.op = "AdmitReplacement" => Due(k).granted = TRUE
       /\ x.request.op = "LookupHandle" => Due(k).granted = FALSE
       /\ x.request.op \notin {"AdmitReplacement", "LookupHandle"} =>
            Due(k).granted = client[k].granted

LEMMA DueNow ==
  ASSUME ShapeInv, NEW c \in Clients
  PROVE  DueAs(c, Bound(c))
<1>1. PICK x : x = Bound(c) OBVIOUS
<1>2. ClientRecord(client[c]) BY DEF ShapeInv
<1>3. Tracks(Learnt(c, x.request, x.reply), c, x.request, x.reply) BY <1>2, LearntFields
<1>4. Due(c) = IF x.at \in {"effected", "answered"} THEN Learnt(c, x.request, x.reply)
               ELSE client[c]
  BY <1>1 DEF Due
<1> QED BY <1>1, <1>3, <1>4 DEF Tracks, DueAs

LEMMA DueNext ==
  ASSUME ShapeInv', NEW c \in Clients
  PROVE  DueAs(c, Bound(c))'
<1>1. PICK x : x = Bound(c)' OBVIOUS
<1>2. ClientRecord(client'[c]) BY DEF ShapeInv
<1>3. Tracks(Learnt(c, x.request, x.reply), c, x.request, x.reply)'
  BY <1>2, LearntNext DEF LearntAlways
<1>4. Due(c)' = IF x.at \in {"effected", "answered"} THEN Learnt(c, x.request, x.reply)'
                ELSE client'[c]
  BY <1>1 DEF Due
<1> QED BY <1>1, <1>3, <1>4 DEF Tracks, DueAs

LEMMA DueNextAs ==
  ASSUME ShapeInv', NEW c \in Clients, NEW z, z = Bound(c)'
  PROVE  DueAs(c, z)'
BY DueNext DEF DueAs, StepBehind, TopologyBehind

LEMMA DueKept ==
  ASSUME NEW c, client'[c] = client[c],
         session'[client[c].session] = session[client[c].session]
  PROVE  Due(c)' = Due(c) /\ Bound(c)' = Bound(c)
<1>1. Bound(c)' = Bound(c) BY DEF Bound
<1>2. Learnt(c, Bound(c).request, Bound(c).reply)' = Learnt(c, Bound(c).request, Bound(c).reply)
  BY <1>1 DEF Learnt, Adopted
<1> QED BY <1>1, <1>2 DEF Due

LEMMA AgreeKept ==
  ASSUME NEW c, Agrees(c), client'[c] = client[c],
         session'[client[c].session] = session[client[c].session]
  PROVE  Agrees(c)'
BY DueKept DEF Agrees

\* A step of session s: who is not on it has nothing of it.
LEMMA AgreeOfSession ==
  ASSUME LinkInv, TrustInv, NEW s \in Sessions, OnlySession(s),
         ASSUME NEW c \in Clients, Connected(c), client[c].session = s PROVE Agrees(c)'
  PROVE  TrustInv'
<1>1. ASSUME NEW c \in Clients, Connected(c)' PROVE Agrees(c)'
  <2>1. Connected(c) /\ client[c].session \in Sessions /\ Agrees(c)
    BY <1>1 DEF OnlySession, Connected, LinkInv, TrustInv
  <2>2. CASE client[c].session = s BY <2>1, <2>2
  <2>3. CASE client[c].session # s BY <2>1, <2>3, AgreeKept DEF OnlySession
  <2> QED BY <2>2, <2>3
<1> QED BY <1>1 DEF TrustInv

LEMMA AgreeNext ==
  ASSUME ShapeInv, LinkInv, CountInv, BehindInv, TrustInv, ClientNext
  PROVE  TrustInv'
<1> USE DEF Connected
<1>0. ShapeInv' BY NextIsMove
<1>1. CASE ConnectMove
  <2>1. PICK c \in Clients, s \in Sessions, b \in Nat : ConnectedAs(c, s, b)
    BY <1>1 DEF ConnectMove
  <2>2. \A d \in Clients : client[d].session # s
    BY <2>1, FreeIsNobodys, FreeFields DEF ConnectedAs
  <2>3. Agrees(c)'
    <3>1. /\ Bound(c)' = session'[s] /\ client'[c].incarnation = 0
          /\ session'[s].at = "open" /\ session'[s].incarnation = 0
      BY <2>1, FreeFields DEF ConnectedAs, Bound
    <3> QED BY <3>1 DEF Agrees
  <2>4. ASSUME NEW d \in Clients, d # c, Connected(d)' PROVE Agrees(d)'
    <3>1. client'[d] = client[d] /\ Connected(d) BY <2>1, <2>4 DEF ConnectedAs
    <3>2. session'[client[d].session] = session[client[d].session]
      BY <2>1, <2>2, <3>1 DEF ConnectedAs, LinkInv
    <3> QED BY <3>1, <3>2, AgreeKept DEF TrustInv
  <2> QED BY <2>3, <2>4 DEF TrustInv
<1>2. CASE SendMove
  <2>1. PICK c \in Clients : Connected(c) /\ \E r : Claimed(c, r) /\ Sent(c, r)
    BY <1>2 DEF SendMove
  <2>2. PICK r : Claimed(c, r) /\ Sent(c, r) BY <2>1
  <2>3. PICK s \in Sessions : s = client[c].session BY <2>1 DEF LinkInv
  <2>4. Agrees(c)'
    <3>1. /\ Bound(c)' = session'[s] /\ client'[c] = client[c]
          /\ session'[s].at = "received" /\ session'[s].request = r
          /\ session'[s].incarnation = session[s].incarnation /\ session[s].at = "open"
      BY <2>2, <2>3 DEF Sent, Staged, OnlySession, Bound
    <3>2. client[c].incarnation = session[s].incarnation
      BY <2>1, <2>3, <3>1 DEF TrustInv, Agrees, Bound
    <3> QED BY <2>2, <3>1, <3>2 DEF Agrees, Claimed
  <2> QED BY <2>1, <2>2, <2>3, <2>4, AgreeOfSession DEF Sent, Staged, LinkInv
<1>3. CASE ReceiveMove
  <2>1. PICK c \in Clients : Connected(c) /\ Received(c) BY <1>3 DEF ReceiveMove
  <2>2. PICK s \in Sessions : s = client[c].session BY <2>1 DEF LinkInv
  <2>3. client'[c].session = s BY <2>1, <2>2, ReceivedTracks DEF Tracks
  <2>4. Agrees(c)'
    <3>1. /\ session[s].at = "answered" /\ session'[s].at = "open"
          /\ session'[s].incarnation = session[s].incarnation
          /\ client'[c] = Due(c)
      BY <2>1, <2>2 DEF Received, Due, Bound
    <3>2. Due(c).incarnation = session[s].incarnation
      BY <2>1, <2>2, <3>1 DEF TrustInv, Agrees, Bound
    <3> QED BY <2>3, <3>1, <3>2 DEF Agrees, Bound
  <2>5. ASSUME NEW d \in Clients, d # c, Connected(d)' PROVE Agrees(d)'
    <3>1. client'[d] = client[d] /\ Connected(d) BY <2>1, <2>5 DEF Received
    <3>2. session'[client[d].session] = session[client[d].session]
      BY <2>1, <2>2, <2>5, <3>1 DEF Received, LinkInv
    <3> QED BY <3>1, <3>2, AgreeKept DEF TrustInv
  <2> QED BY <2>4, <2>5 DEF TrustInv
<1>4. CASE LeaveMove
  <2>1. PICK c \in Clients : Left(c) BY <1>4 DEF LeaveMove
  <2>2. ~Connected(c)' BY <2>1, UnconnectedFields DEF Left
  <2>3. ASSUME NEW d \in Clients, Connected(d)' PROVE Agrees(d)'
    <3>1. client'[d] = client[d] /\ Connected(d) BY <2>1, <2>2, <2>3 DEF Left, OnlyClient
    <3> QED BY <2>1, <3>1, AgreeKept DEF TrustInv, Left, OnlyClient
  <2> QED BY <2>3 DEF TrustInv
<1>5. CASE ExecuteMove
  <2>1. PICK s \in Sessions : Executed(s) BY <1>5 DEF ExecuteMove
  <2>2. ASSUME NEW c \in Clients, Connected(c), client[c].session = s PROVE Agrees(c)'
    <3>1. client'[c] = client[c] /\ Bound(c) = session[s] /\ Bound(c)' = session'[s]
      BY <2>1, <2>2 DEF Executed, OnlySession, Bound
    <3>2. PICK r, a, z : r = session[s].request /\ z = session'[s] /\ a = z.reply OBVIOUS
    <3>3. /\ session[s].at = "received" /\ a.ok /\ z.request = r
          /\ z.at = IF r.op \in Committed THEN "effected" ELSE "answered"
          /\ z.incarnation = IF r.op = "LookupHandle" THEN incarnation
                             ELSE session[s].incarnation
          /\ a.incarnation = incarnation' /\ Effect(session[s].boot, r)
      BY <2>1, <3>2 DEF Executed
    <3>4. client[c].incarnation = session[s].incarnation
      BY <2>2, <3>1, <3>3 DEF TrustInv, Agrees
    <3>5. r.op = "LookupHandle" => incarnation' = incarnation
      BY <3>3 DEF Effect, Quiet, Applied, Published, Begun, Ended, Revoked, Replaced, authVars
    <3>6. DueAs(c, z)' BY <1>0, <3>1, <3>2, DueNext DEF DueAs
    <3>7. Due(c)'.incarnation = IF r.op \in {"LookupHandle", "AdmitReplacement"}
                                THEN a.incarnation ELSE client[c].incarnation
      BY <3>1, <3>2, <3>3, <3>6 DEF DueAs
    <3>8. z.at = "answered" => Due(c)'.incarnation = z.incarnation
      BY <3>3, <3>4, <3>5, <3>7 DEF Committed
    <3>9. z.at = "effected" => r.op # "LookupHandle" /\ client[c].incarnation = z.incarnation
      BY <3>3, <3>4 DEF Committed
    <3> QED BY <3>1, <3>2, <3>3, <3>8, <3>9 DEF Agrees
  <2> QED BY <2>1, <2>2, AgreeOfSession DEF Executed
<1>6. CASE RefuseMove
  <2>1. PICK s \in Sessions : Refused(s) BY <1>6 DEF RefuseMove
  <2>2. ASSUME NEW c \in Clients, Connected(c), client[c].session = s PROVE Agrees(c)'
    <3>1. /\ client'[c] = client[c] /\ Bound(c) = session[s] /\ Bound(c)' = session'[s]
          /\ session[s].at = "received" /\ session'[s].at = "answered" /\ ~session'[s].reply.ok
          /\ session'[s].incarnation = session[s].incarnation
      BY <2>1, <2>2 DEF Refused, Staged, OnlySession, Bound
    <3>2. client[c].incarnation = session[s].incarnation
      BY <2>2, <3>1 DEF TrustInv, Agrees
    <3>3. Due(c)'.incarnation = client'[c].incarnation BY <1>0, <3>1, DueNext DEF DueAs
    <3> QED BY <3>1, <3>2, <3>3 DEF Agrees
  <2> QED BY <2>1, <2>2, AgreeOfSession DEF Refused, Staged
<1>7. CASE CommitMove
  <2>1. PICK s \in Sessions : Durable(s) BY <1>7 DEF CommitMove
  <2>2. ASSUME NEW c \in Clients, Connected(c), client[c].session = s PROVE Agrees(c)'
    <3>1. client'[c] = client[c] /\ Bound(c) = session[s] /\ Bound(c)' = session'[s]
      BY <2>1, <2>2 DEF Durable, Staged, OnlySession, Bound
    <3>2. PICK x, z : x = session[s] /\ z = session'[s] OBVIOUS
    <3>3. /\ x.at = "effected" /\ z.at = "answered" /\ z.request = x.request /\ z.reply = x.reply
          /\ z.incarnation = IF x.request.op = "AdmitReplacement" THEN x.reply.incarnation
                             ELSE x.incarnation
      BY <2>1, <3>2 DEF Durable, Staged
    <3>4. x.reply.ok /\ x.request.op # "LookupHandle" /\ client[c].incarnation = x.incarnation
      BY <2>2, <3>1, <3>2, <3>3 DEF TrustInv, Agrees
    <3>5. DueAs(c, z)' BY <1>0, <3>1, <3>2, DueNext DEF DueAs
    <3>6. Due(c)'.incarnation = z.incarnation BY <3>1, <3>3, <3>4, <3>5 DEF DueAs
    <3> QED BY <3>1, <3>2, <3>3, <3>6 DEF Agrees
  <2> QED BY <2>1, <2>2, AgreeOfSession DEF Durable, Staged
<1>8. CASE EndMove
  <2>1. PICK s \in Sessions : Freed(s) BY <1>8 DEF EndMove
  <2> QED BY <2>1, AgreeOfSession DEF Freed, Orphan
<1>9. CASE Restarted BY <1>9, RestartLinks DEF TrustInv
<1>10. CASE FailMove
  <2>1. PICK s \in Sessions : Failed(s) BY <1>10 DEF FailMove
  <2>2. ASSUME NEW c \in Clients, Connected(c), client[c].session = s PROVE Agrees(c)'
    <3>1. /\ client'[c] = client[c] /\ Bound(c) = session[s] /\ Bound(c)' = session'[s]
          /\ session[s].at = "effected" /\ session'[s].at = "answered" /\ ~session'[s].reply.ok
          /\ session'[s].incarnation = session[s].incarnation
      BY <2>1, <2>2 DEF Failed, Staged, OnlySession, Bound
    <3>2. client[c].incarnation = session[s].incarnation
      BY <2>2, <3>1 DEF TrustInv, Agrees
    <3>3. Due(c)'.incarnation = client'[c].incarnation BY <1>0, <3>1, DueNext DEF DueAs
    <3> QED BY <3>1, <3>2, <3>3 DEF Agrees
  <2> QED BY <2>1, <2>2, AgreeOfSession DEF Failed, Staged
<1> QED BY NextIsMove, <1>1, <1>2, <1>3, <1>4, <1>5, <1>6, <1>7, <1>8, <1>9, <1>10

\* Nobody takes an identity.
LEMMA BootsKept ==
  ASSUME LinkInv, BootInv, minted' = minted,
         boot' \in {boot, stored.boot} \cup {session[s].boot : s \in Sessions},
         stored'.boot \in {boot, stored.boot},
         \A c \in Clients :
           /\ client'[c].boot = client[c].boot
           /\ Connected(c)' => /\ Connected(c) /\ client'[c].session = client[c].session
                               /\ client'[c].again = client[c].again,
         \A s \in Sessions : session'[s].boot \in {session[s].boot, 0}
  PROVE  BootInv'
<1>1. minted' \in Nat BY DEF BootInv
<1>2. boot' \in Nat /\ boot' <= minted' BY DEF BootInv
<1>3. stored'.boot \in Nat /\ stored'.boot <= minted' BY DEF BootInv
<1>4. \A c \in Clients : client'[c].boot \in Nat /\ client'[c].boot <= minted' BY DEF BootInv
<1>5. \A s \in Sessions : session'[s].boot \in Nat /\ session'[s].boot <= minted' BY DEF BootInv
<1>6. \A c, d \in Clients : client'[c].boot = client'[d].boot => c = d \/ client'[c].boot = 0
  BY DEF BootInv
<1>7. ASSUME NEW c \in Clients, Connected(c)', ~client'[c].again,
             NEW s \in Sessions, s # client'[c].session
      PROVE  session'[s].boot # client'[c].boot
  <2>1. client[c].boot # 0 BY <1>7 DEF LinkInv
  <2>2. session[s].boot # client[c].boot BY <1>7 DEF BootInv
  <2> QED BY <2>1, <2>2
<1> QED BY <1>1, <1>2, <1>3, <1>4, <1>5, <1>6, <1>7 DEF BootInv

LEMMA BootNext ==
  ASSUME ShapeInv, LinkInv, CountInv, BehindInv, BootInv, ClientNext
  PROVE  BootInv'
<1>1. CASE ConnectMove
  <2>1. PICK c \in Clients, s \in Sessions, b \in Nat : ConnectedAs(c, s, b)
    BY <1>1 DEF ConnectMove
  <2>2. PICK m \in Nat : m = minted BY DEF BootInv
  <2>3. /\ b = m + 1 \/ b = client[c].boot
        /\ minted' = IF m >= b THEN m ELSE b
        /\ b # 0 /\ boot' = boot /\ stored' = stored
    BY <2>1, <2>2, FabricKept DEF ConnectedAs, MaxOf2
  <2>4. client[c].boot \in Nat /\ client[c].boot <= m BY <2>2 DEF BootInv
  <2>5. PICK n \in Nat : n = minted' BY <2>2, <2>3
  <2>6. m <= n /\ b <= n BY <2>2, <2>3, <2>4, <2>5
  <2>7. /\ boot' \in Nat /\ boot' <= n /\ stored'.boot \in Nat /\ stored'.boot <= n
    BY <2>2, <2>3, <2>5, <2>6, LeqTransitive DEF BootInv
  <2>8. \A d \in Clients : client'[d].boot = IF d = c THEN b ELSE client[d].boot
    BY <2>1 DEF ConnectedAs
  <2>9. \A r \in Sessions : session'[r].boot = IF r = s THEN b ELSE session[r].boot
    <3>1. session'[s].boot = b BY <2>1, FreeFields DEF ConnectedAs
    <3>2. \A r \in Sessions : r # s => session'[r] = session[r] BY <2>1 DEF ConnectedAs
    <3> QED BY <3>1, <3>2
  <2>10. \A d \in Clients : client[d].boot \in Nat /\ client[d].boot <= n
    BY <2>2, <2>6, LeqTransitive DEF BootInv
  <2>11. \A r \in Sessions : session[r].boot \in Nat /\ session[r].boot <= n
    BY <2>2, <2>6, LeqTransitive DEF BootInv
  <2>12. ASSUME NEW d \in Clients, d # c PROVE client[d].boot # b
    <3>1. client[d].boot \in Nat /\ client[d].boot <= m BY <2>2 DEF BootInv
    <3>2. CASE b = m + 1 BY <3>1, <3>2
    <3>3. CASE b = client[c].boot BY <2>3, <2>12, <3>3 DEF BootInv
    <3> QED BY <2>3, <3>2, <3>3
  <2>13. \A d, e \in Clients : client'[d].boot = client'[e].boot => d = e \/ client'[d].boot = 0
    BY <2>8, <2>12 DEF BootInv
  <2>14. ASSUME NEW d \in Clients, Connected(d)', ~client'[d].again,
                NEW r \in Sessions, r # client'[d].session
         PROVE  session'[r].boot # client'[d].boot
    <3>1. CASE d = c
      <4>1. r # s /\ b # client[c].boot BY <2>1, <2>14, <3>1 DEF ConnectedAs
      <4>2. b = m + 1 BY <2>3, <4>1
      <4>3. session[r].boot \in Nat /\ session[r].boot <= m BY <2>2 DEF BootInv
      <4> QED BY <2>8, <2>9, <3>1, <4>1, <4>2, <4>3
    <3>2. CASE d # c
      <4>1. client'[d] = client[d] BY <2>1, <3>2 DEF ConnectedAs
      <4>2. session[r].boot # client[d].boot BY <2>14, <4>1 DEF BootInv, Connected
      <4> QED BY <2>8, <2>9, <2>12, <3>2, <4>2
    <3> QED BY <3>1, <3>2
  <2> QED BY <2>5, <2>6, <2>7, <2>8, <2>9, <2>10, <2>11, <2>13, <2>14 DEF BootInv
<1>2. CASE SendMove
  <2>1. PICK c \in Clients : Connected(c) /\ \E r : Sent(c, r) BY <1>2 DEF SendMove
  <2>2. client[c].session \in Sessions BY <2>1 DEF LinkInv
  <2>3. boot' = boot /\ stored' = stored /\ minted' = minted
    BY <2>1, FabricKept DEF Sent
  <2> QED BY <2>1, <2>2, <2>3, BootsKept DEF Sent, Staged, OnlySession, Connected
<1>3. CASE ReceiveMove
  <2>1. PICK c \in Clients : Connected(c) /\ Received(c) BY <1>3 DEF ReceiveMove
  <2>2. boot' = boot /\ stored' = stored /\ minted' = minted
    BY <2>1, FabricKept DEF Received
  <2>3. /\ client'[c].session = client[c].session /\ client'[c].boot = client[c].boot
        /\ client'[c].again = client[c].again
    BY <2>1, ReceivedTracks DEF Tracks
  <2>4. \A s \in Sessions : session'[s].boot = session[s].boot BY <2>1 DEF Received
  <2>5. \A d \in Clients : d # c => client'[d] = client[d] BY <2>1 DEF Received
  <2> QED BY <2>1, <2>2, <2>3, <2>4, <2>5, BootsKept DEF Connected
<1>4. CASE LeaveMove
  <2>1. PICK c \in Clients : Left(c) BY <1>4 DEF LeaveMove
  <2>2. boot' = boot /\ stored' = stored /\ minted' = minted BY <2>1, FabricKept DEF Left
  <2>3. ~Connected(c)' /\ client'[c].boot = client[c].boot
    BY <2>1, UnconnectedFields DEF Left, Connected
  <2> QED BY <2>1, <2>2, <2>3, BootsKept DEF Left, OnlyClient, Connected
<1>5. CASE ExecuteMove
  <2>1. PICK s \in Sessions : Executed(s) BY <1>5 DEF ExecuteMove
  <2>2. boot' \in {boot, session[s].boot}
    <3>1. PICK r : Effect(session[s].boot, r) BY <2>1 DEF Executed
    <3> QED BY <3>1
      DEF Effect, Quiet, Applied, Published, Begun, Ended, Revoked, Replaced, authVars
  <2> QED BY <2>1, <2>2, BootsKept DEF Executed, OnlySession, Connected
<1>6. CASE RefuseMove
  <2>1. PICK s \in Sessions : Refused(s) BY <1>6 DEF RefuseMove
  <2>2. boot' = boot /\ stored' = stored /\ minted' = minted BY <2>1, FabricKept DEF Refused
  <2> QED BY <2>1, <2>2, BootsKept DEF Refused, Staged, OnlySession, Connected
<1>7. CASE CommitMove
  <2>1. PICK s \in Sessions : Durable(s) BY <1>7 DEF CommitMove
  <2>2. boot' = boot /\ stored'.boot = boot /\ minted' = minted
    BY <2>1, VarsKept, WrittenFields DEF Durable, ShapeInv
  <2> QED BY <2>1, <2>2, BootsKept DEF Durable, Staged, OnlySession, Connected
<1>8. CASE EndMove
  <2>1. PICK s \in Sessions : Freed(s) BY <1>8 DEF EndMove
  <2>2. boot' = boot /\ stored' = stored /\ minted' = minted BY <2>1, FabricKept DEF Freed
  <2>3. session'[s].boot = 0 BY <2>1, FreeFields DEF Freed
  <2> QED BY <2>1, <2>2, <2>3, BootsKept DEF Freed, OnlySession, Connected
<1>9. CASE Restarted
  <2>1. \A c \in Clients : client'[c].boot = client[c].boot
    BY <1>9, UnconnectedFields DEF Restarted
  <2>2. \A s \in Sessions : session'[s].boot = 0 BY <1>9, FreeFields DEF Restarted
  <2>3. \A c \in Clients : ~Connected(c)' BY <1>9, RestartLinks
  <2>4. boot' = stored.boot /\ stored'.boot = stored.boot /\ minted' = minted
    BY <1>9 DEF Restarted
  <2> QED BY <2>1, <2>2, <2>3, <2>4, BootsKept
<1>10. CASE FailMove
  <2>1. PICK s \in Sessions : Failed(s) BY <1>10 DEF FailMove
  <2>2. boot' = boot /\ stored'.boot \in {boot, stored.boot} /\ minted' = minted
    BY <2>1, VarsKept, WrittenFields DEF Failed, ShapeInv
  <2> QED BY <2>1, <2>2, BootsKept DEF Failed, Staged, OnlySession, Connected
<1> QED BY NextIsMove, <1>1, <1>2, <1>3, <1>4, <1>5, <1>6, <1>7, <1>8, <1>9, <1>10

-----------------------------------------------------------------------------
(* Who can name a step.                                                    *)

NamesShrink == \A s \in Sessions, x \in Nat \ {0} : Names(s, x)' => Names(s, x)

LEMMA NamesKept ==
  ASSUME NamesInv, NamesShrink, Grown
  PROVE  NamesInv'
<1>1. ASSUME NEW s \in Sessions, NEW x \in Nat \ {0}, Names(s, x)'
      PROVE  x <= highestStep' /\ \A r \in Sessions : Names(r, x)' => r = s
  <2>1. Names(s, x) BY <1>1 DEF NamesShrink
  <2>2. x <= highestStep' BY <2>1, LeqTransitive DEF NamesInv, Grown, CountInv
  <2>3. \A r \in Sessions : Names(r, x)' => r = s BY <2>1 DEF NamesInv, NamesShrink
  <2> QED BY <2>2, <2>3
<1> QED BY <1>1 DEF NamesInv

LEMMA NamesElsewhere ==
  ASSUME NEW s \in Sessions, OnlySession(s), NEW r \in Sessions, r # s, NEW x
  PROVE  Names(r, x)' <=> Names(r, x)
BY DEF OnlySession, Names

LEMMA NamesOfSession ==
  ASSUME NEW s \in Sessions, OnlySession(s),
         ASSUME NEW x \in Nat \ {0}, Names(s, x)' PROVE Names(s, x)
  PROVE  NamesShrink
BY NamesElsewhere DEF NamesShrink

LEMMA ConnectNames ==
  ASSUME LinkInv, NEW c \in Clients, NEW s \in Sessions, NEW b, ConnectedAs(c, s, b)
  PROVE  NamesShrink
<1>1. ASSUME NEW r \in Sessions, NEW x \in Nat \ {0}, Names(r, x)' PROVE Names(r, x)
  <2>1. client'[c].step = 0 /\ \A d \in Clients : d # c => client'[d] = client[d]
    BY DEF ConnectedAs
  <2>2. CASE r = s
    <3>1. session'[s].at = "open" BY FreeFields DEF ConnectedAs
    <3>2. session[s].at = "free" BY FreeFields DEF ConnectedAs
    <3>3. \A d \in Clients : client[d].session # s BY <3>2, FreeIsNobodys
    <3> QED BY <1>1, <2>1, <2>2, <3>1, <3>3 DEF Names
  <2>3. CASE r # s
    <3>1. session'[r] = session[r] BY <2>3 DEF ConnectedAs
    <3> QED BY <1>1, <2>1, <3>1 DEF Names
  <2> QED BY <2>2, <2>3
<1> QED BY <1>1 DEF NamesShrink

LEMMA ReceiveNames ==
  ASSUME ShapeInv, LinkInv, NEW c \in Clients, Connected(c), Received(c)
  PROVE  NamesShrink
<1>1. PICK s \in Sessions : s = client[c].session BY DEF LinkInv
<1>2. PICK q, a : q = session[s].request /\ a = session[s].reply OBVIOUS
<1>3. /\ client'[c].session = s
      /\ client'[c].step = IF a.ok /\ q.op = "BeginStep" THEN q.token.step
                           ELSE IF a.ok /\ q.op = "EndStep" THEN 0 ELSE client[c].step
  BY <1>1, <1>2, ReceivedTracks DEF Tracks, Bound
<1>4. /\ \A d \in Clients : d # c => client'[d] = client[d]
      /\ \A r \in Sessions : r # s => session'[r] = session[r]
      /\ session[s].at = "answered" /\ session'[s].at = "open"
  BY <1>1 DEF Received
<1>5. ASSUME NEW r \in Sessions, NEW x \in Nat \ {0}, Names(r, x)' PROVE Names(r, x)
  <2>1. CASE r = s
    <3>1. \E d \in Clients : client'[d].session = s /\ client'[d].step = x
      BY <1>4, <1>5, <2>1 DEF Names
    <3>2. CASE client'[c].step = x
      <4>1. x = client[c].step \/ (a.ok /\ q.op = "BeginStep" /\ q.token.step = x)
        BY <1>3, <3>2
      <4> QED BY <1>1, <1>2, <1>4, <2>1, <4>1 DEF Names
    <3> QED BY <1>4, <2>1, <3>1, <3>2 DEF Names
  <2>2. CASE r # s
    <3>1. session'[r] = session[r] BY <1>4, <2>2
    <3> QED BY <1>3, <1>4, <1>5, <2>2, <3>1 DEF Names
  <2> QED BY <2>1, <2>2
<1> QED BY <1>5 DEF NamesShrink

LEMMA ExecuteNames ==
  ASSUME ShapeInv, CountInv, BehindInv, NamesInv, NEW s \in Sessions, Executed(s)
  PROVE  NamesInv'
<1>1. PICK r : r = session[s].request /\ Effect(session[s].boot, r) BY DEF Executed
<1>2. Grown BY ExecuteCounts DEF Grown
<1>3. /\ client' = client /\ session[s].at = "received" /\ session'[s].request = r
      /\ session'[s].at \in {"effected", "answered"}
  BY <1>1 DEF Executed, OnlySession
<1>4. CASE r.op # "BeginStep"
  <2>1. ASSUME NEW x \in Nat \ {0}, Names(s, x)' PROVE Names(s, x)
    BY <1>3, <1>4, <2>1 DEF Names
  <2> QED BY <1>2, <2>1, NamesOfSession, NamesKept DEF Executed
<1>5. CASE r.op = "BeginStep"
  <2>1. Begun(r) BY <1>1, <1>5 DEF Effect, Quiet, Applied, Published, Ended, Revoked, Replaced
  <2>2. PICK n \in Nat : n = r.token.step
    BY <1>1, <1>3, <1>5 DEF BehindInv, SessionBehind, Tokened
  <2>3. PICK h \in Nat : h = highestStep BY DEF CountInv
  <2>4. n > h /\ highestStep' = n BY <2>1, <2>2, <2>3 DEF Begun
  <2>5. ASSUME NEW t \in Sessions, NEW x \in Nat \ {0}, Names(t, x)'
        PROVE  (x <= h /\ Names(t, x)) \/ (x = n /\ t = s)
    <3>1. Names(t, x) \/ (x = n /\ t = s)
      <4>1. CASE t = s BY <1>3, <2>2, <2>5, <4>1 DEF Names
      <4>2. CASE t # s BY <2>5, <4>2, NamesElsewhere DEF Executed
      <4> QED BY <4>1, <4>2
    <3>2. Names(t, x) => x <= h BY <2>3 DEF NamesInv
    <3> QED BY <3>1, <3>2
  <2>6. ASSUME NEW t \in Sessions, NEW x \in Nat \ {0}, Names(t, x)'
        PROVE  x <= highestStep' /\ \A u \in Sessions : Names(u, x)' => u = t
    <3>1. x <= n BY <2>4, <2>5, <2>6
    <3>2. ASSUME NEW u \in Sessions, Names(u, x)' PROVE u = t
      <4>1. (x <= h /\ Names(t, x)) \/ (x = n /\ t = s) BY <2>5, <2>6
      <4>2. (x <= h /\ Names(u, x)) \/ (x = n /\ u = s) BY <2>5, <3>2
      <4> QED BY <2>4, <4>1, <4>2 DEF NamesInv
    <3> QED BY <2>4, <3>1, <3>2
  <2> QED BY <2>6 DEF NamesInv
<1> QED BY <1>4, <1>5

LEMMA NamesNext ==
  ASSUME ShapeInv, LinkInv, CountInv, BehindInv, NamesInv, ClientNext
  PROVE  NamesInv'
<1>0. CountInv' BY CountNext
<1>a. ASSUME UNCHANGED <<incarnation, topology, policyGen, highestStep>>, NamesShrink
      PROVE  NamesInv'
  BY <1>0, <1>a, KeptGrows, NamesKept
<1>1. CASE ConnectMove
  <2>1. PICK c \in Clients, s \in Sessions, b \in Nat : ConnectedAs(c, s, b)
    BY <1>1 DEF ConnectMove
  <2>2. NamesShrink BY <2>1, ConnectNames
  <2> QED BY <1>a, <2>1, <2>2, FabricKept DEF ConnectedAs
<1>2. CASE SendMove
  <2>1. PICK c \in Clients : Connected(c) /\ \E r : Claimed(c, r) /\ Sent(c, r)
    BY <1>2 DEF SendMove
  <2>2. PICK r : Claimed(c, r) /\ Sent(c, r) BY <2>1
  <2>3. PICK s \in Sessions : s = client[c].session BY <2>1 DEF LinkInv
  <2>4. OnlySession(s) /\ session'[s].at = "received" /\ session'[s].request = r
    BY <2>2, <2>3 DEF Sent, Staged
  <2>5. r.op = "EndStep" => r.token.step = client[c].step BY <2>2 DEF Claimed, Tokened
  <2>6. ASSUME NEW x \in Nat \ {0}, Names(s, x)' PROVE Names(s, x)
    BY <2>3, <2>4, <2>5, <2>6 DEF Names, OnlySession
  <2>7. NamesShrink BY <2>4, <2>6, NamesOfSession
  <2> QED BY <1>a, <2>2, <2>7, FabricKept DEF Sent
<1>3. CASE ReceiveMove BY <1>3, <1>a, ReceiveNames, FabricKept DEF ReceiveMove, Received
<1>4. CASE LeaveMove
  <2>1. PICK c \in Clients : Left(c) BY <1>4 DEF LeaveMove
  <2>2. client'[c].step = 0 BY <2>1, UnconnectedFields DEF Left
  <2>3. NamesShrink BY <2>1, <2>2 DEF Left, OnlyClient, NamesShrink, Names
  <2> QED BY <1>a, <2>1, <2>3, FabricKept DEF Left
<1>5. CASE ExecuteMove BY <1>5, ExecuteNames DEF ExecuteMove
<1>6. CASE RefuseMove
  <2>1. PICK s \in Sessions : Refused(s) BY <1>6 DEF RefuseMove
  <2>2. ASSUME NEW x \in Nat \ {0}, Names(s, x)' PROVE Names(s, x)
    BY <2>1, <2>2 DEF Names, Refused, Staged, OnlySession
  <2>3. NamesShrink BY <2>1, <2>2, NamesOfSession DEF Refused, Staged
  <2> QED BY <1>a, <2>1, <2>3, FabricKept DEF Refused
<1>7. CASE CommitMove
  <2>1. PICK s \in Sessions : Durable(s) BY <1>7 DEF CommitMove
  <2>2. ASSUME NEW x \in Nat \ {0}, Names(s, x)' PROVE Names(s, x)
    BY <2>1, <2>2 DEF Names, Durable, Staged, OnlySession
  <2>3. NamesShrink BY <2>1, <2>2, NamesOfSession DEF Durable, Staged
  <2> QED BY <1>a, <2>1, <2>3, VarsKept DEF Durable
<1>8. CASE EndMove
  <2>1. PICK s \in Sessions : Freed(s) BY <1>8 DEF EndMove
  <2>2. session'[s].at = "free" BY <2>1, FreeFields DEF Freed
  <2>3. ASSUME NEW x \in Nat \ {0}, Names(s, x)' PROVE Names(s, x)
    BY <2>1, <2>2, <2>3 DEF Names, Freed, OnlySession
  <2>4. NamesShrink BY <2>1, <2>3, NamesOfSession DEF Freed
  <2> QED BY <1>a, <2>1, <2>4, FabricKept DEF Freed
<1>9. CASE Restarted
  <2>1. ASSUME NEW c \in Clients PROVE client'[c].step = 0
    <3>1. client'[c] = Unconnected(client[c].boot) BY ONLY <1>9, c \in Clients DEF Restarted
    <3> QED BY ONLY <3>1 DEF Unconnected
  <2>2. \A s \in Sessions : session'[s].at = "free" BY <1>9, FreeFields DEF Restarted
  <2> QED BY <2>1, <2>2 DEF NamesInv, Names
<1>10. CASE FailMove
  <2>1. PICK s \in Sessions : Failed(s) BY <1>10 DEF FailMove
  <2>2. ASSUME NEW x \in Nat \ {0}, Names(s, x)' PROVE Names(s, x)
    BY <2>1, <2>2 DEF Names, Failed, Staged, OnlySession
  <2>3. NamesShrink BY <2>1, <2>2, NamesOfSession DEF Failed, Staged
  <2> QED BY <1>a, <2>1, <2>3, VarsKept DEF Failed
<1> QED BY NextIsMove, <1>1, <1>2, <1>3, <1>4, <1>5, <1>6, <1>7, <1>8, <1>9, <1>10

-----------------------------------------------------------------------------
(* What the holder of the job knows.                                       *)

\* A step that a process is due to believe in is one its session can name.
LEMMA DueNames ==
  ASSUME ShapeInv, NEW c \in Clients, NEW x \in Nat \ {0}, Due(c).step = x
  PROVE  Names(client[c].session, x)
<1>1. PICK z : z = Bound(c) OBVIOUS
<1>2. DueAs(c, z) BY <1>1, DueNow
<1>3. \/ client[c].step = x
      \/ /\ z.at \in {"effected", "answered"} /\ z.reply.ok
         /\ z.request.op = "BeginStep" /\ z.request.token.step = x
  BY <1>2 DEF DueAs
<1> QED BY <1>1, <1>3 DEF Names, Bound

\* c is due the same as before, as far as Informed asks.
SameStepDue(c) ==
  Due(c)'.step = Due(c).step /\ ("step" \in Due(c)'.behind <=> "step" \in Due(c).behind)

SameNewsDue(c) ==
  /\ Due(c)'.topology = Due(c).topology /\ Due(c)'.granted = Due(c).granted
  /\ Due(c)'.incarnation = Due(c).incarnation
  /\ "topology" \in Due(c)'.behind <=> "topology" \in Due(c).behind

SameDue(c) == SameStepDue(c) /\ SameNewsDue(c)

SamePlace(c) == client'[c].session = client[c].session /\ client'[c].again = client[c].again

\* No request has arrived on a session that c is not on and whose process has the job.
NoneArrives(c) ==
  \A t \in Sessions :
    t # client[c].session /\ session'[t].at = "received" /\ session'[t].boot = boot
      => session'[t] = session[t]

\* What c is due of the topology is the newest, if c is to know it at all.
TopologyDue(c) ==
  ~client[c].again /\ ~Due(c).granted /\ Due(c).incarnation = incarnation
    /\ "topology" \notin Due(c).behind
  => Due(c).topology = topology.gen

LEMMA NewsKept ==
  ASSUME NEW c \in Clients, Informed(c), SamePlace(c), SameNewsDue(c),
         incarnation' = incarnation, topology'.gen = topology.gen
  PROVE  TopologyDue(c)'
BY DEF Informed, SamePlace, SameNewsDue, TopologyDue

\* Of the topology c may learn; of the rest nothing that Informed asks for changes.
LEMMA InformedTold ==
  ASSUME NEW c \in Clients, Informed(c), SamePlace(c), SameStepDue(c), NoneArrives(c),
         UNCHANGED <<boot, incarnation, retiredSet, retired>>, step'.id = step.id, TopologyDue(c)'
  PROVE  Informed(c)'
<1>1. step'.id # 0 /\ "step" \notin Due(c)'.behind =>
        Due(c)'.step = step'.id \/ (client'[c].again /\ Due(c)'.step = 0)
  BY DEF Informed, SamePlace, SameStepDue
<1>2. ASSUME Due(c)'.step # 0, Due(c)'.step # step'.id, "step" \notin Due(c)'.behind,
             ~retired', incarnation' \notin retiredSet',
             NEW t \in Sessions, t # client'[c].session, session'[t].boot = boot',
             session'[t].at = "received", session'[t].request.op \in Tokened
      PROVE  session'[t].request.token.incarnation # incarnation'
  <2>1. t # client[c].session /\ session'[t] = session[t]
    BY <1>2 DEF SamePlace, NoneArrives
  <2> QED BY <1>2, <2>1 DEF Informed, SameStepDue
<1> QED BY <1>1, <1>2 DEF Informed, TopologyDue

LEMMA InformedKept ==
  ASSUME NEW c \in Clients, Informed(c), SamePlace(c), SameDue(c), NoneArrives(c),
         UNCHANGED <<boot, incarnation, retiredSet, retired>>,
         step'.id = step.id, topology'.gen = topology.gen
  PROVE  Informed(c)'
<1>1. TopologyDue(c)' BY NewsKept DEF SameDue
<1> QED BY <1>1, InformedTold DEF SameDue

\* Who is on another session is due what it was due.
LEMMA DueElsewhere ==
  ASSUME LinkInv, NEW s \in Sessions, OnlySession(s), NEW c \in Clients, Connected(c),
         client[c].session # s
  PROVE  SameDue(c) /\ SamePlace(c) /\ Due(c)' = Due(c)
<1>1. client'[c] = client[c] /\ session'[client[c].session] = session[client[c].session]
  BY DEF OnlySession, LinkInv
<1> QED BY <1>1, DueKept
        DEF SameDue, SameStepDue, SameNewsDue, SamePlace

LEMMA QuietElsewhere ==
  ASSUME NEW s \in Sessions, OnlySession(s), NEW c \in Clients,
         client[c].session = s \/ session'[s].at # "received"
  PROVE  NoneArrives(c)
BY DEF OnlySession, NoneArrives

\* A request of c itself is carried out.
LEMMA OwnRequest ==
  ASSUME ShapeInv, ShapeInv', LinkInv, CountInv, BehindInv, NEW s \in Sessions, Executed(s),
         NEW c \in Clients, Connected(c), client[c].session = s,
         client[c].boot = boot => Informed(c), client'[c].boot = boot'
  PROVE  Informed(c)'
<1>1. PICK r, a, z, k :
        r = session[s].request /\ z = session'[s] /\ a = z.reply /\ k = client[c]
  OBVIOUS
<1>2. /\ client' = client /\ session[s].at = "received"
      /\ z.at \in {"effected", "answered"} /\ z.request = r /\ a.ok
      /\ a.topology = topology'.gen /\ Effect(session[s].boot, r)
  BY <1>1 DEF Executed, OnlySession
<1>3. Bound(c) = session[s] /\ Bound(c)' = z BY <1>1, <1>2 DEF Bound
<1>4. Due(c) = k BY <1>1, <1>2, <1>3 DEF Due
<1>5. DueAs(c, z)' BY <1>3, DueNext DEF DueAs
<1>6. /\ Due(c)'.step = IF r.op = "BeginStep" THEN r.token.step
                        ELSE IF r.op = "EndStep" THEN 0 ELSE k.step
      /\ Due(c)'.topology = IF r.op \in {"LookupHandle", "PublishTopology"}
                            THEN topology'.gen ELSE k.topology
      /\ r.op = "AdmitReplacement" => Due(c)'.granted = TRUE
      /\ r.op \notin {"AdmitReplacement", "LookupHandle"} =>
           Due(c)'.granted = k.granted /\ Due(c)'.incarnation = k.incarnation
      /\ "step" \in Due(c)'.behind <=>
           r.op \notin {"BeginStep", "EndStep"} /\ "step" \in k.behind
      /\ "topology" \in Due(c)'.behind <=>
           r.op \notin {"PublishTopology", "LookupHandle"} /\ "topology" \in k.behind
  BY <1>1, <1>2, <1>5 DEF DueAs, StepBehind, TopologyBehind
<1>7. SamePlace(c) BY <1>2 DEF SamePlace
<1>8. NoneArrives(c) BY QuietElsewhere DEF Executed
<1>9. CASE Replaced(session[s].boot, r)
  <2>1. step'.id = 0 /\ incarnation' = incarnation + 1 /\ Due(c)'.granted = TRUE
    BY <1>6, <1>9 DEF Replaced
  <2>2. ASSUME NEW t \in Sessions, t # s, session'[t].at = "received",
               session'[t].request.op \in Tokened
        PROVE  session'[t].request.token.incarnation # incarnation'
    <3>1. session'[t] = session[t] BY <2>2 DEF Executed, OnlySession
    <3>2. PICK i : i = session[t].request.token.incarnation OBVIOUS
    <3>3. i \in Nat /\ i <= incarnation BY <2>2, <3>1, <3>2 DEF BehindInv, SessionBehind
    <3> QED BY <2>1, <3>1, <3>2, <3>3 DEF CountInv
  <2> QED BY <1>2, <2>1, <2>2 DEF Informed
<1>10. ASSUME UNCHANGED authVars PROVE Informed(c)
  BY <1>2, <1>10 DEF authVars
<1>11. CASE Quiet(r) \/ Applied(r)
  <2>1. /\ UNCHANGED <<boot, incarnation, retiredSet, retired, topology>> /\ step'.id = step.id
        /\ r.op \notin {"AdmitReplacement", "BeginStep", "EndStep", "PublishTopology"}
        /\ Informed(c)
    BY <1>10, <1>11 DEF Quiet, Applied, authVars
  <2>2. CASE r.op # "LookupHandle"
    <3>1. SameDue(c) BY <1>4, <1>6, <2>1, <2>2 DEF SameDue, SameStepDue, SameNewsDue
    <3> QED BY <1>7, <1>8, <2>1, <3>1, InformedKept
  <2>3. CASE r.op = "LookupHandle"
    <3>1. SameStepDue(c) /\ Due(c)'.topology = topology'.gen
      BY <1>4, <1>6, <2>1, <2>3 DEF SameStepDue
    <3> QED BY <1>7, <1>8, <2>1, <3>1, InformedTold DEF TopologyDue
  <2> QED BY <2>2, <2>3
<1>12. CASE Published(r)
  <2>1. /\ UNCHANGED <<boot, incarnation, retiredSet, retired>> /\ step'.id = step.id
        /\ Informed(c)
    BY <1>10, <1>12 DEF Published, authVars
  <2>2. SameStepDue(c) /\ Due(c)'.topology = topology'.gen
    BY <1>4, <1>6, <1>12 DEF Published, SameStepDue
  <2> QED BY <1>7, <1>8, <2>1, <2>2, InformedTold DEF TopologyDue
<1>13. CASE Begun(r)
  <2>1. topology' = topology /\ Informed(c) /\ r.op = "BeginStep" /\ step'.id = r.token.step
    BY <1>10, <1>13 DEF Begun
  <2>2. Due(c)'.step = step'.id BY <1>6, <2>1
  <2>3. incarnation' = incarnation /\ SameNewsDue(c)
    BY <1>4, <1>6, <1>13, <2>1 DEF Begun, authVars, SameNewsDue
  <2>4. TopologyDue(c)' BY <1>7, <2>1, <2>3, NewsKept
  <2> QED BY <2>2, <2>4 DEF Informed, TopologyDue
<1>14. CASE Ended(r)
  <2>1. topology' = topology /\ Informed(c) /\ r.op = "EndStep" /\ step'.id = 0
    BY <1>10, <1>14 DEF Ended
  <2>2. Due(c)'.step = 0 BY <1>6, <2>1
  <2>3. incarnation' = incarnation /\ SameNewsDue(c)
    BY <1>4, <1>6, <1>14, <2>1 DEF Ended, authVars, SameNewsDue
  <2>4. TopologyDue(c)' BY <1>7, <2>1, <2>3, NewsKept
  <2> QED BY <2>1, <2>2, <2>4 DEF Informed, TopologyDue
<1>15. CASE Revoked(r)
  <2>1. /\ UNCHANGED <<incarnation, boot, topology>> /\ step'.id = 0
        /\ retired' \/ incarnation' \in retiredSet'
        /\ r.op \in {"RetireJob", "RetireIncarnation"}
    BY <1>15 DEF Revoked
  <2>2. Informed(c) BY <1>2, <2>1
  <2>3. SameNewsDue(c) BY <1>4, <1>6, <2>1 DEF SameNewsDue
  <2>4. TopologyDue(c)' BY <1>7, <2>1, <2>2, <2>3, NewsKept
  <2> QED BY <2>1, <2>4 DEF Informed, TopologyDue
<1> QED BY <1>2, <1>9, <1>11, <1>12, <1>13, <1>14, <1>15 DEF Effect

\* A request of another session is carried out.
LEMMA OtherRequest ==
  ASSUME ShapeInv, LinkInv, CountInv, BehindInv, BootInv, NamesInv,
         NEW s \in Sessions, Executed(s),
         NEW c \in Clients, Connected(c), client[c].session # s,
         client[c].boot = boot => Informed(c), client'[c].boot = boot'
  PROVE  Informed(c)'
<1>1. PICK r : r = session[s].request OBVIOUS
<1>2. /\ client' = client /\ session[s].at = "received" /\ session'[s].at # "received"
      /\ Effect(session[s].boot, r)
      /\ r.op \in Tokened => Proven(s, r.token)
  BY <1>1 DEF Executed, OnlySession
<1>3. SameDue(c) /\ SamePlace(c) BY DueElsewhere DEF Executed
<1>4. NoneArrives(c) BY <1>2, QuietElsewhere DEF Executed
<1>5. session[s].boot = client[c].boot => client[c].again BY DEF BootInv
<1>6. ASSUME boot' = boot PROVE Informed(c) BY <1>2, <1>6
<1>7. ASSUME r.op \in Tokened, Authorised(r.token), boot' = boot
      PROVE  session[s].boot = boot /\ client'[c].again
  <2>1. session[s].boot = boot BY <1>2, <1>7 DEF Authorised, Proven
  <2>2. client[c].boot = boot BY <1>2, <1>7
  <2> QED BY <1>2, <1>5, <2>1, <2>2
<1>8. CASE Replaced(session[s].boot, r)
  <2>1. step'.id = 0 /\ incarnation' = incarnation + 1 /\ boot' = session[s].boot
    BY <1>8 DEF Replaced
  <2>2. client'[c].again BY <1>2, <1>5, <2>1
  <2>3. ASSUME NEW t \in Sessions, session'[t].at = "received",
               session'[t].request.op \in Tokened
        PROVE  session'[t].request.token.incarnation # incarnation'
    <3>1. session'[t] = session[t] BY <1>2, <2>3 DEF Executed, OnlySession
    <3>2. PICK i : i = session[t].request.token.incarnation OBVIOUS
    <3>3. i \in Nat /\ i <= incarnation BY <2>3, <3>1, <3>2 DEF BehindInv, SessionBehind
    <3> QED BY <2>1, <3>1, <3>2, <3>3 DEF CountInv
  <2> QED BY <2>1, <2>2, <2>3 DEF Informed
<1>9. CASE Quiet(r) \/ Applied(r)
  <2>1. UNCHANGED <<boot, incarnation, retiredSet, retired, topology>> /\ step'.id = step.id
    BY <1>9 DEF Quiet, Applied, authVars
  <2> QED BY <1>3, <1>4, <1>6, <2>1, InformedKept
<1>10. CASE Published(r)
  <2>1. /\ UNCHANGED <<boot, incarnation, retiredSet, retired>> /\ step'.id = step.id
        /\ r.op \in Tokened /\ Authorised(r.token)
    BY <1>10 DEF Published, authVars, Tokened
  <2>2. Informed(c) /\ client'[c].again BY <1>6, <1>7, <2>1
  <2>3. TopologyDue(c)' BY <2>2 DEF TopologyDue
  <2> QED BY <1>3, <1>4, <2>1, <2>2, <2>3, InformedTold DEF SameDue
<1>11. CASE Begun(r)
  <2>1. /\ boot' = boot /\ topology' = topology /\ r.op \in Tokened /\ Authorised(r.token)
        /\ step.id = 0
    BY <1>11 DEF Begun, authVars, Tokened
  <2>2. Informed(c) /\ client'[c].again /\ session[s].boot = boot BY <1>6, <1>7, <2>1
  <2>3. Due(c).step = 0 \/ "step" \in Due(c).behind
    BY <1>1, <1>2, <2>1, <2>2 DEF Informed, Authorised
  <2> QED BY <1>3, <2>2, <2>3 DEF Informed, SameDue, SameStepDue
<1>12. CASE Ended(r)
  <2>1. /\ UNCHANGED <<boot, incarnation, topology>> /\ InStep(r.token)
        /\ r.op = "EndStep" /\ step'.id = 0
    BY <1>12 DEF Ended, authVars
  <2>2. Informed(c) BY <1>6, <2>1
  <2>3. PICK x \in Nat \ {0} : x = step.id BY <2>1 DEF InStep, CountInv
  <2>4. Names(s, x) BY <1>1, <1>2, <2>1, <2>3 DEF Names, InStep
  <2>5. Due(c).step = 0 \/ "step" \in Due(c).behind
    <3>1. Due(c).step # x
      <4>1. ASSUME Due(c).step = x PROVE FALSE
        <5>1. Names(client[c].session, x) BY <2>3, <4>1, DueNames
        <5>2. client[c].session \in Sessions BY DEF LinkInv
        <5> QED BY <2>4, <5>1, <5>2 DEF NamesInv
      <4> QED BY <4>1
    <3> QED BY <2>2, <2>3, <3>1 DEF Informed
  <2>6. TopologyDue(c)' BY <1>3, <2>1, <2>2, NewsKept DEF SameDue
  <2> QED BY <1>3, <2>1, <2>5, <2>6 DEF Informed, SameDue, SameStepDue, TopologyDue
<1>13. CASE Revoked(r)
  <2>1. /\ UNCHANGED <<boot, incarnation, topology>> /\ step'.id = 0
        /\ retired' \/ incarnation' \in retiredSet'
    BY <1>13 DEF Revoked
  <2>2. Informed(c) BY <1>6, <2>1
  <2>3. TopologyDue(c)' BY <1>3, <2>1, <2>2, NewsKept DEF SameDue
  <2> QED BY <2>1, <2>3 DEF Informed, TopologyDue
<1>14. Effect(session[s].boot, r) BY <1>2
<1> QED BY <1>8, <1>9, <1>10, <1>11, <1>12, <1>13, <1>14 DEF Effect

\* A step that leaves the fabric as it is and c where it is.
LEMMA HolderKept ==
  ASSUME HolderInv, UNCHANGED <<boot, incarnation, retiredSet, retired, step, topology>>,
         NEW c \in Clients, Connected(c), client'[c].boot = client[c].boot,
         client'[c].boot = boot', SamePlace(c), SameDue(c), NoneArrives(c)
  PROVE  Informed(c)'
BY InformedKept DEF HolderInv

\* The commit of what c itself asked for fails: it is behind in what had taken effect.
LEMMA OwnFailure ==
  ASSUME ShapeInv, ShapeInv', CountInv, BehindInv, TrustInv,
         NEW s \in Sessions, Failed(s),
         NEW c \in Clients, Connected(c), client[c].session = s, Informed(c)
  PROVE  Informed(c)'
<1>1. PICK q, a, k : q = session[s].request /\ a = session[s].reply /\ k = client[c] OBVIOUS
<1>2. /\ OnlySession(s) /\ client' = client /\ session[s].at = "effected"
      /\ session'[s].at = "answered" /\ session'[s].request = q
      /\ ~session'[s].reply.ok /\ session'[s].reply.effected
  BY <1>1 DEF Failed, Staged, OnlySession
<1>3. Bound(c) = session[s] /\ Bound(c)' = session'[s] BY <1>2 DEF Bound
<1>4. a.ok /\ q.op # "LookupHandle" /\ k.incarnation = session[s].incarnation
  BY <1>1, <1>2, <1>3 DEF TrustInv, Agrees
<1>5. UNCHANGED <<boot, incarnation, retiredSet, retired, step, topology>>
  BY VarsKept DEF Failed
<1>6. SamePlace(c) /\ NoneArrives(c) BY <1>2, QuietElsewhere DEF SamePlace
<1>7. /\ Due(c).step = IF q.op = "BeginStep" THEN q.token.step
                       ELSE IF q.op = "EndStep" THEN 0 ELSE k.step
      /\ q.op # "PublishTopology" => Due(c).topology = k.topology
      /\ q.op # "AdmitReplacement" =>
           Due(c).granted = k.granted /\ Due(c).incarnation = k.incarnation
      /\ q.op \notin {"BeginStep", "EndStep"} =>
           ("step" \in Due(c).behind <=> "step" \in k.behind)
      /\ q.op # "PublishTopology" =>
           ("topology" \in Due(c).behind <=> "topology" \in k.behind)
  <2>1. PICK x, d : x = session[s] /\ d = Due(c) OBVIOUS
  <2>2. x.at = "effected" /\ x.request = q /\ x.reply = a BY <1>1, <1>2, <2>1
  <2>3. DueAs(c, x) BY <1>3, <2>1, DueNow
  <2>4. StepBehind(d, c, q, a) /\ TopologyBehind(d, c, q, a) BY <2>1, <2>2, <2>3 DEF DueAs
  <2>5. q.op \notin {"BeginStep", "EndStep"} => ("step" \in d.behind <=> "step" \in k.behind)
    BY <1>1, <2>4 DEF StepBehind
  <2>6. q.op # "PublishTopology" => ("topology" \in d.behind <=> "topology" \in k.behind)
    BY <1>1, <1>4, <2>4 DEF TopologyBehind
  <2> QED BY <1>1, <1>4, <2>1, <2>2, <2>3, <2>5, <2>6 DEF DueAs
<1>8. /\ Due(c)'.step = k.step /\ Due(c)'.topology = k.topology /\ Due(c)'.granted = k.granted
      /\ Due(c)'.incarnation = k.incarnation
      /\ "step" \in Due(c)'.behind <=> q.op \in {"BeginStep", "EndStep"} \/ "step" \in k.behind
      /\ "topology" \in Due(c)'.behind <=> q.op = "PublishTopology" \/ "topology" \in k.behind
  <2>1. PICK z, b, d : z = session'[s] /\ b = z.reply /\ d = Due(c)' OBVIOUS
  <2>2. z.at = "answered" /\ z.request = q /\ ~b.ok /\ b.effected BY <1>2, <2>1
  <2>3. DueAs(c, z)' BY <1>3, <2>1, DueNextAs
  <2>4. /\ "step" \in d.behind <=> q.op \in {"BeginStep", "EndStep"} \/ "step" \in k.behind
        /\ "topology" \in d.behind <=> q.op = "PublishTopology" \/ "topology" \in k.behind
    BY <1>1, <1>2, <2>1, <2>2, <2>3 DEF DueAs, StepBehind, TopologyBehind
  <2> QED BY <1>1, <1>2, <2>1, <2>2, <2>3, <2>4 DEF DueAs
<1>9. CASE q.op \in {"BeginStep", "EndStep"}
  <2>1. SameNewsDue(c) BY <1>7, <1>8, <1>9 DEF SameNewsDue
  <2>2. TopologyDue(c)' BY <1>5, <1>6, <2>1, NewsKept
  <2> QED BY <1>8, <1>9, <2>2 DEF Informed, TopologyDue
<1>10. CASE q.op \notin {"BeginStep", "EndStep"}
  <2>1. SameStepDue(c) BY <1>7, <1>8, <1>10 DEF SameStepDue
  <2>2. TopologyDue(c)'
    <3>1. CASE q.op = "PublishTopology" BY <1>8, <3>1 DEF TopologyDue
    <3>2. CASE q.op = "AdmitReplacement"
      <4>1. PICK x : x = session[s] /\ SessionBehind(x) BY DEF BehindInv
      <4>2. /\ x.incarnation < a.incarnation /\ a.incarnation <= incarnation
            /\ x.incarnation \in Nat /\ a.incarnation \in Nat /\ incarnation \in Nat
        BY <1>1, <1>2, <1>4, <3>2, <4>1 DEF SessionBehind, CountInv
      <4>3. k.incarnation # incarnation BY <1>4, <4>1, <4>2
      <4> QED BY <1>5, <1>8, <4>3 DEF TopologyDue
    <3>3. CASE q.op \notin {"PublishTopology", "AdmitReplacement"}
      <4>1. SameNewsDue(c) BY <1>7, <1>8, <1>10, <3>3 DEF SameNewsDue
      <4> QED BY <1>5, <1>6, <4>1, NewsKept
    <3> QED BY <3>1, <3>2, <3>3
  <2> QED BY <1>5, <1>6, <2>1, <2>2, InformedTold
<1> QED BY <1>9, <1>10

LEMMA HolderNext ==
  ASSUME ShapeInv, LinkInv, CountInv, BehindInv, BootInv, TrustInv, NamesInv, HolderInv,
         ClientNext
  PROVE  HolderInv'
<1>0. ShapeInv' BY NextIsMove
<1>a. ASSUME UNCHANGED fabricVars
      PROVE  UNCHANGED <<boot, incarnation, retiredSet, retired, step, topology>>
  BY <1>a, FabricKept
<1>1. CASE ConnectMove
  <2>1. PICK c \in Clients, s \in Sessions, b \in Nat : ConnectedAs(c, s, b)
    BY <1>1 DEF ConnectMove
  <2>2. UNCHANGED <<boot, incarnation, retiredSet, retired, step, topology>>
    BY <1>a, <2>1 DEF ConnectedAs
  <2>3. session'[s].at = "open" BY <2>1, FreeFields DEF ConnectedAs
  <2>4. \A d \in Clients : client[d].session # s
    BY <2>1, FreeIsNobodys, FreeFields DEF ConnectedAs
  <2>5. ASSUME client'[c].boot = boot' PROVE Informed(c)'
    <3>1. client'[c].again
      <4>1. boot <= minted /\ boot \in Nat /\ minted \in Nat BY DEF BootInv
      <4>2. b = boot /\ b \in {minted + 1, client[c].boot}
        BY <2>1, <2>2, <2>5 DEF ConnectedAs
      <4>3. b = client[c].boot BY <4>1, <4>2
      <4> QED BY <2>1, <4>3 DEF ConnectedAs
    <3>2. Due(c)'.step = 0
      <4>1. Bound(c)'.at = "open" /\ client'[c].step = 0
        BY <2>1, <2>3 DEF Bound, ConnectedAs
      <4> QED BY <4>1 DEF Due
    <3> QED BY <3>1, <3>2 DEF Informed
  <2>6. ASSUME NEW d \in Clients, d # c, Connected(d)', client'[d].boot = boot'
        PROVE  Informed(d)'
    <3>1. client'[d] = client[d] /\ Connected(d)
      BY <2>1, <2>6 DEF ConnectedAs, Connected
    <3>2. session'[client[d].session] = session[client[d].session]
      BY <2>1, <2>4, <3>1 DEF ConnectedAs, LinkInv
    <3>3. SameDue(d) /\ SamePlace(d) BY <3>1, <3>2, DueKept
        DEF SameDue, SameStepDue, SameNewsDue, SamePlace
    <3>4. NoneArrives(d) BY <2>1, <2>3 DEF NoneArrives, ConnectedAs
    <3> QED BY <2>2, <2>6, <3>1, <3>3, <3>4, HolderKept
  <2> QED BY <2>5, <2>6 DEF HolderInv
<1>2. CASE SendMove
  <2>1. PICK c \in Clients : Connected(c) /\ \E r : Sent(c, r) BY <1>2 DEF SendMove
  <2>2. PICK r : Sent(c, r) BY <2>1
  <2>3. PICK s \in Sessions : s = client[c].session BY <2>1 DEF LinkInv
  <2>4. /\ OnlySession(s) /\ client' = client /\ session[s].at = "open"
        /\ session'[s].at = "received" /\ session'[s].boot = client[c].boot
        /\ client[c].boot # 0
    BY <2>1, <2>2, <2>3 DEF Sent, Staged, OnlySession, LinkInv, Bound
  <2>5. UNCHANGED <<boot, incarnation, retiredSet, retired, step, topology>>
    BY <1>a, <2>2 DEF Sent
  <2>6. ASSUME NEW d \in Clients, Connected(d)', client'[d].boot = boot'
        PROVE  Informed(d)'
    <3>1. Connected(d) BY <2>4, <2>6 DEF Connected
    <3>2. CASE d = c
      <4>1. Due(c) = client[c] /\ Due(c)' = client[c]
        BY <2>3, <2>4 DEF Due, Bound
      <4>2. SameDue(c) /\ SamePlace(c) BY <2>4, <4>1
          DEF SameDue, SameStepDue, SameNewsDue, SamePlace
      <4>3. NoneArrives(c) BY <2>3, <2>4, QuietElsewhere
      <4> QED BY <2>4, <2>5, <2>6, <3>1, <3>2, <4>2, <4>3, HolderKept
    <3>3. CASE d # c
      <4>1. client[d].session # s BY <2>1, <2>3, <3>1, <3>3 DEF LinkInv
      <4>2. SameDue(d) /\ SamePlace(d) BY <2>4, <3>1, <4>1, DueElsewhere
      <4>3. session'[s].boot # boot BY <2>4, <2>5, <2>6, <3>3 DEF BootInv
      <4>4. NoneArrives(d) BY <2>4, <4>3 DEF NoneArrives, OnlySession
      <4> QED BY <2>4, <2>5, <2>6, <3>1, <4>2, <4>4, HolderKept
    <3> QED BY <3>2, <3>3
  <2> QED BY <2>6 DEF HolderInv
<1>3. CASE ReceiveMove
  <2>1. PICK c \in Clients : Connected(c) /\ Received(c) BY <1>3 DEF ReceiveMove
  <2>2. PICK s \in Sessions : s = client[c].session BY <2>1 DEF LinkInv
  <2>3. /\ client'[c].session = s /\ client'[c].boot = client[c].boot
        /\ client'[c].again = client[c].again
    BY <2>1, <2>2, ReceivedTracks DEF Tracks
  <2>4. UNCHANGED <<boot, incarnation, retiredSet, retired, step, topology>>
    BY <1>a, <2>1 DEF Received
  <2>5. /\ session[s].at = "answered" /\ session'[s].at = "open"
        /\ \A t \in Sessions : t # s => session'[t] = session[t]
        /\ \A d \in Clients : d # c => client'[d] = client[d]
    BY <2>1, <2>2 DEF Received
  <2>6. ASSUME NEW d \in Clients, Connected(d)', client'[d].boot = boot'
        PROVE  Informed(d)'
    <3>1. NoneArrives(d) BY <2>5 DEF NoneArrives
    <3>2. CASE d = c
      <4>1. Due(c)' = client'[c] /\ Due(c) = client'[c]
        BY <2>1, <2>2, <2>3, <2>5 DEF Due, Bound, Received
      <4>2. SameDue(c) /\ SamePlace(c) BY <2>2, <2>3, <4>1
          DEF SameDue, SameStepDue, SameNewsDue, SamePlace
      <4> QED BY <2>1, <2>3, <2>4, <2>6, <3>1, <3>2, <4>2, HolderKept
    <3>3. CASE d # c
      <4>1. client'[d] = client[d] /\ Connected(d) BY <2>5, <2>6, <3>3 DEF Connected
      <4>2. client[d].session # s /\ client[d].session \in Sessions
        BY <2>1, <2>2, <3>3, <4>1 DEF LinkInv
      <4>3. SameDue(d) /\ SamePlace(d) BY <2>5, <4>1, <4>2, DueKept
        DEF SameDue, SameStepDue, SameNewsDue, SamePlace
      <4> QED BY <2>4, <2>6, <3>1, <4>1, <4>3, HolderKept
    <3> QED BY <3>2, <3>3
  <2> QED BY <2>6 DEF HolderInv
<1>4. CASE LeaveMove
  <2>1. PICK c \in Clients : Left(c) BY <1>4 DEF LeaveMove
  <2>2. ~Connected(c)' BY <2>1, UnconnectedFields DEF Left, Connected
  <2>3. UNCHANGED <<boot, incarnation, retiredSet, retired, step, topology>>
    BY <1>a, <2>1 DEF Left
  <2>4. ASSUME NEW d \in Clients, Connected(d)', client'[d].boot = boot'
        PROVE  Informed(d)'
    <3>1. client'[d] = client[d] /\ Connected(d) /\ session' = session
      BY <2>1, <2>2, <2>4 DEF Left, OnlyClient, Connected
    <3>2. SameDue(d) /\ SamePlace(d) /\ NoneArrives(d)
      BY <3>1, DueKept DEF SameDue, SameStepDue, SameNewsDue, SamePlace, NoneArrives
    <3> QED BY <2>3, <2>4, <3>1, <3>2, HolderKept
  <2> QED BY <2>4 DEF HolderInv
<1>5. CASE ExecuteMove
  <2>1. PICK s \in Sessions : Executed(s) BY <1>5 DEF ExecuteMove
  <2>2. ASSUME NEW c \in Clients, Connected(c)', client'[c].boot = boot'
        PROVE  Informed(c)'
    <3>1. Connected(c) BY <2>1, <2>2 DEF Executed, OnlySession, Connected
    <3>2. client[c].boot = boot => Informed(c) BY <3>1 DEF HolderInv
    <3>3. CASE client[c].session = s BY <1>0, <2>1, <2>2, <3>1, <3>2, <3>3, OwnRequest
    <3>4. CASE client[c].session # s BY <2>1, <2>2, <3>1, <3>2, <3>4, OtherRequest
    <3> QED BY <3>3, <3>4
  <2> QED BY <2>2 DEF HolderInv
<1>6. CASE RefuseMove
  <2>1. PICK s \in Sessions : Refused(s) BY <1>6 DEF RefuseMove
  <2>2. /\ OnlySession(s) /\ client' = client /\ session[s].at = "received"
        /\ session'[s].at = "answered"
        /\ ~session'[s].reply.ok /\ ~session'[s].reply.effected
    BY <2>1 DEF Refused, Staged, OnlySession
  <2>3. UNCHANGED <<boot, incarnation, retiredSet, retired, step, topology>>
    BY <1>a, <2>1 DEF Refused
  <2>4. ASSUME NEW c \in Clients, Connected(c)', client'[c].boot = boot'
        PROVE  Informed(c)'
    <3>1. Connected(c) /\ NoneArrives(c)
      BY <2>2, <2>4, QuietElsewhere DEF Connected
    <3>2. SameDue(c) /\ SamePlace(c)
      <4>1. CASE client[c].session = s
        <5>1. Due(c) = client[c] BY <2>2, <4>1 DEF Due, Bound
        <5>2. Bound(c)' = session'[s] BY <2>2, <4>1 DEF Bound
        <5>3. /\ Due(c)'.step = client[c].step /\ Due(c)'.topology = client[c].topology
              /\ Due(c)'.granted = client[c].granted
              /\ Due(c)'.incarnation = client[c].incarnation
              /\ "step" \in Due(c)'.behind <=> "step" \in client[c].behind
              /\ "topology" \in Due(c)'.behind <=> "topology" \in client[c].behind
          BY <1>0, <2>2, <5>2, DueNext DEF DueAs, StepBehind, TopologyBehind
        <5> QED BY <2>2, <5>1, <5>3
          DEF SameDue, SameStepDue, SameNewsDue, SamePlace
      <4>2. CASE client[c].session # s BY <2>2, <3>1, <4>2, DueElsewhere
      <4> QED BY <4>1, <4>2
    <3> QED BY <2>2, <2>3, <2>4, <3>1, <3>2, HolderKept
  <2> QED BY <2>4 DEF HolderInv
<1>7. CASE CommitMove
  <2>1. PICK s \in Sessions : Durable(s) BY <1>7 DEF CommitMove
  <2>2. /\ OnlySession(s) /\ client' = client /\ session[s].at = "effected"
        /\ session'[s].at = "answered" /\ session'[s].request = session[s].request
        /\ session'[s].reply = session[s].reply
    BY <2>1 DEF Durable, Staged, OnlySession
  <2>3. UNCHANGED <<boot, incarnation, retiredSet, retired, step, topology>>
    BY <2>1, VarsKept DEF Durable
  <2>4. ASSUME NEW c \in Clients, Connected(c)', client'[c].boot = boot'
        PROVE  Informed(c)'
    <3>1. Connected(c) /\ NoneArrives(c)
      BY <2>2, <2>4, QuietElsewhere DEF Connected
    <3>2. SameDue(c) /\ SamePlace(c)
      <4>1. CASE client[c].session = s
        <5>1. PICK q, a : q = session[s].request /\ a = session[s].reply OBVIOUS
        <5>2. Due(c) = Learnt(c, q, a) BY <2>2, <4>1, <5>1 DEF Due, Bound
        <5>3. Due(c)' = Learnt(c, q, a)' BY <2>2, <4>1, <5>1 DEF Due, Bound
        <5>4. Learnt(c, q, a)' = Learnt(c, q, a) BY <2>2 DEF Learnt, Adopted
        <5> QED BY <2>2, <5>2, <5>3, <5>4 DEF SameDue, SameStepDue, SameNewsDue, SamePlace
      <4>2. CASE client[c].session # s BY <2>2, <3>1, <4>2, DueElsewhere
      <4> QED BY <4>1, <4>2
    <3> QED BY <2>2, <2>3, <2>4, <3>1, <3>2, HolderKept
  <2> QED BY <2>4 DEF HolderInv
<1>8. CASE EndMove
  <2>1. PICK s \in Sessions : Freed(s) BY <1>8 DEF EndMove
  <2>2. OnlySession(s) /\ client' = client /\ session'[s].at = "free"
    BY <2>1, FreeFields DEF Freed, OnlySession
  <2>3. UNCHANGED <<boot, incarnation, retiredSet, retired, step, topology>>
    BY <1>a, <2>1 DEF Freed
  <2>4. ASSUME NEW c \in Clients, Connected(c)', client'[c].boot = boot'
        PROVE  Informed(c)'
    <3>1. Connected(c) /\ NoneArrives(c) /\ client[c].session # s
      BY <2>1, <2>2, <2>4, QuietElsewhere DEF Connected, Freed, Orphan
    <3>2. SameDue(c) /\ SamePlace(c) BY <2>2, <3>1, DueElsewhere
    <3> QED BY <2>2, <2>3, <2>4, <3>1, <3>2, HolderKept
  <2> QED BY <2>4 DEF HolderInv
<1>9. CASE Restarted BY <1>9, RestartLinks DEF HolderInv
<1>10. CASE FailMove
  <2>1. PICK s \in Sessions : Failed(s) BY <1>10 DEF FailMove
  <2>2. OnlySession(s) /\ client' = client /\ session'[s].at = "answered"
    BY <2>1 DEF Failed, Staged, OnlySession
  <2>3. UNCHANGED <<boot, incarnation, retiredSet, retired, step, topology>>
    BY <2>1, VarsKept DEF Failed
  <2>4. ASSUME NEW c \in Clients, Connected(c)', client'[c].boot = boot'
        PROVE  Informed(c)'
    <3>1. Connected(c) /\ NoneArrives(c)
      BY <2>2, <2>4, QuietElsewhere DEF Connected
    <3>2. CASE client[c].session = s
      <4>1. Informed(c) BY <2>2, <2>3, <2>4, <3>1 DEF HolderInv
      <4> QED BY <1>0, <2>1, <3>1, <3>2, <4>1, OwnFailure
    <3>3. CASE client[c].session # s
      <4>1. SameDue(c) /\ SamePlace(c) BY <2>2, <3>1, <3>3, DueElsewhere
      <4> QED BY <2>2, <2>3, <2>4, <3>1, <4>1, HolderKept
    <3> QED BY <3>2, <3>3
  <2> QED BY <2>4 DEF HolderInv
<1> QED BY NextIsMove, <1>1, <1>2, <1>3, <1>4, <1>5, <1>6, <1>7, <1>8, <1>9, <1>10

-----------------------------------------------------------------------------
(* The invariant, and what follows from it.                                *)

ClientInv ==
  /\ ShapeInv /\ LinkInv /\ CountInv /\ BehindInv
  /\ TrustInv /\ BootInv /\ NamesInv /\ HolderInv

LEMMA InitClient == ClientInit => ClientInv
<1> SUFFICES ASSUME ClientInit PROVE ClientInv
  OBVIOUS
<1> USE DEF Connected
<1>1. /\ epoch = 1 /\ incarnation = 1 /\ boot = 1 /\ retiredSet = {} /\ retired = FALSE
      /\ topology = [gen |-> 0, cap |-> <<>>] /\ policyGen = 1 /\ step = NoStep
      /\ highestStep = 0 /\ lastClosed = 0 /\ stored = Written /\ minted = 1
  BY DEF ClientInit, RestartInit, Init
<1>2. PICK c \in Clients, s \in Sessions :
        /\ client = [d \in Clients |->
             IF d = c THEN [session |-> s, boot |-> 1, epoch |-> epoch,
                            incarnation |-> incarnation, topology |-> 0,
                            policy |-> policyGen, step |-> 0, granted |-> FALSE,
                            again |-> FALSE, behind |-> {}]
             ELSE Unconnected(0)]
        /\ session = [r \in Sessions |->
             IF r = s THEN [Free EXCEPT !.at = "open", !.boot = 1, !.incarnation = incarnation]
             ELSE Free]
  BY DEF ClientInit
<1>3. /\ client[c].session = s /\ client[c].boot = 1 /\ client[c].epoch = 1
      /\ client[c].incarnation = 1 /\ client[c].topology = 0 /\ client[c].policy = 1
      /\ client[c].step = 0 /\ client[c].granted = FALSE /\ client[c].again = FALSE
      /\ ClientRecord(client[c])
  BY <1>1, <1>2 DEF ClientRecord
<1>4. \A d \in Clients : d # c =>
        /\ client[d] = Unconnected(0) /\ ClientRecord(client[d])
        /\ client[d].session = NoSession /\ client[d].boot = 0 /\ client[d].step = 0
  BY <1>2 DEF Unconnected, ClientRecord
<1>5. /\ session[s].at = "open" /\ session[s].boot = 1 /\ session[s].incarnation = 1
      /\ SessionRecord(session[s])
  BY <1>1, <1>2 DEF Free, SessionRecord
<1>6. \A r \in Sessions : r # s =>
        /\ session[r].at = "free" /\ session[r].boot = 0 /\ session[r].incarnation = 0
        /\ SessionRecord(session[r])
  BY <1>2 DEF Free, SessionRecord
<1>7. StepRecord(step) /\ step.id = 0 BY <1>1 DEF NoStep, StepRecord
<1>8. StepRecord(stored.step)
  <2>1. PICK a : stored.step = [step EXCEPT !.acct = a] BY <1>1 DEF Written, WrittenStep
  <2> QED BY <1>7, <2>1 DEF StepRecord
<1>9. ShapeInv BY <1>2, <1>3, <1>4, <1>5, <1>6, <1>7, <1>8 DEF ShapeInv
<1>10. LinkInv
  <2>1. Connected(c) /\ \A d \in Clients : d # c => ~Connected(d)
    BY <1>3, <1>4, ClientAssumption DEF ClientAssumption
  <2>2. ASSUME NEW d \in Clients, ~Connected(d) PROVE client[d] = Unconnected(client[d].boot)
    <3>1. PICK k, o : k = client[d] /\ o = client[d].boot OBVIOUS
    <3>2. k = Unconnected(0) /\ o = 0 BY <1>4, <2>1, <2>2, <3>1
    <3> QED BY <3>1, <3>2
  <2>3. \A d \in Clients : Connected(d) => d = c BY <2>1
  <2>4. Bound(c) = session[s] BY <1>3 DEF Bound
  <2> QED BY <1>1, <1>3, <1>5, <2>2, <2>3, <2>4 DEF LinkInv
<1>11. CountInv BY <1>1, <1>7, WrittenFields DEF CountInv
<1>12. BehindInv
  <2>1. Behind(client[c]) BY <1>1, <1>3 DEF Behind
  <2>2. \A r \in Sessions : SessionBehind(session[r]) BY <1>1, <1>5, <1>6 DEF SessionBehind
  <2> QED BY <1>4, <2>1, <2>2 DEF BehindInv
<1>13. TrustInv BY <1>3, <1>4, <1>5 DEF TrustInv, Agrees, Bound
<1>14. BootInv
  <2>1. stored.boot = 1 BY <1>1, <1>7, WrittenFields
  <2> QED BY <1>1, <1>3, <1>4, <1>5, <1>6, <2>1 DEF BootInv
<1>15. NamesInv
  <2>1. \A d \in Clients : client[d].step = 0 BY <1>3, <1>4
  <2>2. \A r \in Sessions : session[r].at \in {"open", "free"} BY <1>5, <1>6
  <2> QED BY <2>1, <2>2 DEF NamesInv, Names
<1>16. HolderInv
  <2>1. Due(c) = client[c] BY <1>3, <1>5 DEF Due, Bound
  <2>2. Informed(c) BY <1>1, <1>3, <1>7, <2>1 DEF Informed
  <2> QED BY <1>4, <2>2 DEF HolderInv
<1> QED BY <1>9, <1>10, <1>11, <1>12, <1>13, <1>14, <1>15, <1>16 DEF ClientInv

LEMMA StutterClient == ClientInv /\ UNCHANGED clientVars => ClientInv'
<1> SUFFICES ASSUME ClientInv, UNCHANGED clientVars PROVE ClientInv'
  OBVIOUS
<1> USE DEF Connected
<1>1. /\ client' = client /\ session' = session /\ minted' = minted /\ UNCHANGED fabricVars
  BY DEF clientVars, serverVars
<1>2. /\ UNCHANGED <<epoch, incarnation, boot, retiredSet, retired, topology, policyGen>>
      /\ UNCHANGED <<highestStep, lastClosed, step, stored>>
  BY <1>1, FabricKept
<1>3. ShapeInv' BY <1>1, <1>2 DEF ClientInv, ShapeInv
<1>4. LinkInv' BY <1>1, <1>2 DEF ClientInv, LinkInv, Bound
<1>5. CountInv' BY <1>2 DEF ClientInv, CountInv
<1>6. BehindInv'
  <2>1. Grown BY <1>2, <1>5, KeptGrows DEF ClientInv
  <2> QED BY <1>1, <2>1, BehindKept DEF ClientInv
<1>7. TrustInv' BY <1>1, AgreeKept DEF ClientInv, TrustInv
<1>8. BootInv' BY <1>1, <1>2 DEF ClientInv, BootInv
<1>9. NamesInv'
  <2>1. NamesShrink BY <1>1 DEF NamesShrink, Names
  <2>2. Grown BY <1>2, <1>5, KeptGrows DEF ClientInv
  <2> QED BY <2>1, <2>2, NamesKept DEF ClientInv
<1>10. HolderInv'
  <2>1. ASSUME NEW c \in Clients, Connected(c)', client'[c].boot = boot' PROVE Informed(c)'
    <3>1. SameDue(c) /\ SamePlace(c) /\ NoneArrives(c)
      BY <1>1, DueKept DEF SameDue, SameStepDue, SameNewsDue, SamePlace, NoneArrives
    <3> QED BY <1>1, <1>2, <2>1, <3>1, HolderKept DEF ClientInv
  <2> QED BY <2>1 DEF HolderInv
<1> QED BY <1>3, <1>4, <1>5, <1>6, <1>7, <1>8, <1>9, <1>10 DEF ClientInv

LEMMA NextClient == ClientInv /\ ClientNext => ClientInv'
BY NextIsMove, LinkNext, CountNext, BehindNext, AgreeNext, BootNext, NamesNext, HolderNext
DEF ClientInv

(***************************************************************************)
(* The invariant holds whatever becomes of processes, connections and the  *)
(* coordinator (Client, run_session, dispatch_request, Start).             *)
(***************************************************************************)
THEOREM ClientInvariant == ClientSpec => []ClientInv
BY InitClient, NextClient, StutterClient, PTL DEF ClientSpec

(***************************************************************************)
(* What a connected process was told is never ahead of the fabric: the     *)
(* commit may fail to reach the disk before a crash, but the crash ends    *)
(* every session with it (Coordinator::Start, run_session).                *)
(***************************************************************************)
THEOREM TheToldIsTrue == ClientSpec => []ToldIsTrue
<1>1. ClientInv => ToldIsTrue
  BY DEF ClientInv, LinkInv, BehindInv, Behind, CountInv, ToldIsTrue
<1> QED BY <1>1, ClientInvariant, PTL

(***************************************************************************)
(* No request of a bound client is refused for what it claims to be:       *)
(* client and session bind the same incarnation at the two ends of every   *)
(* exchange, lost or late replies and restarts included (token_from).      *)
(***************************************************************************)
THEOREM EnvelopesAlwaysAgree == ClientSpec => []EnvelopesAgree
<1>1. ClientInv => EnvelopesAgree
  <2> SUFFICES ASSUME ClientInv, NEW s \in Sessions, session[s].at = "received", ~Orphan(s),
                      session[s].request.op \in Tokened,
                      session[s].request.token.incarnation # 0
               PROVE  Proven(s, session[s].request.token)
    BY DEF EnvelopesAgree
  <2>1. PICK c \in Clients : client[c].session = s BY DEF Orphan
  <2>2. Connected(c) BY <2>1, ClientAssumption DEF Connected, ClientAssumption
  <2>3. Bound(c) = session[s] BY <2>1 DEF Bound
  <2> QED BY <2>2, <2>3 DEF ClientInv, TrustInv, Agrees, LinkInv, Proven
<1> QED BY <1>1, ClientInvariant, PTL

(***************************************************************************)
(* The holder of the job that has nothing in flight tracks the step that   *)
(* is open, whoever opened it before whom; a process that came back as     *)
(* itself may have lost it (client.hpp: current_step_), and one that was   *)
(* told of an error by a commit that failed may not know that its request  *)
(* to open or to close a step took effect (coordinator.cpp:675).           *)
(***************************************************************************)
THEOREM TheHolderKnowsItsStep == ClientSpec => []HolderKnowsStep
<1>1. ClientInv => HolderKnowsStep
  <2> SUFFICES ASSUME ClientInv, NEW c \in Clients, Idle(c), Holds(c), step.id # 0
               PROVE  \/ client[c].step = step.id
                      \/ client[c].again /\ client[c].step = 0
                      \/ "step" \in client[c].behind
    BY DEF HolderKnowsStep
  <2>1. Informed(c) BY DEF ClientInv, HolderInv, Holds
  <2>2. Due(c) = client[c] BY DEF Due, Idle, Bound
  <2> QED BY <2>1, <2>2 DEF Informed
<1> QED BY <1>1, ClientInvariant, PTL

(***************************************************************************)
(* protocol.md:46.  A holder with nothing in flight that has looked its    *)
(* handle up, and did not come back as itself, is honoured by              *)
(* resolve_authority: every claim of its token is what the fabric has.     *)
(* Evidence it published under a commit that failed (coordinator.cpp:585)  *)
(* is the exception, until it looks its handle up again.                   *)
(***************************************************************************)
THEOREM TheHolderIsHonoured == ClientSpec => []HonouredOnceLookedUp
<1>1. ClientInv => HonouredOnceLookedUp
  <2> SUFFICES ASSUME ClientInv, NEW c \in Clients, Idle(c), Holds(c),
                      ~client[c].granted, ~client[c].again,
                      "topology" \notin client[c].behind
               PROVE  Authorised(Token(c, 0))
    BY DEF HonouredOnceLookedUp
  <2>1. Informed(c) BY DEF ClientInv, HolderInv, Holds
  <2>2. Due(c) = client[c] BY DEF Due, Idle, Bound
  <2>3. client[c].incarnation = incarnation
    BY DEF ClientInv, TrustInv, Agrees, Holds, Idle, Bound
  <2>4. /\ client[c].epoch = epoch /\ client[c].boot = boot
        /\ ~retired /\ incarnation \notin retiredSet
    BY DEF ClientInv, LinkInv, Holds
  <2>5. client[c].topology = topology.gen BY <2>1, <2>2, <2>3 DEF Informed
  <2>6. client[c].policy <= policyGen BY DEF ClientInv, BehindInv, Behind, Holds
  <2> QED BY <2>3, <2>4, <2>5, <2>6 DEF Authorised, Token
<1> QED BY <1>1, ClientInvariant, PTL

\* What the holder has, and nobody else may change.
heldVars == <<step, flows, groups, topology, incarnation, retiredSet, retired>>

LEMMA RequestAuthorised ==
  ASSUME NEW t, NEW p, NEW it, RequestTraffic(t, p, it)
  PROVE  UNCHANGED heldVars \/ (Authorised(t) /\ boot' = boot)
<1>1. CASE Unresolved(t, p)
  BY <1>1 DEF RequestTraffic, Unresolved, heldVars, authVars, configVars
<1>2. CASE InPhase(t, p)
  BY <1>2 DEF RequestTraffic, InPhase, InStep, authVars
<1> QED BY <1>1, <1>2 DEF RequestTraffic, Rejected, Held, Admitted

\* What an operation that changes any of it asks of the token.
LEMMA PerformAuthorised ==
  ASSUME NEW s, NEW r, Perform(s, r)
  PROVE  \/ r.op = "ApplyPolicy"
         \/ UNCHANGED heldVars
         \/ r.op = "AdmitReplacement" /\ boot' = session[s].boot
         \/ r.op \in Tokened /\ Authorised(r.token) /\ boot' = boot
<1> USE DEF Tokened
<1>1. CASE PerformRegistration(r)
  BY <1>1 DEF PerformRegistration, RegisterGroup, PublishTopology, RetireJob, authVars
<1>2. CASE PerformLifecycle(r)
  BY <1>2 DEF PerformLifecycle, BeginStep, BeginPhase, EndPhase, EndStep, InStep, authVars
<1>3. CASE PerformTraffic(r)
  BY <1>3, RequestAuthorised
  DEF PerformTraffic, CompleteFlow, RevalidateFlow, BeginCheckpointBurst, EndCheckpointBurst,
      InStep, authVars
<1>4. CASE PerformRecovery(s, r)
  BY <1>4 DEF PerformRecovery, AdmitReplacement, RetireIncarnation, heldVars, vars, authVars,
              configVars, ledgerVars
<1> QED BY <1>1, <1>2, <1>3, <1>4 DEF Perform

(***************************************************************************)
(* protocol.md:45.  A request that changes the step, its flows, the groups, *)
(* the topology or who has the job is one of the process that has the job  *)
(* once it is carried out: whatever any number of orphaned sessions still  *)
(* carry out, nobody acts in the name of a holder that was replaced.       *)
(***************************************************************************)
THEOREM OnlyHoldersAct == ClientSpec => OnlyTheHolderActs
<1>1. ClientInv /\ [ClientNext]_clientVars =>
        [\A s \in Sessions :
           (/\ session[s].at = "received" /\ session'[s].at \in {"effected", "answered"}
            /\ session[s].request.op # "ApplyPolicy"
            /\ <<step, flows, groups, topology, incarnation, retiredSet, retired>>' #
                 <<step, flows, groups, topology, incarnation, retiredSet, retired>>)
           => session[s].boot = boot']_clientVars
  <2> SUFFICES ASSUME ClientInv, ClientNext, NEW s \in Sessions,
                      session[s].at = "received", session'[s].at \in {"effected", "answered"},
                      session[s].request.op # "ApplyPolicy",
                      <<step, flows, groups, topology, incarnation, retiredSet, retired>>' #
                        <<step, flows, groups, topology, incarnation, retiredSet, retired>>
               PROVE  session[s].boot = boot'
    OBVIOUS
  <2>1. ~UNCHANGED vars BY DEF vars, authVars, configVars, ledgerVars
  <2>2. ~UNCHANGED fabricVars BY <2>1 DEF fabricVars
  <2>3. ~CrashAndRestart
    <3>1. Free.at = "free" BY FreeFields
    <3> QED BY <3>1 DEF CrashAndRestart
  <2>4. PICK t \in Sessions : Execute(t)
    BY <2>1, <2>2, <2>3
    DEF ClientNext, ClientStep, SessionStep, Connect, Call, Send, Receive, Disconnect,
        RefuseRequest, CommitEffect, FailCommit, EndSession, serverVars
  <2>5. Executed(t) /\ Perform(t, session[t].request)
    BY <2>4, ExecuteDoes DEF ClientInv, Execute
  <2>6. t = s BY <2>5 DEF Executed, OnlySession
  <2>7. PICK r : r = session[s].request OBVIOUS
  <2>8. Perform(s, r) /\ (r.op \in Tokened => Proven(s, r.token))
    BY <2>5, <2>6, <2>7 DEF Executed
  <2>9. \/ r.op = "AdmitReplacement" /\ boot' = session[s].boot
        \/ r.op \in Tokened /\ Authorised(r.token) /\ boot' = boot
    BY <2>7, <2>8, PerformAuthorised DEF heldVars
  <2> QED BY <2>8, <2>9 DEF Proven, Authorised
<1> QED BY <1>1, ClientInvariant, PTL DEF ClientSpec, OnlyTheHolderActs
-----------------------------------------------------------------------------
(* The job is served: every step is one of Restart, as far as the job is   *)
(* concerned.  What a request names was there when it was sent, and what   *)
(* is there only grows while its session lives.                            *)

\* Claims of t, but for the step.
Stepless(t) ==
  [epoch |-> t.epoch, incarnation |-> t.incarnation, boot |-> t.boot,
   topology |-> t.topology, policy |-> t.policy, step |-> 0]

\* A request that may have been sent before now: the fabric has had all that it names.
Possible(r) ==
  /\ r.op \in Tokened \ {"BeginStep"} => r.token \in Tokens
  /\ r.op = "RegisterGroup" => r.group \in Groups
  /\ r.op = "PublishTopology" => r.evidence \in Evidence /\ DOMAIN r.evidence \subseteq groups
  /\ r.op = "ApplyPolicy" => r.document \in DOMAIN Policies
  /\ r.op = "BeginStep" => Stepless(r.token) \in Tokens /\ r.token.step \in 1 .. MaxStep
  /\ r.op = "BeginPhase" =>
       r.group \in Groups /\ \A k \in DOMAIN Policies : r.cls \in DOMAIN Policies[k].classOf
  /\ r.op = "EndPhase" => r.phase \in 1 .. nextPhase
  /\ r.op = "RequestTraffic" => r.phase \in 1 .. nextPhase /\ r.intent \in Intents
  /\ r.op = "CompleteFlow" =>
       r.intent \in Ids /\ r.bytes \in Reports /\ r.cancelled \in BOOLEAN
  /\ r.op = "RevalidateFlow" => r.intent \in Ids
  /\ r.op = "BeginCheckpointBurst" => r.group \in Groups
  /\ r.op = "EndCheckpointBurst" => r.burst \in 1 .. nextBurst
  /\ r.op = "AdmitReplacement" => r.resume \in 0 .. MaxStep

RequestInv ==
  /\ groups \subseteq Groups /\ stored.groups \subseteq Groups
  /\ {nextPhase, nextIntent, nextBurst} \subseteq Nat
  /\ {stored.nextPhase, stored.nextIntent, stored.nextBurst} \subseteq Nat
  /\ \A s \in Sessions : session[s].at # "free" => session[s].boot \in Boots
  /\ \A s \in Sessions : session[s].at = "received" => Possible(session[s].request)

ServedInv == ClientInv /\ RestartInv /\ EvidenceInv /\ RequestInv

\* Nothing is taken back: every step but a crash.
Grows(x, y) == x \in Nat /\ y \in Nat /\ x <= y
CountersGrow ==
  /\ Grows(epoch, epoch') /\ Grows(incarnation, incarnation')
  /\ Grows(topology.gen, topology'.gen) /\ Grows(policyGen, policyGen')
  /\ Grows(highestStep, highestStep')
AllocatorsGrow ==
  /\ Grows(nextPhase, nextPhase') /\ Grows(nextIntent, nextIntent')
  /\ Grows(nextBurst, nextBurst') /\ groups \subseteq groups'

LEMMA RangesGrow ==
  ASSUME NEW m, NEW n, Grows(m, n)
  PROVE  /\ 0 .. m \subseteq 0 .. n /\ 1 .. m \subseteq 1 .. n
         /\ 0 .. m + 1 \subseteq 0 .. n + 1 /\ 1 .. m - 1 \subseteq 1 .. n - 1
         /\ {m + 1} \cup 0 .. m = 0 .. m + 1 /\ {n + 1} \cup 0 .. n = 0 .. n + 1
<1>1. m \in Nat /\ n \in Nat /\ m <= n BY DEF Grows
<1>2. 0 .. m \subseteq 0 .. n /\ 1 .. m \subseteq 1 .. n BY <1>1
<1>3. 0 .. m + 1 \subseteq 0 .. n + 1 BY <1>1
<1>4. 1 .. m - 1 \subseteq 1 .. n - 1 BY <1>1
<1>5. {m + 1} \cup 0 .. m = 0 .. m + 1 BY <1>1
<1>6. {n + 1} \cup 0 .. n = 0 .. n + 1 BY <1>1
<1> QED BY <1>2, <1>3, <1>4, <1>5, <1>6

LEMMA TokensGrow ==
  ASSUME AnyAge, CountersGrow, NEW t \in Tokens
  PROVE  t \in Tokens'
<1>1. /\ 0 .. epoch \subseteq 0 .. epoch' /\ 0 .. incarnation \subseteq 0 .. incarnation'
      /\ 0 .. topology.gen \subseteq 0 .. topology'.gen
      /\ 0 .. policyGen + 1 \subseteq 0 .. policyGen' + 1
      /\ 0 .. highestStep \subseteq 0 .. highestStep'
  BY RangesGrow DEF CountersGrow
<1>2. /\ {policyGen + 1} \cup 0 .. policyGen = 0 .. policyGen + 1
      /\ {policyGen' + 1} \cup 0 .. policyGen' = 0 .. policyGen' + 1
  BY RangesGrow DEF CountersGrow
<1>3. Tokens = [epoch : 0 .. epoch, incarnation : 0 .. incarnation, boot : Boots,
                topology : 0 .. topology.gen, policy : 0 .. policyGen + 1,
                step : 0 .. highestStep]
  BY <1>2 DEF Tokens, Recent
<1>4. Tokens' = [epoch : 0 .. epoch', incarnation : 0 .. incarnation', boot : Boots,
                 topology : 0 .. topology'.gen, policy : 0 .. policyGen' + 1,
                 step : 0 .. highestStep']
  BY <1>2 DEF Tokens, Recent
<1> QED BY ONLY t \in Tokens, <1>1, <1>3, <1>4

LEMMA StaysPossible ==
  ASSUME AnyAge, CountersGrow, AllocatorsGrow, NEW r, Possible(r)
  PROVE  Possible(r)'
<1>1. /\ 1 .. nextPhase \subseteq 1 .. nextPhase' /\ Ids \subseteq Ids'
      /\ 1 .. nextBurst \subseteq 1 .. nextBurst'
  BY RangesGrow DEF AllocatorsGrow, Ids
<1>2. \A t \in Tokens : t \in Tokens' BY TokensGrow
<1>3. groups \subseteq groups' BY DEF AllocatorsGrow
<1> QED BY ONLY <1>1, <1>2, <1>3, Possible(r) DEF Possible

\* What the process of a connection may claim.
LEMMA TokenPossible ==
  ASSUME AnyAge, ServedInv, NEW c \in Clients, Connected(c), NEW x \in 0 .. highestStep
  PROVE  Token(c, x) \in Tokens
<1>1. PICK k : k = client[c] OBVIOUS
<1>2. /\ k.epoch = epoch /\ k.boot \in Boots
  BY <1>1 DEF ServedInv, ClientInv, LinkInv, RequestInv, Bound
<1>3. /\ k.incarnation \in 0 .. incarnation /\ k.topology \in 0 .. topology.gen
      /\ k.policy \in 0 .. policyGen /\ k.step \in 0 .. highestStep
  <2>1. Behind(k) BY <1>1 DEF ServedInv, ClientInv, BehindInv
  <2>2. CountInv BY DEF ServedInv, ClientInv
  <2> QED BY ONLY <2>1, <2>2 DEF Behind, CountInv
<1>4. epoch \in 0 .. epoch BY DEF ServedInv, ClientInv, CountInv
<1>5. PICK s : s \in 0 .. highestStep /\ s = IF x # 0 THEN x ELSE k.step BY <1>3
<1>6. Token(c, x) = [epoch |-> k.epoch, incarnation |-> k.incarnation, boot |-> k.boot,
                     topology |-> k.topology, policy |-> k.policy, step |-> s]
  BY ONLY <1>1, <1>5 DEF Token
<1>7. Tokens = [epoch : 0 .. epoch, incarnation : 0 .. incarnation, boot : Boots,
                topology : 0 .. topology.gen, policy : {policyGen + 1} \cup 0 .. policyGen,
                step : 0 .. highestStep]
  BY ONLY AnyAge DEF Tokens, Recent
<1> QED BY ONLY <1>2, <1>3, <1>4, <1>5, <1>6, <1>7

\* The claims of a request to begin a step.
LEMMA SteplessPossible ==
  ASSUME AnyAge, ServedInv, NEW c \in Clients, Connected(c), NEW x
  PROVE  Stepless(Token(c, x)) \in Tokens
<1>1. Stepless(Token(c, x)) = Stepless(Token(c, 0)) BY DEF Stepless, Token
<1>2. Token(c, 0) \in Tokens
  <2>1. 0 \in 0 .. highestStep BY DEF ServedInv, ClientInv, CountInv
  <2> QED BY <2>1, TokenPossible
<1>3. PICK t \in Tokens : t = Token(c, 0) BY <1>2
<1>4. 0 \in 0 .. highestStep BY DEF ServedInv, ClientInv, CountInv
<1>5. Tokens = [epoch : 0 .. epoch, incarnation : 0 .. incarnation, boot : Boots,
                topology : 0 .. topology.gen, policy : {policyGen + 1} \cup 0 .. policyGen,
                step : 0 .. highestStep]
  BY ONLY AnyAge DEF Tokens, Recent
<1>6. Stepless(t) \in Tokens BY ONLY <1>4, <1>5, t \in Tokens DEF Stepless
<1> QED BY <1>1, <1>3, <1>6

\* The step an operation may name was begun.
LEMMA PositionsBegun ==
  ASSUME ServedInv
  PROVE  Positions \subseteq 0 .. highestStep
<1>1. HeldInv /\ CountInv BY DEF ServedInv, RestartInv, RunInv, ClientInv
<1>2. lastClosed <= highestStep /\ (step.id # 0 => step.id = highestStep)
  BY <1>1 DEF HeldInv, StepShape, OpenStepIsHeld
<1> QED BY <1>1, <1>2 DEF Positions, CountInv

LEMMA SentIsPossible ==
  ASSUME AnyAge, ServedInv, NEW c \in Clients, Connected(c), NEW op, NEW r \in Requests(c, op)
  PROVE  Possible(r)
<1>1. Token(c, 0) \in Tokens
  <2>1. 0 \in 0 .. highestStep BY DEF ServedInv, ClientInv, CountInv
  <2> QED BY <2>1, TokenPossible
<1>2. \A x \in Positions : Token(c, x) \in Tokens BY TokenPossible, PositionsBegun
<1>3. groups \subseteq Groups BY DEF ServedInv, RequestInv
<1>4. CASE r \in RegistrationRequests(c, op)
  <2>1. CASE op = "RegisterGroup"
    <3>1. PICK g \in Groups : r = [op |-> op, token |-> Token(c, 0), group |-> g]
      BY <1>4, <2>1 DEF RegistrationRequests
    <3> QED BY ONLY <1>1, <2>1, <3>1 DEF Possible
  <2>2. CASE op = "PublishTopology"
    <3>1. PICK cap \in Evidence : /\ DOMAIN cap \subseteq groups
                                  /\ r = [op |-> op, token |-> Token(c, 0), evidence |-> cap]
      BY <1>4, <2>2 DEF RegistrationRequests
    <3> QED BY ONLY <1>1, <2>2, <3>1 DEF Possible
  <2>3. CASE op = "ApplyPolicy"
    <3>1. PICK k \in DOMAIN Policies : r = [op |-> op, document |-> k]
      BY <1>4, <2>3 DEF RegistrationRequests
    <3> QED BY ONLY <2>3, <3>1 DEF Possible, Tokened
  <2>4. CASE op = "RetireJob"
    <3>1. r = [op |-> op, token |-> Token(c, 0)] BY <1>4, <2>4 DEF RegistrationRequests
    <3> QED BY ONLY <1>1, <2>4, <3>1 DEF Possible
  <2> QED BY <1>4, <2>1, <2>2, <2>3, <2>4 DEF RegistrationRequests
<1>5. CASE r \in LifecycleRequests(c, op)
  <2>1. CASE op = "BeginStep"
    <3>1. PICK x \in Upcoming \ {0} : r = [op |-> op, token |-> Token(c, x)]
      BY <1>5, <2>1 DEF LifecycleRequests
    <3>2. Token(c, x).step = x BY DEF Token
    <3>3. x \in 1 .. MaxStep
      <4>1. x \in 0 .. MaxStep /\ x # 0 BY DEF Upcoming
      <4>2. MaxStep \in Nat BY FabricAssumption DEF FabricAssumption
      <4> QED BY ONLY <4>1, <4>2
    <3>4. Stepless(Token(c, x)) \in Tokens BY SteplessPossible
    <3> QED BY ONLY <2>1, <3>1, <3>2, <3>3, <3>4 DEF Possible
  <2>2. CASE op = "BeginPhase"
    <3>1. PICK cls \in DOMAIN Doc.classOf, g \in Groups :
            r = [op |-> op, token |-> Token(c, 0), cls |-> cls, group |-> g]
      BY <1>5, <2>2 DEF LifecycleRequests
    <3>2. policyGen \in DOMAIN Policies BY DEF ServedInv, RestartInv, RunInv, NumberInv
    <3>3. \A k \in DOMAIN Policies : cls \in DOMAIN Policies[k].classOf
      BY <3>2, PolicyFacts DEF Doc
    <3> QED BY ONLY <1>1, <2>2, <3>1, <3>3 DEF Possible
  <2>3. CASE op = "EndPhase"
    <3>1. PICK p \in 1 .. nextPhase : r = [op |-> op, token |-> Token(c, 0), phase |-> p]
      BY <1>5, <2>3 DEF LifecycleRequests
    <3> QED BY ONLY <1>1, <2>3, <3>1 DEF Possible
  <2>4. CASE op = "EndStep"
    <3>1. r = [op |-> op, token |-> Token(c, 0)] BY <1>5, <2>4 DEF LifecycleRequests
    <3> QED BY ONLY <1>1, <2>4, <3>1 DEF Possible
  <2> QED BY <1>5, <2>1, <2>2, <2>3, <2>4 DEF LifecycleRequests
<1>6. CASE r \in TrafficRequests(c, op)
  <2>1. CASE op = "RequestTraffic"
    <3>1. PICK x \in Positions, p \in 1 .. nextPhase, it \in Intents :
            r = [op |-> op, token |-> Token(c, x), phase |-> p, intent |-> it]
      BY <1>6, <2>1 DEF TrafficRequests
    <3> QED BY ONLY <1>2, <2>1, <3>1 DEF Possible
  <2>2. CASE op = "CompleteFlow"
    <3>1. PICK x \in Positions, i \in Ids, bytes \in Reports, b \in BOOLEAN :
            r = [op |-> op, token |-> Token(c, x), intent |-> i, bytes |-> bytes,
                 cancelled |-> b]
      BY <1>6, <2>2 DEF TrafficRequests
    <3> QED BY ONLY <1>2, <2>2, <3>1 DEF Possible
  <2>3. CASE op = "RevalidateFlow"
    <3>1. PICK x \in Positions, i \in Ids :
            r = [op |-> op, token |-> Token(c, x), intent |-> i]
      BY <1>6, <2>3 DEF TrafficRequests
    <3> QED BY ONLY <1>2, <2>3, <3>1 DEF Possible
  <2>4. CASE op = "BeginCheckpointBurst"
    <3>1. PICK x \in Positions, g \in groups :
            r = [op |-> op, token |-> Token(c, x), group |-> g]
      BY <1>6, <2>4 DEF TrafficRequests
    <3> QED BY ONLY <1>2, <1>3, <2>4, <3>1 DEF Possible
  <2>5. CASE op = "EndCheckpointBurst"
    <3>1. PICK x \in Positions, b \in 1 .. nextBurst :
            r = [op |-> op, token |-> Token(c, x), burst |-> b]
      BY <1>6, <2>5 DEF TrafficRequests
    <3> QED BY ONLY <1>2, <2>5, <3>1 DEF Possible
  <2> QED BY <1>6, <2>1, <2>2, <2>3, <2>4, <2>5 DEF TrafficRequests
<1>7. CASE r \in RecoveryRequests(c, op)
  <2>1. CASE op = "LookupHandle"
    <3>1. r = [op |-> op] BY <1>7, <2>1 DEF RecoveryRequests
    <3> QED BY ONLY <2>1, <3>1 DEF Possible, Tokened
  <2>2. CASE op = "AdmitReplacement"
    <3>1. PICK i \in Recent(incarnation) \ {0}, x \in Upcoming :
            r = [op |-> op, expected |-> i, resume |-> x]
      BY <1>7, <2>2 DEF RecoveryRequests
    <3>2. x \in 0 .. MaxStep BY DEF Upcoming
    <3> QED BY ONLY <2>2, <3>1, <3>2 DEF Possible, Tokened
  <2>3. CASE op = "RetireIncarnation"
    <3>1. r = [op |-> op, token |-> Token(c, 0)] BY <1>7, <2>3 DEF RecoveryRequests
    <3> QED BY ONLY <1>1, <2>3, <3>1 DEF Possible
  <2> QED BY <1>7, <2>1, <2>2, <2>3 DEF RecoveryRequests
<1> QED BY <1>4, <1>5, <1>6, <1>7 DEF Requests

\* What is done for a request that was possible is an operation of the fabric.
LEMMA PerformIsNext ==
  ASSUME RestartInv, NEW s, NEW r, Possible(r), session[s].boot \in Boots, Perform(s, r)
  PROVE  Next \/ UNCHANGED vars
<1> USE DEF Tokened
<1>1. CASE PerformRegistration(r)
  <2>1. Registration BY ONLY <1>1, Possible(r) DEF PerformRegistration, Possible, Registration
  <2> QED BY <2>1 DEF Next
<1>2. CASE PerformLifecycle(r)
  <2>1. CASE r.op = "BeginStep" /\ BeginStep(r.token, r.token.step)
    <3>1. PICK t, x : t = r.token /\ x = r.token.step OBVIOUS
    <3>2. Stepless(t) \in Tokens /\ x \in 1 .. MaxStep
      BY ONLY <2>1, <3>1, Possible(r) DEF Possible
    <3>3. BeginStep(Stepless(t), x)
      BY ONLY <2>1, <3>1 DEF BeginStep, Authorised, Stepless
    <3> QED BY ONLY <3>2, <3>3 DEF Lifecycle, Next
  <2>2. CASE r.op = "BeginPhase" /\ BeginPhase(r.token, r.cls, r.group)
    <3>1. policyGen \in DOMAIN Policies BY DEF RestartInv, RunInv, NumberInv
    <3>2. r.token \in Tokens /\ r.cls \in DOMAIN Doc.classOf /\ r.group \in Groups
      BY ONLY <2>2, <3>1, Possible(r) DEF Possible, Doc
    <3> QED BY ONLY <2>2, <3>2 DEF Lifecycle, Next
  <2>3. CASE r.op = "EndPhase" /\ EndPhase(r.token, r.phase)
    <3>1. r.token \in Tokens /\ r.phase \in 1 .. nextPhase
      BY ONLY <2>3, Possible(r) DEF Possible
    <3> QED BY ONLY <2>3, <3>1 DEF Lifecycle, Next
  <2>4. CASE r.op = "EndStep" /\ EndStep(r.token)
    <3>1. r.token \in Tokens BY ONLY <2>4, Possible(r) DEF Possible
    <3> QED BY ONLY <2>4, <3>1 DEF Lifecycle, Next
  <2> QED BY <1>2, <2>1, <2>2, <2>3, <2>4 DEF PerformLifecycle
<1>3. CASE PerformTraffic(r)
  <2>1. Traffic BY ONLY <1>3, Possible(r) DEF PerformTraffic, Possible, Traffic
  <2> QED BY <2>1 DEF Next
<1>4. CASE PerformRecovery(s, r)
  <2>1. CASE r.op = "AdmitReplacement"
             /\ AdmitReplacement(epoch, r.expected, session[s].boot, r.resume)
    <3>1. epoch \in Nat /\ incarnation \in Nat
      BY DEF RestartInv, RunInv, HeldInv, StepShape
    <3>2. epoch \in Recent(epoch) /\ incarnation \in Recent(incarnation)
      BY ONLY <3>1 DEF Recent
    <3>3. r.expected = incarnation BY ONLY <2>1 DEF AdmitReplacement
    <3>4. r.resume \in 0 .. MaxStep BY ONLY <2>1, Possible(r) DEF Possible
    <3> QED BY ONLY <2>1, <3>2, <3>3, <3>4, session[s].boot \in Boots DEF Recovery, Next
  <2>2. CASE r.op = "RetireIncarnation" /\ RetireIncarnation(r.token)
    <3>1. r.token \in Tokens BY ONLY <2>2, Possible(r) DEF Possible
    <3> QED BY ONLY <2>2, <3>1 DEF Recovery, Next
  <2> QED BY <1>4, <2>1, <2>2 DEF PerformRecovery
<1> QED BY <1>1, <1>2, <1>3, <1>4 DEF Perform

\* Allocators and groups only grow, and evidence is of registered groups.
InputsGrow ==
  /\ AllocatorsGrow
  /\ groups' \subseteq Groups
  /\ DOMAIN topology'.cap \subseteq groups'

LEMMA SameInputs ==
  ASSUME RequestInv, EvidenceInv, UNCHANGED <<configVars, nextPhase, nextIntent, nextBurst>>
  PROVE  InputsGrow
BY DEF InputsGrow, AllocatorsGrow, Grows, RequestInv, EvidenceInv, configVars

LEMMA PerformInputs ==
  ASSUME RequestInv, EvidenceInv, NEW s, NEW r, Possible(r), Perform(s, r)
  PROVE  InputsGrow
<1>1. CASE PerformRegistration(r)
  <2>1. CASE r.op = "RegisterGroup" /\ RegisterGroup(r.token, r.group)
    <3>1. r.group \in Groups BY ONLY <2>1, Possible(r) DEF Possible
    <3>2. /\ groups' = groups \cup {r.group}
          /\ UNCHANGED <<topology, nextPhase, nextIntent, nextBurst>>
      BY ONLY <2>1 DEF RegisterGroup, idVars
    <3> QED BY ONLY <3>1, <3>2, RequestInv, EvidenceInv
      DEF InputsGrow, AllocatorsGrow, Grows, RequestInv, EvidenceInv
  <2>2. CASE r.op = "PublishTopology" /\ PublishTopology(r.token, r.evidence)
    <3>1. DOMAIN r.evidence \subseteq groups BY ONLY <2>2, Possible(r) DEF Possible
    <3>2. /\ topology' = [gen |-> topology.gen + 1, cap |-> r.evidence]
          /\ UNCHANGED <<groups, nextPhase, nextIntent, nextBurst>>
      BY ONLY <2>2 DEF PublishTopology, idVars
    <3> QED BY ONLY <3>1, <3>2, RequestInv, EvidenceInv
      DEF InputsGrow, AllocatorsGrow, Grows, RequestInv, EvidenceInv
  <2>3. CASE r.op = "ApplyPolicy" /\ ApplyPolicy(r.document)
    <3>1. UNCHANGED <<groups, topology, nextPhase, nextIntent, nextBurst>>
      BY ONLY <2>3 DEF ApplyPolicy, idVars
    <3> QED BY ONLY <3>1, RequestInv, EvidenceInv
      DEF InputsGrow, AllocatorsGrow, Grows, RequestInv, EvidenceInv
  <2>4. CASE r.op = "RetireJob" /\ RetireJob(r.token)
    <3>1. UNCHANGED <<configVars, nextPhase, nextIntent, nextBurst>>
      BY ONLY <2>4 DEF RetireJob
    <3> QED BY ONLY <3>1, RequestInv, EvidenceInv, SameInputs
  <2> QED BY ONLY <1>1, <2>1, <2>2, <2>3, <2>4 DEF PerformRegistration
<1>2. CASE PerformLifecycle(r)
  <2>1. CASE r.op = "BeginPhase" /\ BeginPhase(r.token, r.cls, r.group)
    <3>1. nextPhase' = nextPhase + 1 /\ UNCHANGED <<configVars, nextIntent, nextBurst>>
      BY ONLY <2>1 DEF BeginPhase
    <3> QED BY ONLY <3>1, RequestInv, EvidenceInv
      DEF InputsGrow, AllocatorsGrow, Grows, RequestInv, EvidenceInv, configVars
  <2>2. CASE r.op # "BeginPhase"
    <3>1. UNCHANGED <<configVars, nextPhase, nextIntent, nextBurst>>
      BY ONLY <1>2, <2>2 DEF PerformLifecycle, BeginStep, EndPhase, EndStep, idVars
    <3> QED BY ONLY <3>1, RequestInv, EvidenceInv, SameInputs
  <2> QED BY ONLY <1>2, <2>1, <2>2 DEF PerformLifecycle
<1>3. CASE PerformTraffic(r)
  <2>1. CASE r.op = "RequestTraffic" /\ RequestTraffic(r.token, r.phase, r.intent)
    <3>1. nextIntent' = nextIntent + 1 /\ UNCHANGED <<configVars, nextPhase, nextBurst>>
      BY ONLY <2>1 DEF RequestTraffic
    <3> QED BY ONLY <3>1, RequestInv, EvidenceInv
      DEF InputsGrow, AllocatorsGrow, Grows, RequestInv, EvidenceInv, configVars
  <2>2. CASE r.op = "BeginCheckpointBurst" /\ BeginCheckpointBurst(r.token, r.group)
    <3>1. nextBurst' = nextBurst + 1 /\ UNCHANGED <<configVars, nextPhase, nextIntent>>
      BY ONLY <2>2 DEF BeginCheckpointBurst
    <3> QED BY ONLY <3>1, RequestInv, EvidenceInv
      DEF InputsGrow, AllocatorsGrow, Grows, RequestInv, EvidenceInv, configVars
  <2>3. CASE r.op \notin {"RequestTraffic", "BeginCheckpointBurst"}
    <3>1. UNCHANGED <<configVars, nextPhase, nextIntent, nextBurst>>
      BY ONLY <1>3, <2>3
         DEF PerformTraffic, CompleteFlow, RevalidateFlow, EndCheckpointBurst, idVars
    <3> QED BY ONLY <3>1, RequestInv, EvidenceInv, SameInputs
  <2> QED BY ONLY <1>3, <2>1, <2>2, <2>3 DEF PerformTraffic
<1>4. CASE PerformRecovery(s, r)
  <2>1. UNCHANGED <<configVars, nextPhase, nextIntent, nextBurst>>
    BY ONLY <1>4 DEF PerformRecovery, AdmitReplacement, RetireIncarnation, vars, idVars
  <2> QED BY ONLY <2>1, RequestInv, EvidenceInv, SameInputs
<1> QED BY ONLY <1>1, <1>2, <1>3, <1>4, Perform(s, r) DEF Perform

-----------------------------------------------------------------------------
(* Every step is one of Restart.                                           *)

LEMMA ExecuteIsOperation ==
  ASSUME ServedInv, NEW s \in Sessions, Execute(s)
  PROVE  (Operate \/ UNCHANGED <<vars, stored>>) /\ InputsGrow
<1>1. PICK r : r = session[s].request OBVIOUS
<1>2. session[s].at = "received" /\ Perform(s, r) /\ stored' = stored
  BY <1>1 DEF Execute
<1>3. Possible(r) /\ session[s].boot \in Boots BY <1>1, <1>2 DEF ServedInv, RequestInv
<1>4. Next \/ UNCHANGED vars BY <1>2, <1>3, PerformIsNext DEF ServedInv
<1>5. InputsGrow BY <1>2, <1>3, PerformInputs DEF ServedInv
<1>6. DOMAIN topology'.cap \subseteq groups' BY <1>5 DEF InputsGrow
<1> QED BY ONLY <1>2, <1>4, <1>5, <1>6 DEF Operate

LEMMA StepIsRestarts ==
  ASSUME ServedInv, [ClientNext]_clientVars
  PROVE  [RestartNext]_<<vars, stored>>
<1>1. ASSUME NEW c \in Clients, ClientStep(c) PROVE UNCHANGED <<vars, stored>>
  BY ONLY <1>1 DEF ClientStep, Connect, Call, Send, Receive, Disconnect, serverVars, fabricVars
<1>2. ASSUME NEW s \in Sessions, SessionStep(s) PROVE [RestartNext]_<<vars, stored>>
  <2>1. CASE Execute(s) BY <2>1, ExecuteIsOperation DEF RestartNext
  <2>2. CASE CommitEffect(s) BY ONLY <2>2 DEF CommitEffect, Commit, RestartNext
  <2>3. CASE RefuseRequest(s) \/ EndSession(s)
    BY ONLY <2>3 DEF RefuseRequest, EndSession, serverVars, fabricVars
  <2>4. CASE FailCommit(s) BY ONLY <2>4 DEF FailCommit, Commit, RestartNext
  <2> QED BY ONLY <1>2, <2>1, <2>2, <2>3, <2>4 DEF SessionStep
<1>3. CASE CrashAndRestart
  <2>1. stored.epoch \in Nat BY DEF ServedInv, ClientInv, CountInv
  <2>2. MaxEpoch \in Nat BY FabricAssumption DEF FabricAssumption
  <2>3. PICK e : e = stored.epoch + 1 OBVIOUS
  <2>4. stored.epoch < MaxEpoch /\ Restart(e) BY ONLY <1>3, <2>3 DEF CrashAndRestart
  <2>5. e \in 1 .. MaxEpoch BY ONLY <2>1, <2>2, <2>3, <2>4
  <2> QED BY ONLY <2>4, <2>5 DEF RestartNext
<1>4. CASE UNCHANGED clientVars BY ONLY <1>4 DEF clientVars, serverVars, fabricVars
<1> QED BY <1>1, <1>2, <1>3, <1>4 DEF ClientNext

-----------------------------------------------------------------------------
(* And what requests name stays there.                                     *)

LEMMA FabricStays ==
  ASSUME ServedInv, UNCHANGED vars
  PROVE  CountersGrow /\ InputsGrow
<1>1. CountersGrow
  <2>1. UNCHANGED <<epoch, incarnation, topology, policyGen, highestStep>> BY VarsKept
  <2>2. CountInv BY DEF ServedInv, ClientInv
  <2> QED BY ONLY <2>1, <2>2 DEF CountInv, CountersGrow, Grows
<1>2. InputsGrow BY SameInputs DEF ServedInv, vars, idVars
<1> QED BY <1>1, <1>2

LEMMA ExecuteGrows ==
  ASSUME ServedInv, NEW s \in Sessions, Execute(s)
  PROVE  CountersGrow
<1>1. ShapeInv /\ CountInv /\ BehindInv BY DEF ServedInv, ClientInv
<1>2. Executed(s) BY <1>1, ExecuteDoes
<1>3. /\ CountInv' /\ epoch' = epoch /\ incarnation <= incarnation'
      /\ topology.gen <= topology'.gen /\ policyGen <= policyGen'
      /\ highestStep <= highestStep'
  BY ONLY <1>1, <1>2, s \in Sessions, ExecuteCounts
<1> QED BY ONLY <1>1, <1>3 DEF CountInv, CountersGrow, Grows

LEMMA RequestsKept ==
  ASSUME AnyAge, RequestInv, CountersGrow, InputsGrow,
         stored' = stored \/ (stored' = Written /\ UNCHANGED vars),
         \A t \in Sessions : session'[t].at # "free" => session'[t].boot \in Boots,
         \A t \in Sessions : session'[t].at = "received" => Possible(session'[t].request)
  PROVE  RequestInv'
<1>1. ASSUME NEW t \in Sessions, session'[t].at = "received"
      PROVE  Possible(session[t].request)'
  <2>1. PICK r : r = session'[t].request OBVIOUS
  <2>2. Possible(r) BY <1>1, <2>1
  <2>3. Possible(r)' BY <2>2, StaysPossible DEF InputsGrow
  <2> QED BY ONLY <2>1, <2>3 DEF Possible
<1>2. groups' \subseteq Groups /\ {nextPhase', nextIntent', nextBurst'} \subseteq Nat
  BY DEF InputsGrow, AllocatorsGrow, Grows
<1>3. stored'.groups \subseteq Groups
      /\ {stored'.nextPhase, stored'.nextIntent, stored'.nextBurst} \subseteq Nat
  BY DEF Written, RequestInv
<1> QED BY ONLY <1>1, <1>2, <1>3,
           \A t \in Sessions : session'[t].at # "free" => session'[t].boot \in Boots
    DEF RequestInv

LEMMA EvidenceKept ==
  ASSUME EvidenceInv, InputsGrow, stored' = stored \/ (stored' = Written /\ UNCHANGED vars)
  PROVE  EvidenceInv'
BY WrittenConfig DEF EvidenceInv, InputsGrow, vars, configVars

LEMMA CrashKeepsRequests ==
  ASSUME ServedInv, CrashAndRestart
  PROVE  RequestInv' /\ EvidenceInv'
<1>1. /\ groups' = stored.groups /\ topology' = stored.topology
      /\ nextPhase' = stored.nextPhase /\ nextIntent' = stored.nextIntent
      /\ nextBurst' = stored.nextBurst /\ stored' = Written'
      /\ session' = [s \in Sessions |-> Free]
  BY DEF CrashAndRestart, Restart
<1>2. /\ stored'.groups = groups' /\ stored'.topology = topology'
      /\ stored'.nextPhase = nextPhase' /\ stored'.nextIntent = nextIntent'
      /\ stored'.nextBurst = nextBurst'
  BY ONLY <1>1 DEF Written
<1>3. \A s \in Sessions : session'[s].at = "free" BY ONLY <1>1 DEF Free
<1>4. RequestInv /\ EvidenceInv BY DEF ServedInv
<1>5. RequestInv' BY ONLY <1>1, <1>2, <1>3, <1>4 DEF RequestInv
<1>6. EvidenceInv' BY ONLY <1>1, <1>2, <1>4 DEF EvidenceInv
<1> QED BY <1>5, <1>6

\* A step of a process: only what it asks for is new.
LEMMA ClientKeepsRequests ==
  ASSUME AnyAge, ServedInv, NEW c \in Clients, ClientStep(c)
  PROVE  RequestInv' /\ EvidenceInv'
<1> USE DEF Connected
<1>1. UNCHANGED <<vars, stored>>
  BY DEF ClientStep, Connect, Call, Send, Receive, Disconnect, serverVars, fabricVars
<1>2. CountersGrow /\ InputsGrow BY <1>1, FabricStays
<1>3. RequestInv /\ EvidenceInv /\ ShapeInv /\ LinkInv BY DEF ServedInv, ClientInv
<1>4. EvidenceInv' BY <1>1, <1>2, <1>3, EvidenceKept
<1>5. /\ \A t \in Sessions : session[t].at # "free" => session[t].boot \in Boots
      /\ \A t \in Sessions : session[t].at = "received" => Possible(session[t].request)
  BY <1>3 DEF RequestInv
<1>6. CASE \E s \in Sessions : Connect(c, s)
  <2>1. PICK s \in Sessions : Connect(c, s) BY <1>6
  <2>2. PICK b \in Boots :
          session' = [session EXCEPT ![s] = [Free EXCEPT !.at = "open", !.boot = b]]
    BY <2>1 DEF Connect
  <2>3. session'[s].at = "open" /\ session'[s].boot = b BY <1>3, <2>2 DEF ShapeInv, Free
  <2>4. \A t \in Sessions : t # s => session'[t] = session[t] BY <1>3, <2>2 DEF ShapeInv
  <2> QED BY <1>1, <1>2, <1>3, <1>4, <1>5, <2>3, <2>4, RequestsKept
<1>7. CASE \E op \in Calls : Call(c, op)
  <2>1. PICK op \in Calls : \E r \in Requests(c, op) : Send(c, r) BY <1>7 DEF Call
  <2>2. PICK r \in Requests(c, op) : Send(c, r) BY <2>1
  <2>3. Connected(c) /\ Sent(c, r) BY <1>3, <2>2, SendDoes
  <2>4. Possible(r) BY <2>3, SentIsPossible
  <2>5. PICK s \in Sessions : s = client[c].session BY <1>3, <2>3 DEF LinkInv
  <2>6. /\ session[s].at = "open" /\ session'[s].boot = session[s].boot
        /\ session'[s].request = r /\ \A t \in Sessions : t # s => session'[t] = session[t]
    BY <2>3, <2>5 DEF Sent, Staged, OnlySession
  <2>7. \A t \in Sessions : session'[t].at # "free" => session'[t].boot \in Boots
    BY ONLY <1>5, <2>6
  <2>8. \A t \in Sessions : session'[t].at = "received" => Possible(session'[t].request)
    BY ONLY <1>5, <2>4, <2>6
  <2> QED BY ONLY AnyAge, <1>1, <1>2, <1>3, <1>4, <2>7, <2>8, RequestsKept
<1>8. CASE Receive(c)
  <2>1. PICK s \in Sessions : s = client[c].session BY <1>3, <1>8 DEF Receive, LinkInv
  <2>2. /\ session[s].at = "answered"
        /\ session' = [session EXCEPT ![s].at = "open", ![s].request = NoRequest,
                                      ![s].reply = Refusal]
    BY <1>8, <2>1 DEF Receive
  <2>3. /\ session'[s].at = "open" /\ session'[s].boot = session[s].boot
        /\ \A t \in Sessions : t # s => session'[t] = session[t]
    BY ONLY <1>3, <2>2, s \in Sessions DEF ShapeInv, SessionRecord
  <2> QED BY ONLY AnyAge, <1>1, <1>2, <1>3, <1>4, <1>5, <2>2, <2>3, RequestsKept
<1>9. CASE Disconnect(c)
  <2>1. session' = session BY <1>9 DEF Disconnect
  <2> QED BY ONLY AnyAge, <1>1, <1>2, <1>3, <1>4, <1>5, <2>1, RequestsKept
<1> QED BY <1>6, <1>7, <1>8, <1>9 DEF ClientStep

\* A step of a session: it makes no request.
LEMMA SessionKeepsRequests ==
  ASSUME AnyAge, ServedInv, NEW s \in Sessions, SessionStep(s)
  PROVE  RequestInv' /\ EvidenceInv'
<1>1. RequestInv /\ EvidenceInv /\ ShapeInv BY DEF ServedInv, ClientInv
<1>2. /\ \A t \in Sessions : session[t].at # "free" => session[t].boot \in Boots
      /\ \A t \in Sessions : session[t].at = "received" => Possible(session[t].request)
  BY <1>1 DEF RequestInv
<1>3. CASE Execute(s)
  <2>1. Executed(s) BY <1>1, <1>3, ExecuteDoes
  <2>2. /\ session[s].at = "received" /\ session'[s].at # "received"
        /\ session'[s].boot = session[s].boot
        /\ \A t \in Sessions : t # s => session'[t] = session[t]
    BY ONLY <2>1 DEF Executed, OnlySession
  <2>3. stored' = stored BY <1>3 DEF Execute
  <2>4. CountersGrow /\ InputsGrow BY <1>3, ExecuteGrows, ExecuteIsOperation
  <2> QED BY ONLY AnyAge, <1>1, <1>2, <2>2, <2>3, <2>4, RequestsKept, EvidenceKept
<1>4. CASE RefuseRequest(s)
  <2>1. Refused(s) BY <1>1, <1>4, RefuseDoes
  <2>2. /\ session[s].at = "received" /\ session'[s].at = "answered"
        /\ session'[s].boot = session[s].boot
        /\ \A t \in Sessions : t # s => session'[t] = session[t]
    BY ONLY <2>1 DEF Refused, Staged, OnlySession
  <2>3. UNCHANGED <<vars, stored>> BY ONLY <1>4 DEF RefuseRequest, serverVars, fabricVars
  <2>4. CountersGrow /\ InputsGrow BY <2>3, FabricStays
  <2> QED BY ONLY AnyAge, <1>1, <1>2, <2>2, <2>3, <2>4, RequestsKept, EvidenceKept
<1>5. CASE CommitEffect(s)
  <2>1. Durable(s) BY <1>1, <1>5, CommitDoes
  <2>2. /\ session[s].at = "effected" /\ session'[s].at = "answered"
        /\ session'[s].boot = session[s].boot
        /\ \A t \in Sessions : t # s => session'[t] = session[t]
    BY ONLY <2>1 DEF Durable, Staged, OnlySession
  <2>3. stored' = Written /\ UNCHANGED vars BY ONLY <1>5 DEF CommitEffect
  <2>4. CountersGrow /\ InputsGrow BY <2>3, FabricStays
  <2> QED BY ONLY AnyAge, <1>1, <1>2, <2>2, <2>3, <2>4, RequestsKept, EvidenceKept
<1>6. CASE EndSession(s)
  <2>1. Freed(s) BY <1>1, <1>6, EndDoes
  <2>2. /\ session'[s].at = "free"
        /\ \A t \in Sessions : t # s => session'[t] = session[t]
    BY ONLY <2>1 DEF Freed, OnlySession, Free
  <2>3. UNCHANGED <<vars, stored>> BY ONLY <1>6 DEF EndSession, serverVars, fabricVars
  <2>4. CountersGrow /\ InputsGrow BY <2>3, FabricStays
  <2> QED BY ONLY AnyAge, <1>1, <1>2, <2>2, <2>3, <2>4, RequestsKept, EvidenceKept
<1>7. CASE FailCommit(s)
  <2>1. Failed(s) BY <1>1, <1>7, FailDoes
  <2>2. /\ session[s].at = "effected" /\ session'[s].at = "answered"
        /\ session'[s].boot = session[s].boot
        /\ \A t \in Sessions : t # s => session'[t] = session[t]
    BY ONLY <2>1 DEF Failed, Staged, OnlySession
  <2>3. stored' \in {stored, Written} /\ UNCHANGED vars BY ONLY <1>7 DEF FailCommit
  <2>4. CountersGrow /\ InputsGrow BY <2>3, FabricStays
  <2> QED BY ONLY AnyAge, <1>1, <1>2, <2>2, <2>3, <2>4, RequestsKept, EvidenceKept
<1> QED BY <1>3, <1>4, <1>5, <1>6, <1>7 DEF SessionStep

LEMMA InitServed == ClientInit => ServedInv
<1> SUFFICES ASSUME ClientInit PROVE ServedInv
  OBVIOUS
<1>1. RestartInit BY DEF ClientInit
<1>2. ClientInv /\ RestartInv BY <1>1, InitClient, InitRestart
<1>3. /\ groups = {} /\ topology = [gen |-> 0, cap |-> <<>>]
      /\ nextPhase = 1 /\ nextIntent = 1 /\ nextBurst = 1 /\ boot \in Boots /\ stored = Written
  BY ONLY <1>1 DEF RestartInit, Init
<1>4. /\ stored.groups = groups /\ stored.topology = topology /\ stored.nextPhase = nextPhase
      /\ stored.nextIntent = nextIntent /\ stored.nextBurst = nextBurst
  BY ONLY <1>3 DEF Written
<1>5. EvidenceInv BY ONLY <1>3, <1>4 DEF EvidenceInv
<1>6. PICK s \in Sessions :
        session = [r \in Sessions |->
          IF r = s THEN [Free EXCEPT !.at = "open", !.boot = 1, !.incarnation = incarnation]
          ELSE Free]
  BY DEF ClientInit
<1>7. /\ session[s].at = "open" /\ session[s].boot = 1
      /\ \A r \in Sessions : r # s => session[r].at = "free"
  BY ONLY <1>6, s \in Sessions DEF Free
<1>8. 1 \in Boots BY <1>3 DEF ClientInit
<1>9. RequestInv BY ONLY <1>3, <1>4, <1>7, <1>8 DEF RequestInv
<1> QED BY <1>2, <1>5, <1>9 DEF ServedInv

LEMMA NextServed == AnyAge /\ ServedInv /\ [ClientNext]_clientVars => ServedInv'
<1> SUFFICES ASSUME AnyAge, ServedInv, [ClientNext]_clientVars PROVE ServedInv'
  OBVIOUS
<1>1. ClientInv' BY NextClient, StutterClient DEF ServedInv
<1>2. RestartInv'
  <2>1. [RestartNext]_<<vars, stored>> BY StepIsRestarts
  <2> QED BY <2>1, NextRestart DEF ServedInv
<1>3. RequestInv' /\ EvidenceInv'
  <2>1. CASE \E c \in Clients : ClientStep(c) BY <2>1, ClientKeepsRequests
  <2>2. CASE \E s \in Sessions : SessionStep(s) BY <2>2, SessionKeepsRequests
  <2>3. CASE CrashAndRestart BY <2>3, CrashKeepsRequests
  <2>4. CASE UNCHANGED clientVars
    <3>1. session' = session /\ UNCHANGED <<vars, stored>>
      BY ONLY <2>4 DEF clientVars, serverVars, fabricVars
    <3>2. CountersGrow /\ InputsGrow BY <3>1, FabricStays
    <3>3. RequestInv /\ EvidenceInv BY DEF ServedInv
    <3>4. /\ \A t \in Sessions : session[t].at # "free" => session[t].boot \in Boots
          /\ \A t \in Sessions : session[t].at = "received" => Possible(session[t].request)
      BY ONLY <3>3 DEF RequestInv
    <3> QED BY ONLY AnyAge, <3>1, <3>2, <3>3, <3>4, RequestsKept, EvidenceKept
  <2> QED BY <2>1, <2>2, <2>3, <2>4 DEF ClientNext
<1> QED BY <1>1, <1>2, <1>3 DEF ServedInv

(***************************************************************************)
(* Clients, sessions, commits and crashes implement Restart.  A session    *)
(* carries out a request long after it was sent, for a process that may be *)
(* gone or replaced, between the operations of others: it is one operation *)
(* of the fabric on what the fabric is then, or nothing; a commit stores   *)
(* the job as it is, a crash restores what was stored                      *)
(* (dispatch_request, commit_state, Coordinator::Start).                   *)
(***************************************************************************)
THEOREM SessionsServeTheJob ==
  ASSUME AnyAge
  PROVE  ClientSpec => JobIsServed
<1>1. ClientInit => ServedInv BY InitServed
<1>2. ServedInv /\ [ClientNext]_clientVars => ServedInv' BY NextServed
<1>3. ServedInv /\ [ClientNext]_clientVars => [RestartNext]_<<vars, stored>>
  BY StepIsRestarts
<1>4. ClientInit => RestartInit BY DEF ClientInit
<1> QED BY <1>1, <1>2, <1>3, <1>4, PTL DEF ClientSpec, JobIsServed, RestartSpec

LEMMA ServedIsRestorable ==
  ASSUME Contract.maxPhases <= ReaderMax.phases, ServedInv
  PROVE  Restorable
<1>1. PICK w : w = Written OBVIOUS
<1>2. Sound(w) BY <1>1, WrittenIsSound DEF ServedInv, RestartInv
<1>3. DOMAIN w.topology.cap \subseteq w.groups BY <1>1, WrittenConfig DEF ServedInv, EvidenceInv
<1> QED BY <1>1, <1>2, <1>3, SoundIsReadable DEF Restorable

(***************************************************************************)
(* What the fabric keeps it keeps for its clients: whichever sessions and  *)
(* processes a request came through and however late, the open step and    *)
(* the live flows are of the owner of the job, the flows of the policy in  *)
(* force, the books of every phase those of its flows; where the contract  *)
(* allows no more phases than the reader does, the coordinator can be      *)
(* started again on what it would store now, its callers publishing        *)
(* evidence of registered groups only; and a restart changes no more than  *)
(* the epoch and what the phases of the open step have outstanding.        *)
(***************************************************************************)
THEOREM ServedJobsAreKept ==
  ASSUME AnyAge, Contract.maxPhases <= ReaderMax.phases
  PROVE  ClientSpec =>
           /\ [](OpenStepIsHeld /\ LiveFlowsHoldAuthority /\ FlowsMatchPolicy /\ Restorable)
           /\ []PhaseAccountsBalance /\ RoundTripStable
<1>1. ClientInit => ServedInv BY InitServed
<1>2. ServedInv /\ [ClientNext]_clientVars => ServedInv' BY NextServed
<1>3. ServedInv => Restorable BY ServedIsRestorable
<1>4. ClientSpec => RestartSpec BY SessionsServeTheJob DEF JobIsServed
<1> QED
  BY <1>1, <1>2, <1>3, <1>4, AuthorityHoldsAcrossRestarts, ClassesFollowPolicyAcrossRestarts,
     PhaseBooksBalanceAcrossRestarts, RoundTripsAreStable, PTL DEF ClientSpec

(***************************************************************************)
(* Nor can any of them have more granted than the fabric promises: under   *)
(* strict policies and an UNKNOWN ceiling that is not zero, for callers    *)
(* that name registered groups, the links, the ceilings and the bursts     *)
(* hold, and the decisions tell the truth (dispatch_request).              *)
(***************************************************************************)
THEOREM ServedGrantsAreBounded ==
  ASSUME AnyAge, AllStrict, UnknownCapped, RegisteredTrafficOnly
  PROVE  ClientSpec =>
           []( /\ WithinCapacity /\ GrantsWithinCeilings /\ IsolationHolds
               /\ TopologyBound /\ DecisionsAgree /\ UtilizationMatchesFlows)
<1>1. ClientSpec => RestartSpec BY SessionsServeTheJob DEF JobIsServed
<1> QED
  BY <1>1, CapacityHoldsAcrossRestarts, CeilingsHoldAcrossRestarts, BurstsIsolateAcrossRestarts,
     DecisionsTellTheTruthAcrossRestarts, UtilizationIsExactAcrossRestarts, PTL
===============================================================================
