------------------------------- MODULE Acceptor -------------------------------
(***************************************************************************)
(* The threads of the coordinator: the acceptor waits on the listener and  *)
(* on a wake pair, gives every accepted connection a session thread up to  *)
(* max_sessions, and joins the threads that have finished; Stop and the    *)
(* SHUTDOWN operation set a flag and signal the wake pair, and the         *)
(* acceptor then shuts every socket down and joins every thread.           *)
(*                                                                         *)
(* What a session does with a request is module Coordinator; here a        *)
(* request takes one step, and its reply another.  A client may stop       *)
(* sending at any byte: nothing is assumed of it.                          *)
(***************************************************************************)
EXTENDS Integers, FiniteSets

CONSTANTS
  Clients,        \* connections, each made at most once
  MaxSessions,    \* config.max_sessions
  Nobody

ASSUME AcceptorAssumption == MaxSessions \in Nat /\ Nobody \notin Clients

VARIABLES
  stopping,       \* impl->stopping
  wake,           \* bytes are pending on the wake pair
  backlog,        \* connections the listener has not given out yet
  peer,           \* client -> "away", "quiet", "part" or "whole" of a frame sent, "closed"
  acceptor,       \* where run_acceptor is
  accepted,       \* the connection it has just accepted
  joining,        \* threads it is joining
  sessions,       \* impl->sessions
  thread,         \* client -> where its session thread is
  shut
vars == <<stopping, wake, backlog, peer, acceptor, accepted, joining, sessions,
          thread, shut>>

Init ==
  /\ stopping = FALSE
  /\ wake = FALSE
  /\ backlog = {}
  /\ peer = [c \in Clients |-> "away"]
  /\ acceptor = "loop"
  /\ accepted = Nobody
  /\ joining = {}
  /\ sessions = {}
  /\ thread = [c \in Clients |-> "none"]
  /\ shut = {}
-----------------------------------------------------------------------------
(* Clients, and the thread that calls Stop.                                *)

Connect(c) ==
  /\ peer[c] = "away"
  /\ acceptor # "exited"
  /\ peer' = [peer EXCEPT ![c] = "quiet"]
  /\ backlog' = backlog \cup {c}
  /\ UNCHANGED <<stopping, wake, acceptor, accepted, joining, sessions, thread, shut>>

\* The client sends some bytes of a frame, the rest of it, or hangs up; what
\* it does after the socket was shut down nobody sees.
Send(c) ==
  /\ c \notin shut
  /\ peer' \in {[peer EXCEPT ![c] = now] :
                  now \in CASE peer[c] = "quiet" -> {"part", "whole", "closed"}
                            [] peer[c] = "part" -> {"whole", "closed"}
                            [] OTHER -> {}}
  /\ UNCHANGED <<stopping, wake, backlog, acceptor, accepted, joining, sessions, thread,
                 shut>>

Stop ==
  /\ ~stopping
  /\ stopping' = TRUE
  /\ wake' = TRUE
  /\ UNCHANGED <<backlog, peer, acceptor, accepted, joining, sessions, thread, shut>>
-----------------------------------------------------------------------------
(* run_session, for the connection of c.                                   *)

Runs(c, from, to) == thread[c] = from /\ thread' = [thread EXCEPT ![c] = to]

\* What a read of the socket would return at once: bytes, or the end.
Readable(c) == peer[c] \in {"part", "whole", "closed"} \/ c \in shut
Ended(c) == peer[c] = "closed" \/ c \in shut

\* read_frame waits for the peer or for the stop flag.
Wait(c) ==
  /\ stopping \/ Readable(c)
  /\ Runs(c, "waiting", IF stopping \/ Ended(c) THEN "ending" ELSE "reading")
  /\ UNCHANGED <<stopping, wake, backlog, peer, acceptor, accepted, joining, sessions,
                 shut>>

\* ReceiveExact returns with the whole frame, or because the socket ended; a
\* client that stops in the middle of a frame keeps it waiting.
Read(c) ==
  /\ peer[c] = "whole" \/ Ended(c)
  /\ Runs(c, "reading", IF Ended(c) THEN "ending" ELSE "handling")
  /\ UNCHANGED <<stopping, wake, backlog, peer, acceptor, accepted, joining, sessions,
                 shut>>

\* dispatch_request; SHUTDOWN only leaves a mark for after the reply.
Handle(c) ==
  /\ Runs(c, "handling", "replying") \/ Runs(c, "handling", "replying last")
  /\ peer' = [peer EXCEPT ![c] = IF @ = "whole" THEN "quiet" ELSE @]
  /\ UNCHANGED <<stopping, wake, backlog, acceptor, accepted, joining, sessions, shut>>

\* send_message fails on a socket that was shut down, and may fail when the
\* peer has closed it.
AfterReply(c, sent) ==
  (IF c \in shut THEN {} ELSE {sent}) \cup (IF Ended(c) THEN {"ending"} ELSE {})

Reply(c) ==
  /\ \/ \E to \in AfterReply(c, "waiting") : Runs(c, "replying", to)
     \/ \E to \in AfterReply(c, "stopper") : Runs(c, "replying last", to)
  /\ UNCHANGED <<stopping, wake, backlog, peer, acceptor, accepted, joining, sessions,
                 shut>>

\* The acknowledgement of SHUTDOWN is out: stop the coordinator.
RequestStop(c) ==
  /\ Runs(c, "stopper", "waiting")
  /\ stopping' = TRUE
  /\ wake' = TRUE
  /\ UNCHANGED <<backlog, peer, acceptor, accepted, joining, sessions, shut>>

\* session->finished is set, and then the acceptor is woken.
Finish(c) ==
  /\ Runs(c, "ending", "finished")
  /\ shut' = shut \cup {c}
  /\ UNCHANGED <<stopping, wake, backlog, peer, acceptor, accepted, joining, sessions>>

\* Mutant: the acceptor is not woken.
SignalNobody(c) ==
  /\ Runs(c, "finished", "gone")
  /\ UNCHANGED <<stopping, wake, backlog, peer, acceptor, accepted, joining, sessions,
                 shut>>

Signal(c) ==
  /\ Runs(c, "finished", "gone")
  /\ wake' = TRUE
  /\ UNCHANGED <<stopping, backlog, peer, acceptor, accepted, joining, sessions, shut>>

Session(c) ==
  Wait(c) \/ Read(c) \/ Handle(c) \/ Reply(c) \/ RequestStop(c) \/ Finish(c) \/ Signal(c)
-----------------------------------------------------------------------------
(* run_acceptor.                                                           *)

Accepts(from, to) == acceptor = from /\ acceptor' = to

Finished == {c \in sessions : thread[c] \in {"finished", "gone"}}

\* The listener comes first in the wait set.
AcceptConnection ==
  /\ ~stopping
  /\ Accepts("loop", "join")
  /\ \E c \in backlog :
       /\ backlog' = backlog \ {c}
       /\ accepted' = c
  /\ joining' = Finished
  /\ sessions' = sessions \ Finished
  /\ UNCHANGED <<stopping, wake, peer, thread, shut>>

Drain ==
  /\ ~stopping
  /\ backlog = {}
  /\ wake
  /\ Accepts("loop", "reap")
  /\ wake' = FALSE
  /\ UNCHANGED <<stopping, backlog, peer, accepted, joining, sessions, thread, shut>>

\* reap_finished: the finished sessions leave the map, then they are joined.
Reap ==
  /\ Accepts("reap", "join")
  /\ joining' = Finished
  /\ sessions' = sessions \ Finished
  /\ UNCHANGED <<stopping, wake, backlog, peer, accepted, thread, shut>>

Join ==
  /\ \A c \in joining : thread[c] = "gone"
  /\ Accepts("join", IF accepted = Nobody THEN "loop" ELSE "admit")
  /\ joining' = {}
  /\ UNCHANGED <<stopping, wake, backlog, peer, accepted, sessions, thread, shut>>

\* Mutant: one session too many.
FullAbove == Cardinality(sessions) > MaxSessions
Full == Cardinality(sessions) >= MaxSessions

\* The connection gets a session, or a refusal with Busy.
Admit ==
  /\ Accepts("admit", "loop")
  /\ accepted' = Nobody
  /\ IF Full
     THEN /\ shut' = shut \cup {accepted}
          /\ UNCHANGED <<sessions, thread>>
     ELSE /\ sessions' = sessions \cup {accepted}
          /\ thread' = [thread EXCEPT ![accepted] = "waiting"]
          /\ UNCHANGED shut
  /\ UNCHANGED <<stopping, wake, backlog, peer, joining>>

\* Mutant: teardown joins without shutting the sockets down.
LeaveOpen == UNCHANGED shut
ShutAll == shut' = shut \cup sessions

Teardown ==
  /\ stopping
  /\ Accepts("loop", "teardown")
  /\ ShutAll
  /\ UNCHANGED <<stopping, wake, backlog, peer, accepted, joining, sessions, thread>>

JoinAll ==
  /\ \A c \in sessions : thread[c] = "gone"
  /\ Accepts("teardown", "exited")
  /\ sessions' = {}
  /\ UNCHANGED <<stopping, wake, backlog, peer, accepted, joining, thread, shut>>

RunAcceptor == AcceptConnection \/ Drain \/ Reap \/ Join \/ Admit \/ Teardown \/ JoinAll

Next ==
  \/ RunAcceptor
  \/ Stop
  \/ \E c \in Clients : Connect(c) \/ Send(c) \/ Session(c)

\* Threads of the process are scheduled; clients and Stop owe nothing.
Fairness == WF_vars(RunAcceptor) /\ \A c \in Clients : WF_vars(Session(c))

Spec == Init /\ [][Next]_vars /\ Fairness
-----------------------------------------------------------------------------
(* Properties.                                                             *)

\* Threads never outnumber max_sessions, however connections come and go: a
\* thread counts from its creation until it is gone ("a churn of connect and
\* disconnect cycles cannot accumulate threads", run_acceptor, reap_finished).
ThreadsBounded ==
  Cardinality({c \in Clients : thread[c] \notin {"none", "gone"}}) <= MaxSessions

\* A stop request ends every session thread and the acceptor, also when clients
\* have stopped in the middle of a frame (Stop, run_acceptor, read_frame).
StopCompletes ==
  stopping ~> acceptor = "exited" /\ \A c \in Clients : thread[c] \in {"none", "gone"}

\* A session that has ended is taken off the map and joined, though nothing
\* else ever happens: no wake-up is lost (run_session's end, reap_finished).
FinishedAreReaped ==
  \A c \in Clients : thread[c] = "finished" ~> c \notin sessions /\ c \notin joining
=============================================================================
