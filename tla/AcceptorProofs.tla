--------------------------- MODULE AcceptorProofs ---------------------------
(***************************************************************************)
(* The number of session threads is bounded, for any set of clients and    *)
(* any max_sessions.                                                       *)
(***************************************************************************)
EXTENDS Acceptor, FiniteSetTheorems, TLAPS

Live == {c \in Clients : thread[c] \notin {"none", "gone"}}

\* Every live thread is in the map or among those being joined, and both together
\* stay within the limit: only the joins make room, and they end before the
\* acceptor counts the sessions again.
ThreadsInv ==
  /\ DOMAIN thread = Clients
  /\ Live \subseteq sessions \cup joining
  /\ IsFiniteSet(sessions \cup joining)
  /\ Cardinality(sessions \cup joining) <= MaxSessions
  /\ acceptor # "join" => joining = {}

LEMMA InitThreads == Init => ThreadsInv
<1> SUFFICES ASSUME Init PROVE ThreadsInv
  OBVIOUS
<1>1. DOMAIN thread = Clients /\ Live = {} /\ joining = {} /\ sessions = {}
  BY DEF Init, Live
<1>2. sessions \cup joining = {} BY <1>1
<1>3. IsFiniteSet({}) /\ Cardinality({}) = 0 BY FS_EmptySet
<1>4. Cardinality({}) <= MaxSessions BY <1>3, AcceptorAssumption DEF AcceptorAssumption
<1> QED BY <1>1, <1>2, <1>3, <1>4 DEF ThreadsInv

\* No step of a session brings a thread to life.
LEMMA SessionsOnlyEnd ==
  ASSUME ThreadsInv, NEW c \in Clients, NEW from, NEW to, from \notin {"none", "gone"},
         Runs(c, from, to), UNCHANGED <<acceptor, joining, sessions>>
  PROVE  ThreadsInv'
<1>1. thread' = [thread EXCEPT ![c] = to] /\ thread[c] = from BY DEF Runs
<1>2. DOMAIN thread' = Clients /\ \A d \in Clients : d # c => thread'[d] = thread[d]
  BY <1>1 DEF ThreadsInv
<1>3. c \in Live BY <1>1 DEF Live
<1>4. Live' \subseteq Live BY <1>2, <1>3 DEF Live
<1> QED BY <1>2, <1>4 DEF ThreadsInv

LEMMA SessionKeepsThreads ==
  ASSUME ThreadsInv, NEW c \in Clients, Session(c)
  PROVE  ThreadsInv'
<1>1. CASE Wait(c) BY <1>1, SessionsOnlyEnd DEF Wait
<1>2. CASE Read(c) BY <1>2, SessionsOnlyEnd DEF Read
<1>3. CASE Handle(c) BY <1>3, SessionsOnlyEnd DEF Handle
<1>4. CASE Reply(c) BY <1>4, SessionsOnlyEnd DEF Reply
<1>5. CASE RequestStop(c) BY <1>5, SessionsOnlyEnd DEF RequestStop
<1>6. CASE Finish(c) BY <1>6, SessionsOnlyEnd DEF Finish
<1>7. CASE Signal(c) BY <1>7, SessionsOnlyEnd DEF Signal
<1> QED BY <1>1, <1>2, <1>3, <1>4, <1>5, <1>6, <1>7 DEF Session

\* Nobody is lost between the map and the joins.
LEMMA CollectKeepsThreads ==
  ASSUME ThreadsInv, joining = {}, joining' = Finished, sessions' = sessions \ Finished,
         thread' = thread, acceptor' = "join"
  PROVE  ThreadsInv'
<1>1. sessions' \cup joining' = sessions \cup joining BY DEF Finished
<1> QED BY <1>1 DEF ThreadsInv, Live

LEMMA JoinKeepsThreads ==
  ASSUME ThreadsInv, Join
  PROVE  ThreadsInv'
<1>1. joining' = {} /\ sessions' = sessions /\ thread' = thread BY DEF Join
<1>2. Live \subseteq sessions BY DEF ThreadsInv, Live, Join
<1>3. sessions \subseteq sessions \cup joining /\ sessions' \cup joining' = sessions
  BY <1>1
<1>4. /\ IsFiniteSet(sessions) /\ Cardinality(sessions) <= Cardinality(sessions \cup joining)
      /\ Cardinality(sessions) \in Nat /\ Cardinality(sessions \cup joining) \in Nat
  BY <1>3, FS_Subset, FS_CardinalityType DEF ThreadsInv
<1>5. Cardinality(sessions) <= MaxSessions
  BY <1>4, AcceptorAssumption DEF ThreadsInv, AcceptorAssumption
<1> QED BY <1>1, <1>2, <1>3, <1>4, <1>5 DEF ThreadsInv, Live

LEMMA AdmitKeepsThreads ==
  ASSUME ThreadsInv, Admit
  PROVE  ThreadsInv'
<1>1. joining = {} /\ joining' = {} /\ acceptor' = "loop"
  BY DEF ThreadsInv, Admit, Accepts
<1>2. CASE Full
  BY <1>1, <1>2 DEF ThreadsInv, Live, Admit
<1>3. CASE ~Full
  <2>1. sessions' = sessions \cup {accepted} /\ thread' = [thread EXCEPT ![accepted] = "waiting"]
    BY <1>3 DEF Admit
  <2>2. sessions \cup joining = sessions /\ sessions' \cup joining' = sessions \cup {accepted}
    BY <1>1, <2>1
  <2>3. IsFiniteSet(sessions) /\ Cardinality(sessions) \in Nat
    BY <2>2, FS_CardinalityType DEF ThreadsInv
  <2>4. /\ IsFiniteSet(sessions \cup {accepted})
        /\ Cardinality(sessions \cup {accepted}) <= Cardinality(sessions) + 1
    BY <2>3, FS_AddElement
  <2>5. Cardinality(sessions) < MaxSessions
    BY <1>3, <2>3, AcceptorAssumption DEF Full, AcceptorAssumption
  <2>6. Cardinality(sessions \cup {accepted}) \in Nat BY <2>4, FS_CardinalityType
  <2>7. Cardinality(sessions \cup {accepted}) <= MaxSessions
    BY <2>3, <2>4, <2>5, <2>6, AcceptorAssumption DEF AcceptorAssumption
  <2>8. DOMAIN thread' = Clients /\ Live' \subseteq Live \cup {accepted}
    BY <2>1 DEF ThreadsInv, Live
  <2> QED BY <1>1, <2>2, <2>4, <2>7, <2>8 DEF ThreadsInv
<1> QED BY <1>2, <1>3

LEMMA JoinAllKeepsThreads ==
  ASSUME ThreadsInv, JoinAll
  PROVE  ThreadsInv'
<1>1. joining = {} /\ joining' = {} /\ sessions' = {} /\ thread' = thread
  BY DEF ThreadsInv, JoinAll, Accepts
<1>2. Live = {} BY <1>1 DEF ThreadsInv, Live, JoinAll
<1>3. IsFiniteSet({}) /\ Cardinality({}) <= MaxSessions
  BY FS_EmptySet, AcceptorAssumption DEF AcceptorAssumption
<1>4. sessions' \cup joining' = {} /\ Live' = {} BY <1>1, <1>2 DEF Live
<1> QED BY <1>1, <1>3, <1>4 DEF ThreadsInv

LEMMA AcceptorKeepsThreads ==
  ASSUME ThreadsInv, RunAcceptor
  PROVE  ThreadsInv'
<1>1. CASE AcceptConnection
  BY <1>1, CollectKeepsThreads DEF AcceptConnection, Accepts, ThreadsInv
<1>2. CASE Drain BY <1>2 DEF Drain, Accepts, ThreadsInv, Live
<1>3. CASE Reap BY <1>3, CollectKeepsThreads DEF Reap, Accepts, ThreadsInv
<1>4. CASE Teardown BY <1>4 DEF Teardown, Accepts, ThreadsInv, Live
<1> QED BY <1>1, <1>2, <1>3, <1>4, JoinKeepsThreads, AdmitKeepsThreads, JoinAllKeepsThreads
        DEF RunAcceptor

LEMMA NextKeepsThreads == ThreadsInv /\ [Next]_vars => ThreadsInv'
<1> SUFFICES ASSUME ThreadsInv, [Next]_vars PROVE ThreadsInv'
  OBVIOUS
<1>1. CASE UNCHANGED <<acceptor, joining, sessions, thread>>
  BY <1>1 DEF ThreadsInv, Live
<1>2. ASSUME NEW c \in Clients, Connect(c) \/ Send(c) PROVE ThreadsInv'
  BY <1>1, <1>2 DEF Connect, Send
<1> QED BY <1>1, <1>2, AcceptorKeepsThreads, SessionKeepsThreads DEF Next, Stop, vars

(***************************************************************************)
(* For any number of clients the threads that are not gone never exceed    *)
(* max_sessions (run_acceptor counts the map, not the threads; reap joins  *)
(* what it takes off the map before the next session is admitted).         *)
(***************************************************************************)
THEOREM ThreadsStayBounded == Spec => []ThreadsBounded
<1>1. ThreadsInv => ThreadsBounded
  <2> SUFFICES ASSUME ThreadsInv PROVE ThreadsBounded
    OBVIOUS
  <2>1. /\ Cardinality(Live) <= Cardinality(sessions \cup joining)
        /\ Cardinality(Live) \in Nat /\ Cardinality(sessions \cup joining) \in Nat
    BY FS_Subset, FS_CardinalityType DEF ThreadsInv
  <2>2. Cardinality(Live) <= MaxSessions
    BY <2>1, AcceptorAssumption DEF ThreadsInv, AcceptorAssumption
  <2> QED BY <2>2 DEF ThreadsBounded, Live
<1> QED BY <1>1, InitThreads, NextKeepsThreads, PTL DEF Spec
=============================================================================
