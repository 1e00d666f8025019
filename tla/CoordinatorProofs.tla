--------------------------- MODULE CoordinatorProofs ---------------------------
(***************************************************************************)
(* What Coordinator and StateStore keep, for every bound and through any   *)
(* number of crashes, power losses, I/O errors and restarts.               *)
(*                                                                         *)
(* With one session, the state file is whole at every moment: the main     *)
(* thread commits only while no request is being executed, so at most one  *)
(* thread is inside Commit; that thread alone touches the temporary path,  *)
(* never names the live inode by it, and renames only what it has written  *)
(* and flushed.                                                            *)
(*                                                                         *)
(* With any number of sessions, where two threads may write one temporary  *)
(* file and tear it: a degraded coordinator acknowledges nothing; an epoch *)
(* is served by one run only, unless REBASE_EPOCH is allowed, and a whole  *)
(* state can be started from, unless two sessions may race in a rebase.    *)
(*                                                                         *)
(* Last, with one session again: coordinator and store implement module    *)
(* DurableMutations, and the sequence of the state on disk only advances.  *)
(***************************************************************************)
EXTENDS Coordinator, TLAPS

\* Records keep their fields.
HandlerShape ==
  /\ handler = [t \in Threads |-> handler[t]]
  /\ \A t \in Threads :
       handler[t] = [at |-> handler[t].at, op |-> handler[t].op, id |-> handler[t].id,
                     job |-> handler[t].job, incarnation |-> handler[t].incarnation,
                     epoch |-> handler[t].epoch, fabric |-> handler[t].fabric,
                     sequence |-> handler[t].sequence, late |-> handler[t].late]

CallShape ==
  /\ call = [t \in Threads |-> call[t]]
  /\ \A t \in Threads :
       call[t] = [at |-> call[t].at, state |-> call[t].state, handle |-> call[t].handle]

\* Who may be executing what.
Turns ==
  /\ status \in {"down", "starting", "serving", "stopping"}
  /\ \A t \in Threads : call[t].at # "out" => handler[t].at = "storing"
  /\ status \in {"down", "starting"} => \A s \in Sessions : handler[s].at = "idle"
  /\ status \in {"down", "serving"} => handler[Main].at = "idle"
  /\ handler[Main].at # "idle" => \A s \in Sessions : handler[s].at = "idle"

TurnInv == HandlerShape /\ CallShape /\ Turns

OneCaller ==
  \A t, u \in Threads : call[t].at # "out" /\ call[u].at # "out" => t = u

\* What the thread inside Commit knows of the temporary file.
Written1 == \A t \in Threads :
  /\ call[t].at = "write" =>
       temporary \in Inodes /\ call[t].handle = temporary /\ content[temporary] = Torn
  /\ call[t].at # "write" => call[t].handle = Absent
  /\ call[t].at # "out" => call[t].state # Torn
  /\ call[t].at \in {"flush", "replace"} =>
       temporary \in Inodes /\ content[temporary] # Torn
  /\ call[t].at = "replace" => temporary \in synced

\* The paths name inodes, and never the same one.
Paths ==
  /\ content = [i \in Inodes |-> content[i]]
  /\ {live, liveOnDisk, temporary} \subseteq Inodes \cup {Absent}
  /\ temporary # Absent => temporary \notin {live, liveOnDisk}

FileInv == Paths /\ Written1 /\ LiveIsWhole

\* No state is the model value for a torn file.
StatesAreNotTorn ==
  \A e, q, f : [epoch |-> e, sequence |-> q, fabric |-> f] # Torn
-----------------------------------------------------------------------------
LEMMA GoesFacts ==
  ASSUME HandlerShape, NEW t \in Threads, NEW at, Goes(t, at)
  PROVE  HandlerShape' /\ handler'[t].at = at
         /\ \A u \in Threads \ {t} : handler'[u] = handler[u]
BY DEF HandlerShape, Goes

LEMMA RepliesFacts ==
  ASSUME HandlerShape, NEW t \in Threads, Replies(t)
  PROVE  HandlerShape' /\ handler'[t].at = "idle"
         /\ \A u \in Threads \ {t} : handler'[u] = handler[u]
BY DEF HandlerShape, Replies, Idle

LEMMA MovedFacts ==
  ASSUME CallShape, NEW t \in Threads, NEW at, Moved(t, at)
  PROVE  CallShape' /\ call'[t].at = at /\ call'[t].state = call[t].state
         /\ call'[t].handle = call[t].handle
         /\ \A u \in Threads \ {t} : call'[u] = call[u]
BY DEF CallShape, Moved

LEMMA ReturnFacts ==
  ASSUME CallShape, NEW t \in Threads, Return(t)
  PROVE  CallShape' /\ call'[t] = NoCall
         /\ \A u \in Threads \ {t} : call'[u] = call[u]
BY DEF CallShape, Return, NoCall

LEMMA HoldingFacts ==
  ASSUME CallShape, NEW t \in Threads, NEW at, NEW handle, Holding(t, at, handle)
  PROVE  CallShape' /\ call'[t].at = at /\ call'[t].state = call[t].state
         /\ call'[t].handle = handle
         /\ \A u \in Threads \ {t} : call'[u] = call[u]
BY DEF CallShape, Holding

\* A step of Commit stays inside Commit and touches its own call only.
LEMMA StoreStepFacts ==
  ASSUME CallShape, NEW t \in Threads, StoreStep(t)
  PROVE  CallShape' /\ call[t].at # "out" /\ call'[t].at # "out"
         /\ \A u \in Threads \ {t} : call'[u] = call[u]
<1>1. CASE OpenTemporary(t)
  <2>1. PICK handle : Holding(t, "write", handle)
    BY <1>1 DEF OpenTemporary
  <2> QED BY <1>1, <2>1, HoldingFacts DEF OpenTemporary
<1>2. CASE WriteTemporary(t)
  <2>1. Holding(t, "flush", Absent) /\ call[t].at # "out"
    BY <1>2 DEF WriteTemporary
  <2> QED BY <2>1, HoldingFacts
<1>3. CASE FlushTemporary(t) \/ Replace(t) \/ FlushDirectory(t) \/ Vanished(t)
  BY <1>3, MovedFacts DEF FlushTemporary, Replace, FlushDirectory, Vanished
<1>4. CASE IoError(t)
  <2>1. Holding(t, "failed", Absent) /\ call[t].at # "out"
    BY <1>4 DEF IoError, ShortWrite
  <2> QED BY <2>1, HoldingFacts
<1> QED BY <1>1, <1>2, <1>3, <1>4 DEF StoreStep
-----------------------------------------------------------------------------
(* Turns: the main thread and the sessions take turns.                     *)

LEMMA InitTurns == ASSUME Init PROVE TurnInv
<1> USE CoordinatorAssumption
<1>1. HandlerShape
  BY DEF Init, HandlerShape, Idle
<1>2. CallShape
  BY DEF Init, StoreInit, CallShape, NoCall
<1>3. Turns
  BY DEF Init, StoreInit, Turns, Idle, NoCall
<1> QED BY <1>1, <1>2, <1>3 DEF TurnInv

\* A step that leaves calls alone and moves one thread that is in no call.
LEMMA MoveTurns ==
  ASSUME TurnInv, HandlerShape', UNCHANGED call, NEW t \in Threads,
         handler[t].at # "storing" \/ call[t].at = "out",
         \A u \in Threads \ {t} : handler'[u] = handler[u],
         \/ UNCHANGED status /\ status # "down"
         \/ status = "starting" /\ status' = "serving" /\ handler'[t].at = "idle",
         t = Main => status \in {"starting", "stopping"}
                     /\ (status = "serving" => handler'[t].at = "idle")
                     /\ \A s \in Sessions : handler[s].at = "idle",
         t # Main => /\ status \in {"serving", "stopping"}
                     /\ handler[Main].at = "idle"
  PROVE  TurnInv'
<1> USE CoordinatorAssumption
<1>1. CallShape'
  BY DEF TurnInv, CallShape
<1>2. \A u \in Threads : call[u].at # "out" => handler'[u].at = "storing"
  BY DEF TurnInv, Turns
<1> QED BY <1>1, <1>2 DEF TurnInv, Turns

\* While a session executes a request the main thread does nothing, and the
\* other way round.
LEMMA SessionBusy ==
  ASSUME TurnInv, NEW s \in Sessions, handler[s].at # "idle"
  PROVE  /\ status \in {"serving", "stopping"}
         /\ handler[Main].at = "idle"
         /\ s # Main
BY CoordinatorAssumption DEF TurnInv, Turns

LEMMA MainBusy ==
  ASSUME TurnInv, handler[Main].at # "idle"
  PROVE  /\ status \in {"starting", "stopping"}
         /\ \A s \in Sessions : handler[s].at = "idle"
BY CoordinatorAssumption DEF TurnInv, Turns

\* What MoveTurns asks of a step of a busy thread that leaves status alone.
LEMMA BusyTurns ==
  ASSUME TurnInv, HandlerShape', UNCHANGED <<call, status>>, NEW t \in Threads,
         handler[t].at # "idle",
         handler[t].at # "storing" \/ call[t].at = "out",
         \A u \in Threads \ {t} : handler'[u] = handler[u]
  PROVE  TurnInv'
BY CoordinatorAssumption, SessionBusy, MainBusy, MoveTurns

LEMMA SnapshotFacts ==
  ASSUME HandlerShape, NEW t \in Threads, TakeSnapshot(t) \/ ReadSequence(t)
  PROVE  HandlerShape' /\ \A u \in Threads \ {t} : handler'[u] = handler[u]
BY DEF HandlerShape, TakeSnapshot, ReadSequence

\* A step of a thread inside commit_state.
LEMMA CommitTurns ==
  ASSUME TurnInv, NEW t \in Threads, CommitNext(t)
  PROVE  TurnInv'
<1> USE DEF TurnInv
<1>1. CASE CheckDegraded(t)
  BY <1>1, GoesFacts, RepliesFacts, BusyTurns DEF CheckDegraded, storeVars
<1>2. CASE TakeSnapshot(t) \/ ReadSequence(t)
  BY <1>2, SnapshotFacts, BusyTurns DEF TakeSnapshot, ReadSequence, storeVars
<1>3. CASE CallStore(t)
  <2>1. HandlerShape' /\ handler'[t].at = "storing" /\ handler[t].at = "sequenced"
        /\ \A u \in Threads \ {t} : handler'[u] = handler[u]
    BY <1>3, GoesFacts DEF CallStore
  <2>2. CallShape' /\ \A u \in Threads \ {t} : call'[u] = call[u]
    BY <1>3 DEF CallStore, Call, CallShape
  <2>3. UNCHANGED status
    BY <1>3 DEF CallStore
  <2> QED BY <2>1, <2>2, <2>3, CoordinatorAssumption DEF Turns
<1>4. CASE InStore(t)
  BY <1>4, StoreStepFacts, CoordinatorAssumption DEF InStore, Turns, HandlerShape
<1>5. CASE RecordCommit(t)
  <2>1. HandlerShape' /\ handler'[t].at = "committed" /\ handler[t].at = "storing"
        /\ \A u \in Threads \ {t} : handler'[u] = handler[u]
    BY <1>5, GoesFacts DEF RecordCommit
  <2>2. CallShape' /\ call'[t].at = "out" /\ \A u \in Threads \ {t} : call'[u] = call[u]
    BY <1>5, ReturnFacts DEF RecordCommit, NoCall
  <2>3. UNCHANGED status
    BY <1>5 DEF RecordCommit
  <2> QED BY <2>1, <2>2, <2>3, CoordinatorAssumption DEF Turns
<1> QED BY <1>1, <1>2, <1>3, <1>4, <1>5 DEF CommitNext

\* A request is received by an idle session of a serving coordinator.
LEMMA ReceiveTurns ==
  ASSUME TurnInv, NEW s \in Sessions, NEW op, NEW job, NEW incarnation, NEW e,
         Receive(s, op, job, incarnation, e)
  PROVE  TurnInv'
<1> USE CoordinatorAssumption
<1>1. /\ HandlerShape'
      /\ \A u \in Threads \ {s} : handler'[u] = handler[u]
  BY DEF TurnInv, HandlerShape, Receive, Idle
<1>2. /\ UNCHANGED <<call, status>>
      /\ status = "serving"
      /\ handler[s].at = "idle"
  BY DEF Receive, CanReceive, storeVars
<1>3. handler[Main].at = "idle" /\ s # Main
  BY <1>2 DEF TurnInv, Turns
<1> QED BY <1>1, <1>2, <1>3, MoveTurns

\* Every step of a session.
LEMMA SessionTurns ==
  ASSUME TurnInv, NEW s \in Sessions, SessionNext(s)
  PROVE  TurnInv'
<1> USE CoordinatorAssumption
<1>1. CASE \/ \E b \in Boots : Hello(s, b)
           \/ Disconnect(s)
           \/ \E j \in DOMAIN fabric.jobs : LookupHandle(s, j)
  <2>1. UNCHANGED <<call, status, handler>>
    BY <1>1 DEF Hello, Disconnect, LookupHandle, storeVars
  <2> QED BY <2>1 DEF TurnInv, HandlerShape, CallShape, Turns
<1>2. CASE \/ \E j \in DOMAIN fabric.jobs : ReceiveAdmitReplacement(s, j)
           \/ ReceiveRegisterJob(s)
           \/ ReceiveMutate(s)
           \/ \E e \in 1..MaxEpoch : ReceiveRebaseEpoch(s, e)
  BY <1>2, ReceiveTurns
     DEF ReceiveAdmitReplacement, ReceiveRegisterJob, ReceiveMutate, ReceiveRebaseEpoch
<1>3. CASE Effect(s)
  <2>1. /\ HandlerShape'
        /\ \A u \in Threads \ {s} : handler'[u] = handler[u]
    <3>1. PICK after \in Effects(s, handler[s]) :
            handler' = [handler EXCEPT
              ![s] = [handler[s] EXCEPT
                        !.at = IF handler[s].op = "rebase" THEN "rebased" ELSE "effected",
                        !.job = Granted(handler[s], after).job,
                        !.incarnation = Granted(handler[s], after).incarnation]]
      BY <1>3 DEF Effect
    <3> QED BY <3>1 DEF TurnInv, HandlerShape
  <2> QED BY <1>3, <2>1, BusyTurns DEF Effect, storeVars
<1>4. CASE Refuse(s)
  BY <1>4, RepliesFacts, BusyTurns DEF TurnInv, Refuse, storeVars
<1>5. CASE SetEpoch(s)
  BY <1>5, GoesFacts, BusyTurns DEF TurnInv, SetEpoch, storeVars
<1>6. CASE FailCommit(s)
  <2>1. /\ HandlerShape'
        /\ handler[s].at = "storing" /\ handler'[s].at = "idle"
        /\ \A u \in Threads \ {s} : handler'[u] = handler[u]
    BY <1>6, RepliesFacts DEF TurnInv, FailCommit
  <2>2. /\ CallShape'
        /\ call'[s].at = "out"
        /\ \A u \in Threads \ {s} : call'[u] = call[u]
    BY <1>6, ReturnFacts DEF TurnInv, FailCommit, NoCall
  <2>3. UNCHANGED status /\ status \in {"serving", "stopping"} /\ handler[Main].at = "idle"
    BY <1>6, SessionBusy DEF FailCommit
  <2> QED BY <2>1, <2>2, <2>3 DEF TurnInv, Turns
<1>7. CASE Reply(s)
  BY <1>7, RepliesFacts, BusyTurns DEF TurnInv, Reply, storeVars
<1> QED BY <1>1, <1>2, <1>3, <1>4, <1>5, <1>6, <1>7 DEF SessionNext

\* The process is gone, with every thread.
LEMMA GoneTurns ==
  ASSUME Gone, call' = [t \in Threads |-> NoCall]
  PROVE  TurnInv'
BY CoordinatorAssumption
   DEF Gone, TurnInv, HandlerShape, CallShape, Turns, Idle, NoCall

\* Every step of the main thread.
LEMMA MainTurns ==
  ASSUME TurnInv, MainNext
  PROVE  TurnInv'
<1> USE CoordinatorAssumption
<1>1. CASE Start
  <2>1. /\ status = "down" /\ status' = "starting"
        /\ Goes(Main, "effected")
        /\ UNCHANGED call
    BY <1>1 DEF Start, Boot, storeVars
  <2>2. /\ HandlerShape' /\ handler'[Main].at = "effected"
        /\ \A u \in Threads \ {Main} : handler'[u] = handler[u]
    BY <2>1, GoesFacts DEF TurnInv
  <2> QED BY <2>1, <2>2 DEF TurnInv, CallShape, Turns
<1>2. CASE Serve
  BY <1>2, RepliesFacts, MainBusy, MoveTurns DEF TurnInv, Serve, storeVars
<1>3. CASE Stop
  BY <1>3 DEF Stop, storeVars, TurnInv, HandlerShape, CallShape, Turns
<1>4. CASE FinalCommit
  BY <1>4, GoesFacts, MoveTurns DEF TurnInv, FinalCommit, Joined, storeVars
<1>5. CASE Exit \/ Crash
  BY <1>5, GoneTurns DEF Exit, Crash, ProcessDies, PowerFails
<1> QED BY <1>1, <1>2, <1>3, <1>4, <1>5 DEF MainNext

LEMMA NextTurns ==
  ASSUME TurnInv, [Next]_vars
  PROVE  TurnInv'
<1>1. CASE UNCHANGED vars
  BY <1>1 DEF vars, storeVars, TurnInv, HandlerShape, CallShape, Turns
<1> QED BY <1>1, MainTurns, SessionTurns, CommitTurns DEF Next

\* With one session there are two threads, and they take turns.
LEMMA OneThreadCommits ==
  ASSUME TurnInv, NEW only, Sessions = {only}
  PROVE  OneCaller
BY CoordinatorAssumption DEF TurnInv, Turns, OneCaller
-----------------------------------------------------------------------------
(* Files: what the paths name and what the inodes hold.                    *)

LEMMA InitFiles == ASSUME Init PROVE FileInv
BY DEF Init, StoreInit, FileInv, Paths, Written1, LiveIsWhole, NoCall

\* A step of the only thread inside Commit.
LEMMA StoreFiles ==
  ASSUME FileInv, CallShape, OneCaller, NEW t \in Threads, StoreStep(t)
  PROVE  FileInv'
<1> USE StoreAssumption
<1>0. /\ call[t].at # "out"
      /\ \A u \in Threads \ {t} : call'[u] = call[u] /\ call[u].at = "out"
  BY StoreStepFacts DEF OneCaller
<1>1. CASE OpenTemporary(t)
  <2> DEFINE inode == IF temporary = Absent THEN Fresh ELSE temporary
  <2>1. /\ temporary' = inode
        /\ content' = [content EXCEPT ![inode] = Torn]
        /\ synced' = synced \ {inode}
        /\ Holding(t, "write", inode)
        /\ UNCHANGED <<live, liveOnDisk>>
    BY <1>1 DEF OpenTemporary
  <2>2. inode \in Inodes /\ inode \notin {live, liveOnDisk}
    <3>1. CASE temporary = Absent
      <4>1. Fresh \in Unused
        BY <1>1, <3>1 DEF OpenTemporary, Fresh
      <4> QED BY <3>1, <4>1 DEF Unused, Referenced
    <3>2. CASE temporary # Absent
      BY <3>2 DEF FileInv, Paths
    <3> QED BY <3>1, <3>2
  <2>3. /\ call'[t].at = "write"
        /\ call'[t].state = call[t].state
        /\ call'[t].handle = inode
    BY <2>1, HoldingFacts
  <2> HIDE DEF inode
  <2>4. Paths'
    BY <2>1, <2>2 DEF FileInv, Paths
  <2>5. LiveIsWhole'
    BY <2>1, <2>2 DEF FileInv, Paths, LiveIsWhole
  <2>6. Written1'
    BY <1>0, <2>1, <2>2, <2>3 DEF FileInv, Paths, Written1
  <2> QED BY <2>4, <2>5, <2>6 DEF FileInv
<1>2. CASE WriteTemporary(t)
  <2>1. call[t].at = "write" /\ call[t].handle = temporary
        /\ temporary \in Inodes /\ content[temporary] = Torn /\ call[t].state # Torn
    BY <1>2 DEF WriteTemporary, FileInv, Written1
  <2>2. /\ content' = [content EXCEPT ![temporary] = call[t].state]
        /\ synced' = synced \ {temporary}
        /\ UNCHANGED <<live, liveOnDisk, temporary>>
    BY <1>2, <2>1 DEF WriteTemporary, Written
  <2>3. /\ call'[t].at = "flush"
        /\ call'[t].state = call[t].state
        /\ call'[t].handle = Absent
    BY <1>2, HoldingFacts DEF WriteTemporary
  <2>4. Paths'
    BY <2>1, <2>2 DEF FileInv, Paths
  <2>5. LiveIsWhole'
    BY <2>1, <2>2 DEF FileInv, Paths, LiveIsWhole
  <2>6. Written1'
    BY <1>0, <2>1, <2>2, <2>3 DEF FileInv, Paths, Written1
  <2> QED BY <2>4, <2>5, <2>6 DEF FileInv
<1>3. CASE FlushTemporary(t)
  <2>1. /\ call[t].at = "flush" /\ call'[t].at = "replace"
        /\ call'[t].state = call[t].state /\ call'[t].handle = call[t].handle
        /\ synced' = synced \cup {temporary}
        /\ UNCHANGED <<content, live, liveOnDisk, temporary>>
    BY <1>3, MovedFacts DEF FlushTemporary
  <2> QED BY <1>0, <2>1 DEF FileInv, Paths, LiveIsWhole, Written1
<1>4. CASE Replace(t)
  <2>1. /\ call[t].at = "replace" /\ call'[t].at = "directory"
        /\ call'[t].state = call[t].state /\ call'[t].handle = call[t].handle
        /\ live' = temporary /\ temporary' = Absent
        /\ UNCHANGED <<content, synced, liveOnDisk>>
    BY <1>4, MovedFacts DEF Replace
  <2> QED BY <1>0, <2>1 DEF FileInv, Paths, LiveIsWhole, Written1
<1>5. CASE FlushDirectory(t) \/ Vanished(t)
  <2>1. /\ call[t].at \in {"directory", "flush", "replace"}
        /\ call'[t].at \in {"done", "failed"}
        /\ call'[t].state = call[t].state /\ call'[t].handle = call[t].handle
        /\ liveOnDisk' \in {live, liveOnDisk}
        /\ UNCHANGED <<content, synced, live, temporary>>
    BY <1>5, MovedFacts DEF FlushDirectory, Vanished, disk
  <2> QED BY <1>0, <2>1 DEF FileInv, Paths, LiveIsWhole, Written1
<1>6. CASE IoError(t)
  <2>1. /\ call'[t].at = "failed"
        /\ call'[t].state = call[t].state /\ call'[t].handle = Absent
        /\ UNCHANGED <<live, liveOnDisk>>
    BY <1>6, HoldingFacts DEF IoError
  <2>2. CASE UNCHANGED <<content, synced, temporary>>
    BY <1>0, <2>1, <2>2 DEF FileInv, Paths, LiveIsWhole, Written1
  <2>3. CASE ShortWrite(t)
    BY <1>0, <2>1, <2>3 DEF ShortWrite, FileInv, Paths, LiveIsWhole, Written1
  <2> QED BY <1>6, <2>2, <2>3 DEF IoError
<1> QED BY <1>1, <1>2, <1>3, <1>4, <1>5, <1>6 DEF StoreStep

\* The process or the machine dies between any two steps of Commit.
LEMMA DeathFiles ==
  ASSUME FileInv, ProcessDies \/ PowerFails
  PROVE  FileInv'
<1> USE StoreAssumption
<1>1. CASE ProcessDies
  BY <1>1 DEF ProcessDies, disk, NoCall, FileInv, Paths, LiveIsWhole, Written1
<1>2. CASE PowerFails
  <2>1. \A i \in synced \cap Inodes : content'[i] = content[i]
    BY <1>2 DEF PowerFails
  <2>2. content' = [i \in Inodes |-> content'[i]] /\ UNCHANGED synced
    BY <1>2 DEF PowerFails
  <2>3. live' \in {live, liveOnDisk} /\ liveOnDisk' = live'
    BY <1>2 DEF PowerFails
  <2>4. Paths'
    BY <1>2, <2>2, <2>3 DEF PowerFails, FileInv, Paths
  <2>5. LiveIsWhole'
    BY <2>1, <2>2, <2>3 DEF FileInv, Paths, LiveIsWhole
  <2>6. Written1'
    BY <1>2 DEF PowerFails, NoCall, Written1
  <2> QED BY <2>4, <2>5, <2>6 DEF FileInv
<1> QED BY <1>1, <1>2

\* Steps outside Commit leave the files alone.
LEMMA OtherFiles ==
  ASSUME FileInv, UNCHANGED <<disk, call>>
  PROVE  FileInv'
BY DEF disk, FileInv, Paths, LiveIsWhole, Written1

LEMMA CommitFiles ==
  ASSUME StatesAreNotTorn, FileInv, CallShape, OneCaller,
         NEW t \in Threads, CommitNext(t)
  PROVE  FileInv'
<1>1. CASE CheckDegraded(t) \/ TakeSnapshot(t) \/ ReadSequence(t)
  BY <1>1, OtherFiles DEF CheckDegraded, TakeSnapshot, ReadSequence, storeVars, disk
<1>2. CASE CallStore(t)
  <2>1. /\ call'[t].at \in {"open", "failed"}
        /\ call'[t].state = StateToStore(t) /\ call'[t].handle = Absent
        /\ \A u \in Threads \ {t} : call'[u] = call[u]
        /\ UNCHANGED disk
    BY <1>2 DEF CallStore, Call, CallShape
  <2>2. StateToStore(t) # Torn
    BY DEF StatesAreNotTorn, StateToStore
  <2> QED BY <2>1, <2>2 DEF disk, FileInv, Paths, LiveIsWhole, Written1
<1>3. CASE InStore(t)
  BY <1>3, StoreFiles DEF InStore
<1>4. CASE RecordCommit(t)
  BY <1>4, ReturnFacts
     DEF RecordCommit, NoCall, disk, FileInv, Paths, LiveIsWhole, Written1
<1> QED BY <1>1, <1>2, <1>3, <1>4 DEF CommitNext

LEMMA SessionFiles ==
  ASSUME FileInv, CallShape, NEW s \in Sessions, SessionNext(s)
  PROVE  FileInv'
<1>1. CASE FailCommit(s)
  BY <1>1, ReturnFacts, CoordinatorAssumption
     DEF FailCommit, NoCall, disk, FileInv, Paths, LiveIsWhole, Written1
<1>2. CASE ~FailCommit(s)
  <2>1. UNCHANGED <<disk, call>>
    BY <1>2 DEF SessionNext, Hello, Disconnect, LookupHandle, ReceiveAdmitReplacement,
      ReceiveRegisterJob, ReceiveMutate, ReceiveRebaseEpoch, Receive, Effect, Refuse,
      SetEpoch, Reply, storeVars, disk
  <2> QED BY <2>1, OtherFiles
<1> QED BY <1>1, <1>2

LEMMA NextFiles ==
  ASSUME StatesAreNotTorn, FileInv, CallShape, OneCaller, [Next]_vars
  PROVE  FileInv'
<1>1. CASE UNCHANGED vars
  BY <1>1, OtherFiles DEF vars, storeVars, disk
<1>2. CASE MainNext
  <2>1. CASE Exit \/ Crash
    BY <2>1, DeathFiles DEF Exit, Crash
  <2>2. CASE Start \/ Serve \/ Stop \/ FinalCommit
    BY <2>2, OtherFiles DEF Start, Boot, Serve, Stop, FinalCommit, storeVars, disk
  <2> QED BY <1>2, <2>1, <2>2 DEF MainNext
<1> QED BY <1>1, <1>2, SessionFiles, CommitFiles DEF Next

\* The state file is whole at every moment, whatever died when: "never a
\* mixture" (persistence.hpp, StateStore::Commit).  The hypothesis is needed:
\* with two sessions two threads write one temporary file.
THEOREM LiveStateIsWhole ==
  ASSUME NEW only, Sessions = {only}, StatesAreNotTorn
  PROVE  Spec => []LiveIsWhole
<1>1. Init => TurnInv /\ FileInv
  BY InitTurns, InitFiles
<1>2. TurnInv /\ FileInv /\ [Next]_vars => TurnInv' /\ FileInv'
  BY NextTurns, NextFiles, OneThreadCommits DEF TurnInv
<1>3. FileInv => LiveIsWhole
  BY DEF FileInv
<1> QED BY <1>1, <1>2, <1>3, PTL DEF Spec
-----------------------------------------------------------------------------
(* Any number of sessions, whose threads may tear the file they write.     *)

\* A thread that goes on keeps what it is executing.
LEMMA GoesKeeps ==
  ASSUME HandlerShape, NEW t \in Threads, NEW at, Goes(t, at)
  PROVE  /\ handler'[t].at = at /\ handler'[t].id = handler[t].id
         /\ handler'[t].late = handler[t].late /\ handler'[t].op = handler[t].op
         /\ \A u \in Threads \ {t} : handler'[u] = handler[u]
BY DEF HandlerShape, Goes

LEMMA RepliesKeeps ==
  ASSUME HandlerShape, NEW t \in Threads, Replies(t)
  PROVE  /\ handler'[t] = Idle
         /\ \A u \in Threads \ {t} : handler'[u] = handler[u]
BY DEF HandlerShape, Replies

LEMMA SnapshotKeeps ==
  ASSUME HandlerShape, NEW t \in Threads, TakeSnapshot(t) \/ ReadSequence(t)
  PROVE  /\ handler'[t].at \in {"snapshot", "sequenced"} /\ handler'[t].id = handler[t].id
         /\ handler'[t].late = handler[t].late /\ handler'[t].op = handler[t].op
         /\ \A u \in Threads \ {t} : handler'[u] = handler[u]
BY DEF HandlerShape, TakeSnapshot, ReadSequence

LEMMA EffectKeeps ==
  ASSUME HandlerShape, NEW s \in Sessions, Effect(s)
  PROVE  /\ handler'[s].at = (IF handler[s].op = "rebase" THEN "rebased" ELSE "effected")
         /\ handler'[s].id = handler[s].id
         /\ handler'[s].late = handler[s].late /\ handler'[s].op = handler[s].op
         /\ handler'[s].epoch = handler[s].epoch
         /\ \A u \in Threads \ {s} : handler'[u] = handler[u]
<1>1. PICK after \in Effects(s, handler[s]) :
        handler' = [handler EXCEPT
          ![s] = [handler[s] EXCEPT
                    !.at = IF handler[s].op = "rebase" THEN "rebased" ELSE "effected",
                    !.job = Granted(handler[s], after).job,
                    !.incarnation = Granted(handler[s], after).incarnation]]
  BY DEF Effect
<1> DEFINE at == IF handler[s].op = "rebase" THEN "rebased" ELSE "effected"
           job == Granted(handler[s], after).job
           incarnation == Granted(handler[s], after).incarnation
<1>2. at = (IF handler[s].op = "rebase" THEN "rebased" ELSE "effected")
  OBVIOUS
<1>3. handler' = [handler EXCEPT ![s] = [handler[s] EXCEPT !.at = at, !.job = job,
                                                          !.incarnation = incarnation]]
  BY <1>1
<1> HIDE DEF at, job, incarnation
<1>4. /\ s \in Threads
      /\ handler = [t \in Threads |-> handler[t]]
      /\ handler[s] = [at |-> handler[s].at, op |-> handler[s].op, id |-> handler[s].id,
                       job |-> handler[s].job, incarnation |-> handler[s].incarnation,
                       epoch |-> handler[s].epoch, fabric |-> handler[s].fabric,
                       sequence |-> handler[s].sequence, late |-> handler[s].late]
  BY CoordinatorAssumption DEF HandlerShape
<1>5. /\ handler'[s] = [handler[s] EXCEPT !.at = at, !.job = job, !.incarnation = incarnation]
      /\ \A u \in Threads \ {s} : handler'[u] = handler[u]
  BY <1>3, <1>4
<1>6. /\ handler'[s].at = at /\ handler'[s].id = handler[s].id
      /\ handler'[s].late = handler[s].late /\ handler'[s].op = handler[s].op
      /\ handler'[s].epoch = handler[s].epoch
  BY <1>4, <1>5
<1> QED BY <1>2, <1>5, <1>6

LEMMA ReceiveKeeps ==
  ASSUME HandlerShape, NEW s \in Sessions, NEW op, NEW job, NEW incarnation, NEW e,
         Receive(s, op, job, incarnation, e)
  PROVE  /\ handler'[s].at = "received" /\ handler'[s].id = issued + 1
         /\ handler'[s].late = degraded /\ handler'[s].op = op /\ handler'[s].epoch = e
         /\ \A u \in Threads \ {s} : handler'[u] = handler[u]
BY CoordinatorAssumption DEF HandlerShape, Receive, Idle

-----------------------------------------------------------------------------
(* Degraded.                                                               *)

\* Requests have names of their own, acknowledged ones have left, and a request
\* received by a degraded coordinator finds it degraded when it comes to commit.
LateInv ==
  /\ issued \in Nat
  /\ \A m \in acked : m \in Nat /\ m <= issued
  /\ \A s \in Sessions : handler[s].at # "idle" =>
       handler[s].id \in 1 .. issued /\ handler[s].id \notin acked
  /\ \A s, u \in Sessions :
       s # u /\ handler[s].at # "idle" /\ handler[u].at # "idle" => handler[s].id # handler[u].id
  /\ \A s \in Sessions : handler[s].late = TRUE =>
       degraded = TRUE /\ handler[s].at \in {"received", "rebased", "effected"}

\* A step of one thread that answers it or takes it further.
LEMMA LateStep ==
  ASSUME LateInv, NEW t \in Threads, \A u \in Threads \ {t} : handler'[u] = handler[u],
         UNCHANGED <<issued, acked>>, degraded' = degraded \/ degraded' = TRUE,
         \/ handler'[t] = Idle
         \/ t \notin Sessions
         \/ /\ handler[t].at # "idle" /\ handler'[t].id = handler[t].id
            /\ handler'[t].late = handler[t].late
            /\ handler[t].late = TRUE => handler'[t].at \in {"received", "rebased", "effected"}
  PROVE  LateInv'
<1>1. Sessions \subseteq Threads BY CoordinatorAssumption
<1>2. CASE handler'[t] = Idle BY <1>1, <1>2 DEF LateInv, Idle
<1>3. CASE t \notin Sessions
  <2>1. \A s \in Sessions : handler'[s] = handler[s] BY <1>1, <1>3
  <2> QED BY <2>1 DEF LateInv
<1>4. CASE /\ handler[t].at # "idle" /\ handler'[t].id = handler[t].id
           /\ handler'[t].late = handler[t].late
           /\ handler[t].late = TRUE => handler'[t].at \in {"received", "rebased", "effected"}
  <2>1. \A s \in Sessions : /\ handler'[s].id = handler[s].id
                            /\ handler'[s].late = handler[s].late
                            /\ handler'[s].at # "idle" => handler[s].at # "idle"
                            /\ s # t => handler'[s].at = handler[s].at
    BY <1>1, <1>4
  <2> QED BY <1>4, <2>1 DEF LateInv
<1> QED BY <1>2, <1>3, <1>4

LEMMA CommitLate ==
  ASSUME HandlerShape, LateInv, NEW t \in Threads, CommitNext(t)
  PROVE  LateInv'
<1>1. CASE CheckDegraded(t)
  <2>1. UNCHANGED <<issued, acked, degraded>> /\ handler[t].at = "effected"
    BY <1>1 DEF CheckDegraded, memory
  <2>2. CASE degraded = TRUE
    <3>1. Replies(t) BY <1>1, <2>2 DEF CheckDegraded
    <3> QED BY <2>1, <3>1, RepliesKeeps, LateStep
  <2>3. CASE degraded # TRUE
    <3>1. t \in Sessions => handler[t].late # TRUE BY <2>3 DEF LateInv
    <3>2. (\E at : Goes(t, at)) \/ Replies(t) BY <1>1 DEF CheckDegraded
    <3> QED BY <2>1, <3>1, <3>2, GoesKeeps, RepliesKeeps, LateStep
  <2> QED BY <2>2, <2>3
<1>2. ASSUME handler[t].at \in {"cleared", "snapshot", "sequenced", "storing"},
             UNCHANGED <<issued, acked, degraded>>,
             \/ handler' = handler
             \/ TakeSnapshot(t) \/ ReadSequence(t)
             \/ \E at : Goes(t, at)
      PROVE  LateInv'
  <2>1. t \in Sessions => handler[t].late # TRUE BY <1>2 DEF LateInv
  <2>2. CASE handler' = handler BY <1>2, <2>1, <2>2, LateStep
  <2>3. CASE handler' # handler
    BY <1>2, <2>1, <2>3, GoesKeeps, SnapshotKeeps, LateStep
  <2> QED BY <2>2, <2>3
<1>3. CASE TakeSnapshot(t) \/ ReadSequence(t)
  BY <1>2, <1>3 DEF TakeSnapshot, ReadSequence, memory
<1>4. CASE CallStore(t) BY <1>2, <1>4 DEF CallStore, memory
<1>5. CASE InStore(t) BY <1>2, <1>5 DEF InStore, memory
<1>6. CASE RecordCommit(t) BY <1>2, <1>6 DEF RecordCommit
<1> QED BY <1>1, <1>3, <1>4, <1>5, <1>6 DEF CommitNext

LEMMA ReceiveLate ==
  ASSUME HandlerShape, LateInv, NEW s \in Sessions, NEW op, NEW job, NEW incarnation, NEW e,
         Receive(s, op, job, incarnation, e)
  PROVE  LateInv'
<1>1. issued' = issued + 1 /\ UNCHANGED <<acked, degraded>>
  BY DEF Receive, memory
<1>2. /\ handler'[s].at = "received" /\ handler'[s].id = issued + 1
      /\ handler'[s].late = degraded
      /\ \A u \in Sessions \ {s} : handler'[u] = handler[u]
  BY ReceiveKeeps, CoordinatorAssumption
<1> QED BY <1>1, <1>2 DEF LateInv

LEMMA ReplyLate ==
  ASSUME HandlerShape, LateInv, NEW s \in Sessions, Reply(s)
  PROVE  /\ LateInv'
         /\ \A u \in Sessions : handler[u].late = TRUE => handler[u].id \notin acked'
<1>1. /\ handler[s].at = "committed" /\ acked' = acked \cup {handler[s].id}
      /\ UNCHANGED <<issued, degraded>> /\ Replies(s)
  BY DEF Reply, memory
<1>2. handler'[s] = Idle /\ \A u \in Sessions \ {s} : handler'[u] = handler[u]
  BY <1>1, RepliesKeeps, CoordinatorAssumption
<1>3. LateInv' BY <1>1, <1>2 DEF LateInv, Idle
<1>4. \A u \in Sessions : handler[u].late = TRUE => u # s /\ handler[u].at # "idle"
  BY <1>1 DEF LateInv
<1>5. \A u \in Sessions : handler[u].late = TRUE => handler[u].id \notin acked'
  BY <1>1, <1>4 DEF LateInv
<1> QED BY <1>3, <1>5

LEMMA SessionLate ==
  ASSUME HandlerShape, LateInv, NEW s \in Sessions, SessionNext(s)
  PROVE  LateInv'
<1>0. s \in Threads BY CoordinatorAssumption
<1>1. CASE \/ \E b \in Boots : Hello(s, b)
           \/ Disconnect(s)
           \/ \E j \in DOMAIN fabric.jobs : LookupHandle(s, j)
  BY <1>1 DEF Hello, Disconnect, LookupHandle, memory, LateInv
<1>2. CASE \/ \E j \in DOMAIN fabric.jobs : ReceiveAdmitReplacement(s, j)
           \/ ReceiveRegisterJob(s)
           \/ ReceiveMutate(s)
           \/ \E e \in 1..MaxEpoch : ReceiveRebaseEpoch(s, e)
  BY <1>2, ReceiveLate
     DEF ReceiveAdmitReplacement, ReceiveRegisterJob, ReceiveMutate, ReceiveRebaseEpoch
<1>3. CASE Effect(s)
  BY <1>0, <1>3, EffectKeeps, LateStep DEF Effect
<1>4. CASE Refuse(s)
  BY <1>0, <1>4, RepliesKeeps, LateStep DEF Refuse
<1>5. CASE SetEpoch(s)
  BY <1>0, <1>5, GoesKeeps, LateStep DEF SetEpoch
<1>6. CASE FailCommit(s)
  BY <1>0, <1>6, RepliesKeeps, LateStep DEF FailCommit
<1>7. CASE Reply(s)
  BY <1>7, ReplyLate
<1> QED BY <1>1, <1>2, <1>3, <1>4, <1>5, <1>6, <1>7 DEF SessionNext

LEMMA MainLate ==
  ASSUME TurnInv, LateInv, MainNext
  PROVE  LateInv'
<1>0. Main \in Threads /\ Main \notin Sessions /\ Sessions \subseteq Threads /\ HandlerShape
  BY CoordinatorAssumption DEF TurnInv
<1>1. CASE Start
  <2>1. status = "down" /\ Goes(Main, "effected") /\ UNCHANGED <<issued, acked>>
    BY <1>1 DEF Start, Boot
  <2>2. \A s \in Sessions : handler'[s] = handler[s] /\ handler[s].at = "idle"
    BY <1>0, <2>1, GoesKeeps DEF TurnInv, Turns
  <2> QED BY <2>1, <2>2 DEF LateInv
<1>2. CASE Serve
  BY <1>0, <1>2, RepliesKeeps, LateStep DEF Serve, memory
<1>3. CASE Stop BY <1>3 DEF Stop, memory, LateInv
<1>4. CASE FinalCommit
  BY <1>0, <1>4, GoesKeeps, LateStep DEF FinalCommit, memory
<1>5. CASE Exit \/ Crash
  <2>1. Gone BY <1>5 DEF Exit, Crash
  <2>2. /\ \A s \in Sessions : handler'[s] = Idle
        /\ UNCHANGED <<issued, acked>>
    BY <1>0, <2>1 DEF Gone
  <2> QED BY <2>2 DEF LateInv, Idle
<1> QED BY <1>1, <1>2, <1>3, <1>4, <1>5 DEF MainNext

LEMMA NextLate == TurnInv /\ LateInv /\ [Next]_vars => LateInv'
<1> SUFFICES ASSUME TurnInv, LateInv, [Next]_vars PROVE LateInv'
  OBVIOUS
<1>1. CASE UNCHANGED vars BY <1>1 DEF vars, memory, LateInv
<1> QED BY <1>1, MainLate, SessionLate, CommitLate DEF Next, TurnInv

\* A request that reached a degraded coordinator is never acknowledged, however
\* many sessions are in the middle of a commit when it degrades (commit_state).
THEOREM DegradedAcknowledgesNothing == Spec => DegradedNeverAcks
<1>1. Init => TurnInv /\ LateInv
  <2>1. Init => LateInv BY CoordinatorAssumption DEF Init, LateInv, Idle
  <2> QED BY <2>1, InitTurns
<1>2. TurnInv /\ LateInv /\ [Next]_vars => TurnInv' /\ LateInv'
  BY NextTurns, NextLate
<1>3. TurnInv /\ LateInv /\ [Next]_vars =>
        [\A s \in Sessions : handler[s].late => handler[s].id \notin acked']_acked
  <2> SUFFICES ASSUME TurnInv, LateInv, Next, acked' # acked
               PROVE  \A s \in Sessions : handler[s].late => handler[s].id \notin acked'
    BY DEF vars
  <2>1. \E s \in Sessions : Reply(s)
    BY DEF Next, MainNext, Start, Boot, Serve, Stop, FinalCommit, Exit, Crash, Gone,
      SessionNext, Hello, Disconnect, LookupHandle, ReceiveAdmitReplacement,
      ReceiveRegisterJob, ReceiveMutate, ReceiveRebaseEpoch, Receive, Effect, Refuse,
      SetEpoch, FailCommit, CommitNext, CheckDegraded, TakeSnapshot, ReadSequence,
      CallStore, InStore, RecordCommit
  <2> QED BY <2>1, ReplyLate DEF TurnInv
<1> QED BY <1>1, <1>2, <1>3, PTL DEF Spec, DegradedNeverAcks
-----------------------------------------------------------------------------
(* Epochs, where REBASE_EPOCH is not allowed.                              *)

\* The file holds no state of an epoch before e.
Recent(inode, e) ==
  inode \in Inodes =>
    content[inode] = Torn \/ (content[inode].epoch \in Nat /\ content[inode].epoch >= e)

Stored(e) ==
  /\ live # Absent /\ Recent(live, e)
  /\ liveOnDisk # Absent /\ Recent(liveOnDisk, e)

FileShape ==
  /\ content = [i \in Inodes |-> content[i]]
  /\ {live, liveOnDisk, temporary} \subseteq Inodes \cup {Absent}

Counters ==
  /\ epoch \in Nat /\ served \in Nat
  /\ status # "down" => epoch >= served
  /\ status = "starting" => epoch > served

\* A call stores the epoch of the run it belongs to.
Carried ==
  /\ \A t \in Threads : call[t].at # "out" => call[t].state.epoch = epoch
  /\ \A t \in Threads :
       call[t].at \in {"write", "flush", "replace"} => Recent(temporary, epoch)

\* What was served is on disk; a run is served when its baseline is there too.
Baseline ==
  /\ Recent(live, served) /\ Recent(liveOnDisk, served)
  /\ served > 0 => live # Absent /\ liveOnDisk # Absent
  /\ status = "starting" =>
       /\ call[Main].at = "directory" => live # Absent /\ Recent(live, epoch)
       /\ call[Main].at = "done" \/ handler[Main].at = "committed" => Stored(epoch)

NoRebase ==
  \A s \in Sessions : handler[s].op # "rebase" /\ handler[s].at # "rebased"

EpochInv == FileShape /\ Counters /\ Carried /\ Baseline /\ NoRebase

LEMMA InitEpochs == ASSUME Init PROVE EpochInv
BY CoordinatorAssumption, StoreAssumption
   DEF Init, StoreInit, EpochInv, FileShape, Counters, Carried, Baseline, NoRebase, Recent,
     Idle, NoCall

\* While the coordinator starts, only the main thread is inside Commit.
LEMMA StartsAlone ==
  ASSUME TurnInv, NEW t \in Threads, call[t].at # "out"
  PROVE  status # "down" /\ (status = "starting" => t = Main)
BY CoordinatorAssumption DEF TurnInv, Turns

\* A step outside Commit that moves one thread.
LEMMA ThreadEpochs ==
  ASSUME EpochInv, NEW t \in Threads,
         UNCHANGED <<content, live, liveOnDisk, temporary, call, status, epoch, served>>,
         \A u \in Threads \ {t} : handler'[u] = handler[u],
         t \in Sessions => handler'[t].op # "rebase" /\ handler'[t].at # "rebased",
         t = Main => handler'[t].at # "committed" \/ status # "starting"
  PROVE  EpochInv'
<1> USE CoordinatorAssumption
<1>1. FileShape' /\ Counters' /\ Carried'
  BY DEF EpochInv, FileShape, Counters, Carried, Recent
<1>2. Baseline' BY DEF EpochInv, Baseline, Stored, Recent
<1>3. NoRebase' BY DEF EpochInv, NoRebase
<1> QED BY <1>1, <1>2, <1>3 DEF EpochInv

\* A step inside Commit that leaves the files alone.
LEMMA CallEpochs ==
  ASSUME TurnInv, EpochInv, NEW t \in Threads,
         UNCHANGED <<content, live, liveOnDisk, temporary, status, epoch, served>>,
         \A u \in Threads \ {t} : call'[u] = call[u],
         \A u \in Threads \ {t} : handler'[u] = handler[u],
         t \in Sessions => handler'[t].op # "rebase" /\ handler'[t].at # "rebased",
         call'[t].at # "out" => call'[t].state.epoch = epoch,
         call'[t].at \in {"write", "flush", "replace"} =>
           call[t].at \in {"write", "flush", "replace"},
         call'[t].at \notin {"directory", "done"},
         handler'[t].at = "committed" => call[t].at = "done" \/ handler'[t] = handler[t]
  PROVE  EpochInv'
<1> USE CoordinatorAssumption
<1>1. FileShape' /\ Counters' BY DEF EpochInv, FileShape, Counters
<1>2. Carried' BY DEF EpochInv, Carried, Recent
<1>3. Baseline' BY DEF EpochInv, Baseline, Stored, Recent
<1>4. NoRebase' BY DEF EpochInv, NoRebase
<1> QED BY <1>1, <1>2, <1>3, <1>4 DEF EpochInv

LEMMA FreshInode == ASSUME Unused # {} PROVE Fresh \in Inodes
BY DEF Fresh, Unused

LEMMA StoreEpochs ==
  ASSUME TurnInv, EpochInv, NEW t \in Threads, StoreStep(t),
         UNCHANGED <<status, epoch, served, handler>>
  PROVE  EpochInv'
<1> USE CoordinatorAssumption, StoreAssumption
<1>1. /\ CallShape /\ call[t].at # "out" /\ status # "down"
      /\ status = "starting" => t = Main
      /\ \A u \in Threads \ {t} : call'[u] = call[u]
  BY StoreStepFacts, StartsAlone DEF TurnInv
<1>2. Counters' /\ NoRebase' BY DEF EpochInv, Counters, NoRebase
<1>3. CASE OpenTemporary(t)
  <2>1. PICK inode \in Inodes :
          /\ temporary' = inode
          /\ content' = [content EXCEPT ![inode] = Torn]
          /\ Holding(t, "write", inode)
    BY <1>3, FreshInode DEF OpenTemporary, EpochInv, FileShape
  <2>2. call[t].at = "open" /\ UNCHANGED <<live, liveOnDisk>>
    BY <1>3 DEF OpenTemporary
  <2>3. call'[t].at = "write" /\ call'[t].state = call[t].state
    BY <1>1, <2>1, HoldingFacts
  <2>4. FileShape' BY <2>1, <2>2 DEF EpochInv, FileShape
  <2>5. \A i \in Inodes : content'[i] = Torn \/ content'[i] = content[i]
    BY <2>1 DEF EpochInv, FileShape
  <2>6. content'[inode] = Torn BY <2>1 DEF EpochInv, FileShape
  <2>7. Carried' BY <1>1, <2>1, <2>3, <2>6 DEF EpochInv, Carried, Recent
  <2>8. Baseline' BY <1>1, <2>2, <2>3, <2>5 DEF EpochInv, Baseline, Stored, Recent
  <2> QED BY <1>2, <2>4, <2>7, <2>8 DEF EpochInv
<1>4. CASE WriteTemporary(t) \/ IoError(t)
  <2>1. PICK bytes : /\ bytes = Torn \/ bytes = call[t].state
                     /\ \/ content' = [content EXCEPT ![call[t].handle] = bytes]
                        \/ content' = content
    BY <1>4 DEF WriteTemporary, Written, IoError, ShortWrite
  <2>2. /\ UNCHANGED <<live, liveOnDisk>> /\ temporary' \in {temporary, Absent}
        /\ call'[t].state = call[t].state
        /\ \/ call'[t].at = "failed"
           \/ call'[t].at = "flush" /\ call[t].at = "write"
    BY <1>1, <1>4, HoldingFacts DEF WriteTemporary, IoError, ShortWrite
  <2>3. call[t].state.epoch = epoch BY <1>1 DEF EpochInv, Carried
  <2>4. \A i \in Inodes :
          \/ content'[i] = content[i] \/ content'[i] = Torn
          \/ content'[i].epoch = epoch
    BY <2>1, <2>3 DEF EpochInv, FileShape
  <2>5. FileShape' BY <2>1, <2>2 DEF EpochInv, FileShape
  <2>6. Carried' BY <1>1, <2>2, <2>3, <2>4 DEF EpochInv, Carried, Recent, Counters
  <2>7. Baseline'
    BY <1>1, <2>2, <2>4 DEF EpochInv, Baseline, Stored, Recent, Counters
  <2> QED BY <1>2, <2>5, <2>6, <2>7 DEF EpochInv
<1>5. CASE FlushTemporary(t) \/ Vanished(t)
  <2>1. /\ UNCHANGED <<content, live, liveOnDisk, temporary>>
        /\ \E at \in {"replace", "failed"} : Moved(t, at)
        /\ call[t].at \in {"flush", "replace"}
    BY <1>5 DEF FlushTemporary, Vanished, disk
  <2>2. call'[t].at \in {"replace", "failed"} /\ call'[t].state = call[t].state
    BY <1>1, <2>1, MovedFacts
  <2>3. call'[t].state.epoch = epoch BY <1>1, <2>2 DEF EpochInv, Carried
  <2> QED BY <1>1, <2>1, <2>2, <2>3, CallEpochs DEF EpochInv, NoRebase
<1>6. CASE Replace(t)
  <2>1. /\ live' = temporary /\ temporary # Absent /\ temporary' = Absent
        /\ UNCHANGED <<content, liveOnDisk>>
        /\ call[t].at = "replace" /\ Moved(t, "directory")
    BY <1>6 DEF Replace
  <2>2. call'[t].at = "directory" /\ call'[t].state = call[t].state
    BY <1>1, <2>1, MovedFacts
  <2>3. Recent(temporary, epoch) /\ temporary \in Inodes
    BY <2>1 DEF EpochInv, Carried, FileShape
  <2>4. FileShape' BY <2>1 DEF EpochInv, FileShape
  <2>5. Carried' BY <1>1, <2>1, <2>2 DEF EpochInv, Carried, Recent
  <2>6. Baseline'
    BY <1>1, <2>1, <2>2, <2>3, StartsAlone
    DEF EpochInv, Baseline, Stored, Recent, Counters, TurnInv, Turns
  <2> QED BY <1>2, <2>4, <2>5, <2>6 DEF EpochInv
<1>7. CASE FlushDirectory(t)
  <2>1. /\ liveOnDisk' = live /\ UNCHANGED <<content, live, temporary>>
        /\ call[t].at = "directory" /\ Moved(t, "done")
    BY <1>7 DEF FlushDirectory
  <2>2. call'[t].at = "done" /\ call'[t].state = call[t].state
    BY <1>1, <2>1, MovedFacts
  <2>3. FileShape' BY <2>1 DEF EpochInv, FileShape
  <2>4. Carried' BY <1>1, <2>1, <2>2 DEF EpochInv, Carried, Recent
  <2>5. Baseline'
    BY <1>1, <2>1, <2>2 DEF EpochInv, Baseline, Stored, Recent, TurnInv, Turns
  <2> QED BY <1>2, <2>3, <2>4, <2>5 DEF EpochInv
<1> QED BY <1>3, <1>4, <1>5, <1>6, <1>7 DEF StoreStep

LEMMA CommitEpochs ==
  ASSUME TurnInv, EpochInv, NEW t \in Threads, CommitNext(t)
  PROVE  EpochInv'
<1>0. /\ HandlerShape /\ CallShape
      /\ t \in Sessions => handler[t].op # "rebase" /\ handler[t].at # "rebased"
  BY DEF TurnInv, EpochInv, NoRebase
<1>1. CASE CheckDegraded(t)
  <2>1. Goes(t, "cleared") \/ Replies(t) BY <1>1 DEF CheckDegraded
  <2>2. /\ handler'[t].at \in {"cleared", "idle"} /\ handler'[t].op \in {handler[t].op, "none"}
        /\ \A u \in Threads \ {t} : handler'[u] = handler[u]
    BY <1>0, <2>1, GoesKeeps, RepliesKeeps DEF Idle
  <2> QED BY <1>0, <1>1, <2>2, ThreadEpochs DEF CheckDegraded, storeVars, memory
<1>2. CASE TakeSnapshot(t) \/ ReadSequence(t)
  <2>1. UNCHANGED <<content, live, liveOnDisk, temporary, call, status, epoch, served>>
    BY <1>2 DEF TakeSnapshot, ReadSequence, storeVars, memory
  <2> QED BY <1>0, <1>2, <2>1, SnapshotKeeps, ThreadEpochs
<1>3. CASE CallStore(t)
  <2>1. /\ UNCHANGED <<content, live, liveOnDisk, temporary, status, epoch, served>>
        /\ call' = [call EXCEPT ![t] =
             [at |-> IF Conflicts(StateToStore(t).sequence) THEN "failed" ELSE "open",
              state |-> StateToStore(t), handle |-> Absent]]
        /\ Goes(t, "storing")
    BY <1>3 DEF CallStore, Call, disk, memory
  <2>2. /\ call'[t].at \in {"failed", "open"} /\ call'[t].state = StateToStore(t)
        /\ \A u \in Threads \ {t} : call'[u] = call[u]
    BY <1>0, <2>1 DEF CallShape
  <2>3. call'[t].state.epoch = epoch BY <2>2 DEF StateToStore
  <2>4. /\ handler'[t].at = "storing" /\ handler'[t].op = handler[t].op
        /\ \A u \in Threads \ {t} : handler'[u] = handler[u]
    BY <1>0, <2>1, GoesKeeps
  <2> QED BY <1>0, <2>1, <2>2, <2>3, <2>4, CallEpochs
<1>4. CASE InStore(t)
  BY <1>4, StoreEpochs DEF InStore, memory
<1>5. CASE RecordCommit(t)
  <2>1. /\ UNCHANGED <<content, live, liveOnDisk, temporary, status, epoch, served>>
        /\ Return(t) /\ Goes(t, "committed") /\ call[t].at = "done"
    BY <1>5 DEF RecordCommit, disk
  <2>2. /\ call'[t].at = "out" /\ \A u \in Threads \ {t} : call'[u] = call[u]
        /\ handler'[t].at = "committed" /\ handler'[t].op = handler[t].op
        /\ \A u \in Threads \ {t} : handler'[u] = handler[u]
    BY <1>0, <2>1, GoesKeeps, ReturnFacts DEF NoCall
  <2> QED BY <1>0, <2>1, <2>2, CallEpochs
<1> QED BY <1>1, <1>2, <1>3, <1>4, <1>5 DEF CommitNext

LEMMA SessionEpochs ==
  ASSUME Rebasing = FALSE, TurnInv, EpochInv, NEW s \in Sessions, SessionNext(s)
  PROVE  EpochInv'
<1>0. /\ HandlerShape /\ CallShape /\ s \in Threads /\ s # Main
      /\ handler[s].op # "rebase" /\ handler[s].at # "rebased"
  BY CoordinatorAssumption DEF TurnInv, EpochInv, NoRebase
<1>1. CASE \/ \E b \in Boots : Hello(s, b)
           \/ Disconnect(s)
           \/ \E j \in DOMAIN fabric.jobs : LookupHandle(s, j)
  <2>1. UNCHANGED <<content, live, liveOnDisk, temporary, call, status, epoch, served, handler>>
    BY <1>1 DEF Hello, Disconnect, LookupHandle, storeVars, memory
  <2> QED BY <1>0, <2>1, ThreadEpochs
<1>2. CASE \/ \E j \in DOMAIN fabric.jobs : ReceiveAdmitReplacement(s, j)
           \/ ReceiveRegisterJob(s)
           \/ ReceiveMutate(s)
           \/ \E e \in 1..MaxEpoch : ReceiveRebaseEpoch(s, e)
  <2>1. PICK op, job, incarnation, e :
          op # "rebase" /\ Receive(s, op, job, incarnation, e)
    BY <1>2
    DEF ReceiveAdmitReplacement, ReceiveRegisterJob, ReceiveMutate, ReceiveRebaseEpoch
  <2>2. UNCHANGED <<content, live, liveOnDisk, temporary, call, status, epoch, served>>
    BY <2>1 DEF Receive, storeVars, memory
  <2> QED BY <1>0, <2>1, <2>2, ReceiveKeeps, ThreadEpochs
<1>3. CASE Effect(s)
  <2>1. UNCHANGED <<content, live, liveOnDisk, temporary, call, status, epoch, served>>
    BY <1>3 DEF Effect, storeVars
  <2> QED BY <1>0, <1>3, <2>1, EffectKeeps, ThreadEpochs
<1>4. CASE Refuse(s) \/ Reply(s)
  <2>1. /\ UNCHANGED <<content, live, liveOnDisk, temporary, call, status, epoch, served>>
        /\ Replies(s)
    BY <1>4 DEF Refuse, Reply, storeVars, memory
  <2> QED BY <1>0, <2>1, RepliesKeeps, ThreadEpochs DEF Idle
<1>5. CASE SetEpoch(s)
  BY <1>0, <1>5 DEF SetEpoch
<1>6. CASE FailCommit(s)
  <2>1. /\ UNCHANGED <<content, live, liveOnDisk, temporary, status, epoch, served>>
        /\ Replies(s) /\ Return(s)
    BY <1>6 DEF FailCommit, disk
  <2>2. /\ call'[s].at = "out" /\ \A u \in Threads \ {s} : call'[u] = call[u]
        /\ handler'[s].at = "idle" /\ handler'[s].op = "none"
        /\ \A u \in Threads \ {s} : handler'[u] = handler[u]
    BY <1>0, <2>1, RepliesKeeps, ReturnFacts DEF NoCall, Idle
  <2> QED BY <1>0, <2>1, <2>2, CallEpochs
<1> QED BY <1>1, <1>2, <1>3, <1>4, <1>5, <1>6 DEF SessionNext

\* Start goes one beyond the epoch on disk, which nothing served has passed.
LEMMA StartEpochs ==
  ASSUME TurnInv, EpochInv, Start
  PROVE  EpochInv'
<1> USE CoordinatorAssumption, StoreAssumption
<1>1. /\ status = "down" /\ status' = "starting" /\ Goes(Main, "effected")
      /\ UNCHANGED <<content, live, liveOnDisk, temporary, call, served>>
  BY DEF Start, Boot, storeVars
<1>2. epoch' \in Nat /\ epoch' > served
  <2>1. CASE live = Absent
    <3>1. epoch' = 1 BY <2>1 DEF Start, Boot, Loaded
    <3> QED BY <2>1, <3>1 DEF EpochInv, Counters, Baseline
  <2>2. CASE live # Absent
    <3>1. content[live] # Torn /\ epoch' = content[live].epoch + 1
      BY <2>2 DEF Start, Boot, Loaded, Restored
    <3> QED BY <2>2, <3>1 DEF EpochInv, Counters, Baseline, FileShape, Recent
  <2> QED BY <2>1, <2>2
<1>3. \A t \in Threads : call[t].at = "out" BY <1>1, StartsAlone
<1>4. /\ handler'[Main].at = "effected"
      /\ \A s \in Sessions : handler'[s] = handler[s]
  BY <1>1, GoesKeeps DEF TurnInv
<1>5. FileShape' /\ Counters' BY <1>1, <1>2 DEF EpochInv, FileShape, Counters
<1>6. Carried' BY <1>1, <1>3 DEF Carried
<1>7. Baseline' BY <1>1, <1>3, <1>4 DEF EpochInv, Baseline, Recent
<1>8. NoRebase' BY <1>4 DEF EpochInv, NoRebase
<1> QED BY <1>5, <1>6, <1>7, <1>8 DEF EpochInv

\* A death keeps the file the live path names, or goes back to the one the
\* flushed directory names, and tears files at most.
LEMMA DeathEpochs ==
  ASSUME TurnInv, EpochInv, Gone, ProcessDies \/ PowerFails
  PROVE  EpochInv'
<1> USE CoordinatorAssumption, StoreAssumption
<1>1. /\ status' = "down" /\ epoch' = 0 /\ served' = served
      /\ \A t \in Threads : handler'[t] = Idle
      /\ \A t \in Threads : call'[t] = NoCall
  BY DEF Gone, ProcessDies, PowerFails
<1>2. /\ FileShape' /\ {live', liveOnDisk'} \subseteq {live, liveOnDisk}
      /\ \A i \in Inodes : content'[i] = content[i] \/ content'[i] = Torn
  BY DEF ProcessDies, PowerFails, disk, EpochInv, FileShape
<1>3. Counters' BY <1>1 DEF EpochInv, Counters
<1>4. Carried' BY <1>1 DEF Carried, NoCall
<1>5. Baseline' BY <1>1, <1>2 DEF EpochInv, Baseline, Recent
<1>6. NoRebase' BY <1>1 DEF NoRebase, Idle
<1> QED BY <1>2, <1>3, <1>4, <1>5, <1>6 DEF EpochInv

LEMMA ServeEpochs ==
  ASSUME TurnInv, EpochInv, Serve
  PROVE  EpochInv' /\ served' = epoch /\ epoch' > served
<1> USE CoordinatorAssumption
<1>1. /\ status = "starting" /\ status' = "serving" /\ handler[Main].at = "committed"
      /\ UNCHANGED <<content, live, liveOnDisk, temporary, call, epoch>> /\ Replies(Main)
      /\ served' = IF epoch > served THEN epoch ELSE served
  BY DEF Serve, storeVars, memory
<1>2. epoch > served /\ epoch \in Nat /\ Stored(epoch)
  BY <1>1 DEF EpochInv, Counters, Baseline
<1>3. \A s \in Sessions : handler'[s] = handler[s]
  BY <1>1, RepliesKeeps DEF TurnInv
<1>4. FileShape' /\ Counters'
  BY <1>1, <1>2 DEF EpochInv, FileShape, Counters
<1>5. Carried' BY <1>1 DEF EpochInv, Carried, Recent
<1>6. Baseline' BY <1>1, <1>2 DEF Stored, Baseline, Recent
<1>7. NoRebase' BY <1>3 DEF EpochInv, NoRebase
<1> QED BY <1>1, <1>2, <1>4, <1>5, <1>6, <1>7 DEF EpochInv

LEMMA NextEpochs ==
  ASSUME Rebasing = FALSE, TurnInv, EpochInv, [Next]_vars
  PROVE  EpochInv'
<1>0. Main \in Threads /\ Main \notin Sessions /\ HandlerShape
  BY CoordinatorAssumption DEF TurnInv
<1>1. CASE UNCHANGED vars
  BY <1>1 DEF vars, storeVars, memory, EpochInv, FileShape, Counters, Carried, Baseline,
    Stored, NoRebase, Recent
<1>2. CASE Start BY <1>2, StartEpochs
<1>3. CASE Serve BY <1>3, ServeEpochs
<1>4. CASE Stop
  <2>1. /\ UNCHANGED <<content, live, liveOnDisk, temporary, call, epoch, served, handler>>
        /\ status = "serving" /\ status' = "stopping"
    BY <1>4 DEF Stop, storeVars, memory
  <2> QED BY <2>1 DEF EpochInv, FileShape, Counters, Carried, Baseline, NoRebase, Recent
<1>5. CASE FinalCommit
  <2>1. /\ UNCHANGED <<content, live, liveOnDisk, temporary, call, status, epoch, served>>
        /\ Goes(Main, "effected")
    BY <1>5 DEF FinalCommit, storeVars, memory
  <2> QED BY <1>0, <2>1, GoesKeeps, ThreadEpochs
<1>6. CASE Exit \/ Crash
  BY <1>6, DeathEpochs DEF Exit, Crash
<1> QED BY <1>1, <1>2, <1>3, <1>4, <1>5, <1>6, SessionEpochs, CommitEpochs DEF Next, MainNext

\* Without REBASE_EPOCH no epoch is served by two runs of the coordinator,
\* whichever thread, process or machine dies when, and although the sessions
\* may tear the state file between them (Start and its baseline commit).
THEOREM EpochsAreServedOnce ==
  ASSUME Rebasing = FALSE
  PROVE  Spec => EpochsFresh
<1>1. Init => TurnInv /\ EpochInv
  BY InitTurns, InitEpochs
<1>2. TurnInv /\ EpochInv /\ [Next]_vars => TurnInv' /\ EpochInv'
  BY NextTurns, NextEpochs
<1>3. TurnInv /\ EpochInv /\ [Next]_vars =>
        [status = "starting" /\ status' = "serving" => epoch' > served]_status
  <2> SUFFICES ASSUME TurnInv, EpochInv, Next, status = "starting", status' = "serving"
               PROVE  epoch' > served
    BY DEF vars
  <2>1. \A s \in Sessions : ~SessionNext(s)
    BY DEF SessionNext, Hello, Disconnect, LookupHandle, ReceiveAdmitReplacement,
      ReceiveRegisterJob, ReceiveMutate, ReceiveRebaseEpoch, Receive, Effect, Refuse,
      SetEpoch, FailCommit, Reply
  <2>2. \A t \in Threads : ~CommitNext(t)
    BY DEF CommitNext, CheckDegraded, TakeSnapshot, ReadSequence, CallStore, InStore,
      RecordCommit
  <2>3. Serve
    BY <2>1, <2>2 DEF Next, MainNext, Start, Stop, FinalCommit, Exit, Crash, Gone
  <2> QED BY <2>3, ServeEpochs
<1> QED BY <1>1, <1>2, <1>3, PTL DEF Spec, EpochsFresh
-----------------------------------------------------------------------------
(* Restarts, where REBASE_EPOCH is not allowed or has no session to race.  *)

\* Jobs in a sequence, none ahead of epoch e.
Behind(jobs, e) ==
  /\ Len(jobs) \in Nat /\ jobs = [j \in 1..Len(jobs) |-> jobs[j]]
  /\ \A j \in 1..Len(jobs) :
       /\ jobs[j] = [boot |-> jobs[j].boot, incarnation |-> jobs[j].incarnation,
                     epoch |-> jobs[j].epoch]
       /\ jobs[j].epoch \in Nat /\ jobs[j].epoch <= e

LEMMA NoneBehind == ASSUME NEW e \in Nat PROVE Behind(<<>>, e)
BY DEF Behind

LEMMA AppendBehind ==
  ASSUME NEW e \in Nat, NEW jobs, Behind(jobs, e), NEW b, NEW f \in Nat, f <= e
  PROVE  Behind(Append(jobs, [boot |-> b, incarnation |-> 1, epoch |-> f]), e)
<1> DEFINE job == [boot |-> b, incarnation |-> 1, epoch |-> f]
           all == {jobs[j] : j \in 1..Len(jobs)} \cup {job}
<1>1. job = [boot |-> job.boot, incarnation |-> job.incarnation, epoch |-> job.epoch]
      /\ job.epoch \in Nat /\ job.epoch <= e
  OBVIOUS
<1>2. jobs \in Seq(all) /\ job \in all
  <2>1. job \in all OBVIOUS
  <2>2. \A j \in 1..Len(jobs) : jobs[j] \in all OBVIOUS
  <2> HIDE DEF all
  <2> QED BY <2>1, <2>2 DEF Behind
<1> HIDE DEF job, all
<1>3. /\ Append(jobs, job) \in Seq(all) /\ Len(Append(jobs, job)) = Len(jobs) + 1
      /\ \A j \in 1..Len(jobs) : Append(jobs, job)[j] = jobs[j]
      /\ Append(jobs, job)[Len(jobs) + 1] = job
  BY <1>2
<1> DEFINE more == Append(jobs, job)
<1> HIDE DEF more
<1>4. /\ more \in Seq(all) /\ Len(more) = Len(jobs) + 1
      /\ \A j \in 1..Len(jobs) : more[j] = jobs[j]
      /\ more[Len(jobs) + 1] = job
  BY <1>3 DEF more
<1>5. Len(jobs) \in Nat BY DEF Behind
<1>6. more = [j \in 1..Len(more) |-> more[j]] BY <1>4
<1>7. Behind(more, e) BY <1>1, <1>4, <1>5, <1>6 DEF Behind
<1> QED BY <1>7 DEF more, job

LEMMA RebasedBehind ==
  ASSUME NEW e \in Nat, NEW d, NEW jobs, Behind(jobs, d)
  PROVE  Behind(Rebased(jobs, e), e)
<1> DEFINE more == [j \in 1..Len(jobs) |-> [jobs[j] EXCEPT !.epoch = e]]
<1>1. Rebased(jobs, e) = more BY DEF Rebased, Behind
<1>2. Len(jobs) \in Nat BY DEF Behind
<1>3. \A j \in 1..Len(jobs) :
        [jobs[j] EXCEPT !.epoch = e] =
          [boot |-> jobs[j].boot, incarnation |-> jobs[j].incarnation, epoch |-> e]
  BY DEF Behind
<1>4. Len(more) = Len(jobs) BY <1>2
<1>5. \A j \in 1..Len(jobs) :
        more[j] = [boot |-> jobs[j].boot, incarnation |-> jobs[j].incarnation, epoch |-> e]
  BY <1>3
<1>6. more = [j \in 1..Len(jobs) |-> more[j]] OBVIOUS
<1> HIDE DEF more
<1>7. Behind(more, e) BY <1>2, <1>4, <1>5, <1>6 DEF Behind
<1> QED BY <1>1, <1>7

LEMMA ReplacedBehind ==
  ASSUME NEW e \in Nat, NEW jobs, Behind(jobs, e), NEW j, NEW b
  PROVE  Behind([jobs EXCEPT ![j].boot = b, ![j].incarnation = @ + 1], e)
<1>1. CASE j \notin 1..Len(jobs)
  <2>1. [jobs EXCEPT ![j].boot = b, ![j].incarnation = @ + 1] = jobs
    BY <1>1 DEF Behind
  <2> QED BY <2>1
<1>2. CASE j \in 1..Len(jobs)
  <2> DEFINE more == [jobs EXCEPT ![j].boot = b, ![j].incarnation = @ + 1]
  <2>1. Len(jobs) \in Nat /\ DOMAIN jobs = 1..Len(jobs) BY DEF Behind
  <2>2. /\ more = [i \in 1..Len(jobs) |-> more[i]]
        /\ \A i \in 1..Len(jobs) : i # j => more[i] = jobs[i]
        /\ more[j] = [[jobs[j] EXCEPT !.boot = b] EXCEPT
                       !.incarnation = [jobs[j] EXCEPT !.boot = b].incarnation + 1]
    BY <1>2, <2>1
  <2>3. more[j] = [boot |-> b, incarnation |-> jobs[j].incarnation + 1, epoch |-> jobs[j].epoch]
    <3>1. jobs[j] = [boot |-> jobs[j].boot, incarnation |-> jobs[j].incarnation,
                     epoch |-> jobs[j].epoch]
      BY ONLY <1>2, Behind(jobs, e) DEF Behind
    <3>2. [jobs[j] EXCEPT !.boot = b] =
            [boot |-> b, incarnation |-> jobs[j].incarnation, epoch |-> jobs[j].epoch]
      BY ONLY <3>1
    <3> HIDE DEF more
    <3> QED BY ONLY <2>2, <3>2
  <2> HIDE DEF more
  <2>4. Len(more) = Len(jobs) BY <2>1, <2>2
  <2>5. ASSUME NEW i \in 1..Len(more)
        PROVE  /\ more[i] = [boot |-> more[i].boot, incarnation |-> more[i].incarnation,
                             epoch |-> more[i].epoch]
               /\ more[i].epoch \in Nat /\ more[i].epoch <= e
    <3>1. i \in 1..Len(jobs) BY ONLY <2>4, <2>5
    <3>2. /\ jobs[i] = [boot |-> jobs[i].boot, incarnation |-> jobs[i].incarnation,
                        epoch |-> jobs[i].epoch]
          /\ jobs[i].epoch \in Nat /\ jobs[i].epoch <= e
      BY ONLY <3>1, Behind(jobs, e) DEF Behind
    <3>3. CASE i = j BY ONLY <2>3, <3>2, <3>3
    <3>4. CASE i # j BY ONLY <2>2, <3>1, <3>2, <3>4
    <3> QED BY ONLY <3>3, <3>4
  <2>6. Behind(more, e) BY ONLY <2>1, <2>2, <2>4, <2>5 DEF Behind
  <2> QED BY <2>6 DEF more
<1> QED BY <1>1, <1>2

LEMMA BehindIsRebasable ==
  ASSUME NEW e \in Nat, NEW jobs, Behind(jobs, e)
  PROVE  Rebasable(jobs, e + 1)
BY DEF Behind, Rebasable

FabricBehind(f, e) == f = [jobs |-> f.jobs, done |-> f.done] /\ Behind(f.jobs, e)
StateBehind(state) == state.epoch \in Nat /\ FabricBehind(state.fabric, state.epoch)

\* A session that rebases is the only one; where it is not allowed none does.
RebasesAlone ==
  \A s \in Sessions : handler[s].op = "rebase" \/ handler[s].at = "rebased" => Sessions = {s}

\* The fabric is at or behind the epoch, which follows a rebase in a step of its own.
MemoryBehind ==
  /\ (\A s \in Sessions : handler[s].at # "rebased") => FabricBehind(fabric, epoch)
  /\ \A s \in Sessions : handler[s].at = "rebased" =>
       handler[s].epoch \in Nat /\ FabricBehind(fabric, handler[s].epoch)

\* What a thread that is executing a request has in hand.
InHand(h, e) ==
  /\ h.at \in {"snapshot", "sequenced"} => FabricBehind(h.fabric, e)
  /\ h.at = "received" /\ h.op = "register" => h.epoch = e
  /\ h.at = "received" /\ h.op = "rebase" => h.epoch \in Nat

\* Every fabric in memory, in a snapshot, on its way to the disk or in a file has
\* its jobs at or behind the epoch it is stored with.
JobInv ==
  /\ epoch \in Nat
  /\ RebasesAlone
  /\ MemoryBehind
  /\ \A t \in Threads : InHand(handler[t], epoch)
  /\ \A t \in Threads : call[t].at # "out" => StateBehind(call[t].state)
  /\ \A i \in Inodes : content[i] = Torn \/ StateBehind(content[i])

\* While a thread is between its effect and its reply, no other is in a rebase.
LEMMA NobodyRebases ==
  ASSUME TurnInv, RebasesAlone, NEW t \in Threads, handler[t].at \notin {"idle", "rebased"}
  PROVE  \A s \in Sessions : handler[s].at # "rebased"
<1> SUFFICES ASSUME NEW s \in Sessions, handler[s].at = "rebased" PROVE FALSE
  OBVIOUS
<1>1. Sessions = {s} BY DEF RebasesAlone
<1>2. t = s \/ t = Main BY <1>1, CoordinatorAssumption
<1> QED BY <1>2 DEF TurnInv, Turns

\* A step of one thread outside Commit.
LEMMA ThreadJobs ==
  ASSUME JobInv, NEW t \in Threads, UNCHANGED <<content, epoch>>,
         MemoryBehind',
         \A u \in Threads \ {t} : handler'[u] = handler[u] /\ call'[u] = call[u],
         call'[t].at # "out" => StateBehind(call'[t].state),
         InHand(handler'[t], epoch),
         t \in Sessions /\ (handler'[t].op = "rebase" \/ handler'[t].at = "rebased") =>
           Sessions = {t}
  PROVE  JobInv'
<1>1. \A u \in Threads : InHand(handler'[u], epoch)
  BY DEF JobInv
<1>2. RebasesAlone' BY CoordinatorAssumption DEF JobInv, RebasesAlone
<1>3. \A u \in Threads : call'[u].at # "out" => StateBehind(call'[u].state)
  BY DEF JobInv
<1>4. \A i \in Inodes : content'[i] = Torn \/ StateBehind(content'[i])
  BY DEF JobInv
<1>5. epoch' = epoch /\ epoch \in Nat BY DEF JobInv
<1> HIDE DEF FabricBehind, StateBehind
<1> QED BY <1>1, <1>2, <1>3, <1>4, <1>5 DEF JobInv, FabricBehind, StateBehind, InHand

\* A thread that neither acts on the fabric nor enters a rebase leaves it behind the epoch.
LEMMA MemoryKept ==
  ASSUME TurnInv, JobInv, NEW t \in Threads, handler[t].at # "rebased",
         UNCHANGED <<fabric, epoch>>,
         \A u \in Threads \ {t} : handler'[u] = handler[u], handler'[t].at # "rebased"
  PROVE  MemoryBehind'
<1>1. \A s \in Sessions : handler'[s].at = "rebased" <=> handler[s].at = "rebased"
  BY CoordinatorAssumption
<1>2. \A s \in Sessions : handler'[s].at = "rebased" => handler'[s].epoch = handler[s].epoch
  BY CoordinatorAssumption
<1> QED BY <1>1, <1>2 DEF JobInv, MemoryBehind, FabricBehind

\* The files keep their shape.
LEMMA StoreShape ==
  ASSUME FileShape, NEW t \in Threads, StoreStep(t)
  PROVE  FileShape'
<1> USE StoreAssumption
<1>1. CASE OpenTemporary(t)
  <2>1. PICK i \in Inodes : content' = [content EXCEPT ![i] = Torn] /\ temporary' = i
    BY <1>1, FreshInode DEF OpenTemporary, FileShape
  <2> QED BY <1>1, <2>1 DEF OpenTemporary, FileShape
<1>2. CASE WriteTemporary(t) BY <1>2 DEF WriteTemporary, FileShape
<1>3. CASE IoError(t) BY <1>3 DEF IoError, ShortWrite, FileShape
<1>4. CASE FlushTemporary(t) \/ Replace(t) \/ FlushDirectory(t) \/ Vanished(t)
  BY <1>4 DEF FlushTemporary, Replace, FlushDirectory, Vanished, disk, FileShape
<1> QED BY <1>1, <1>2, <1>3, <1>4 DEF StoreStep

\* A session by itself does not touch the files.
LEMMA SessionLeavesDisk ==
  ASSUME NEW s \in Sessions, SessionNext(s)
  PROVE  UNCHANGED disk
<1>1. ASSUME NEW op, NEW j, NEW i, NEW e, Receive(s, op, j, i, e) PROVE UNCHANGED disk
  BY ONLY <1>1 DEF Receive, storeVars, disk
<1>2. ASSUME NEW b, Hello(s, b) PROVE UNCHANGED disk BY ONLY <1>2 DEF Hello, storeVars, disk
<1>3. CASE Disconnect(s) BY ONLY <1>3 DEF Disconnect, storeVars, disk
<1>4. ASSUME NEW j, LookupHandle(s, j) PROVE UNCHANGED disk
  BY ONLY <1>4 DEF LookupHandle, storeVars, disk
<1>5. ASSUME NEW j, ReceiveAdmitReplacement(s, j) PROVE UNCHANGED disk
  BY ONLY <1>1, <1>5 DEF ReceiveAdmitReplacement
<1>6. CASE ReceiveRegisterJob(s) BY ONLY <1>1, <1>6 DEF ReceiveRegisterJob
<1>7. CASE ReceiveMutate(s) BY ONLY <1>1, <1>7 DEF ReceiveMutate
<1>8. ASSUME NEW e, ReceiveRebaseEpoch(s, e) PROVE UNCHANGED disk
  BY ONLY <1>1, <1>8 DEF ReceiveRebaseEpoch
<1>9. CASE Effect(s) BY ONLY <1>9 DEF Effect, storeVars, disk
<1>10. CASE Refuse(s) BY ONLY <1>10 DEF Refuse, storeVars, disk
<1>11. CASE SetEpoch(s) BY ONLY <1>11 DEF SetEpoch, storeVars, disk
<1>12. CASE FailCommit(s) BY ONLY <1>12 DEF FailCommit
<1>13. CASE Reply(s) BY ONLY <1>13 DEF Reply, storeVars, disk
<1> QED
  BY <1>2, <1>3, <1>4, <1>5, <1>6, <1>7, <1>8, <1>9, <1>10, <1>11, <1>12, <1>13
  DEF SessionNext

LEMMA NextShape == ASSUME FileShape, [Next]_vars PROVE FileShape'
<1>1. CASE \E t \in Threads : InStore(t)
  BY <1>1, StoreShape DEF InStore
<1>2. CASE PowerFails \/ ProcessDies
  BY <1>2 DEF PowerFails, ProcessDies, disk, FileShape
<1>3. CASE UNCHANGED <<content, live, liveOnDisk, temporary>>
  BY <1>3 DEF FileShape
<1>4. UNCHANGED <<content, live, liveOnDisk, temporary>>
        \/ PowerFails \/ ProcessDies \/ \E t \in Threads : InStore(t)
  <2>1. CASE UNCHANGED vars BY <2>1 DEF vars, storeVars, disk
  <2>2. CASE MainNext
    BY <2>2 DEF MainNext, Start, Boot, Serve, Stop, FinalCommit, Exit, Crash, storeVars, disk
  <2>3. CASE \E s \in Sessions : SessionNext(s)
    BY <2>3, SessionLeavesDisk DEF disk
  <2>4. CASE \E t \in Threads : CommitNext(t)
    BY <2>4 DEF CommitNext, CheckDegraded, TakeSnapshot, ReadSequence, CallStore, Call,
      RecordCommit, storeVars, disk
  <2> QED BY <2>1, <2>2, <2>3, <2>4 DEF Next
<1> QED BY <1>1, <1>2, <1>3, <1>4

\* A step inside Commit writes the state of its call, or tears a file.
LEMMA StoreJobs ==
  ASSUME CallShape, FileShape, JobInv, NEW t \in Threads, StoreStep(t),
         UNCHANGED <<handler, fabric, epoch>>
  PROVE  JobInv'
<1>1. /\ call[t].at # "out" /\ \A u \in Threads \ {t} : call'[u] = call[u]
  BY StoreStepFacts
<1>2. call'[t].state = call[t].state
  <2>1. CASE OpenTemporary(t) BY <2>1, HoldingFacts DEF OpenTemporary
  <2>2. CASE WriteTemporary(t) \/ IoError(t)
    BY <2>2, HoldingFacts DEF WriteTemporary, IoError
  <2>3. CASE FlushTemporary(t) \/ Replace(t) \/ FlushDirectory(t) \/ Vanished(t)
    BY <2>3, MovedFacts DEF FlushTemporary, Replace, FlushDirectory, Vanished
  <2> QED BY <2>1, <2>2, <2>3 DEF StoreStep
<1>3. \A i \in Inodes : content'[i] \in {content[i], Torn, call[t].state}
  <2>1. CASE OpenTemporary(t) BY <2>1 DEF OpenTemporary, FileShape
  <2>2. CASE WriteTemporary(t) BY <2>2 DEF WriteTemporary, Written, FileShape
  <2>3. CASE IoError(t) BY <2>3 DEF IoError, ShortWrite, FileShape
  <2>4. CASE FlushTemporary(t) \/ Replace(t) \/ FlushDirectory(t) \/ Vanished(t)
    BY <2>4 DEF FlushTemporary, Replace, FlushDirectory, Vanished, disk
  <2> QED BY <2>1, <2>2, <2>3, <2>4 DEF StoreStep
<1>4. \A u \in Threads : call'[u].at # "out" => StateBehind(call'[u].state)
  BY <1>1, <1>2 DEF JobInv
<1>5. \A i \in Inodes : content'[i] = Torn \/ StateBehind(content'[i])
  BY <1>1, <1>3 DEF JobInv
<1> QED BY <1>4, <1>5 DEF JobInv, RebasesAlone, MemoryBehind, InHand, FabricBehind, StateBehind

LEMMA CommitJobs ==
  ASSUME TurnInv, FileShape, JobInv, NEW t \in Threads, CommitNext(t)
  PROVE  JobInv'
<1>0. HandlerShape /\ CallShape /\ epoch \in Nat
  BY DEF TurnInv, JobInv
<1>a. handler[t].at = "rebased" => FALSE
  BY DEF CommitNext, CheckDegraded, TakeSnapshot, ReadSequence, CallStore, InStore, RecordCommit
<1>b. t \in Sessions /\ handler[t].op = "rebase" => Sessions = {t}
  BY DEF JobInv, RebasesAlone
<1>1. CASE CheckDegraded(t)
  <2>1. Goes(t, "cleared") \/ Replies(t) BY <1>1 DEF CheckDegraded
  <2>2. /\ handler'[t].at \in {"cleared", "idle"}
        /\ handler'[t].op \in {handler[t].op, "none"}
        /\ \A u \in Threads \ {t} : handler'[u] = handler[u]
    BY <1>0, <2>1, GoesKeeps, RepliesKeeps DEF Idle
  <2>3. UNCHANGED <<content, call, epoch, fabric>>
    BY <1>1 DEF CheckDegraded, storeVars, memory
  <2>4. MemoryBehind' BY <1>a, <2>2, <2>3, MemoryKept
  <2> QED BY <1>b, <2>2, <2>3, <2>4, ThreadJobs DEF JobInv, InHand
<1>2. CASE TakeSnapshot(t) \/ ReadSequence(t)
  <2>1. UNCHANGED <<content, call, epoch, fabric>>
    BY <1>2 DEF TakeSnapshot, ReadSequence, storeVars, memory
  <2>2. \/ handler'[t].fabric = fabric
        \/ handler[t].at = "snapshot" /\ handler'[t].fabric = handler[t].fabric
    <3>1. /\ t \in DOMAIN handler
          /\ handler[t] =
               [at |-> handler[t].at, op |-> handler[t].op, id |-> handler[t].id,
                job |-> handler[t].job, incarnation |-> handler[t].incarnation,
                epoch |-> handler[t].epoch, fabric |-> handler[t].fabric,
                sequence |-> handler[t].sequence, late |-> handler[t].late]
      BY ONLY <1>0, t \in Threads DEF HandlerShape
    <3>2. CASE TakeSnapshot(t) BY ONLY <3>1, <3>2 DEF TakeSnapshot
    <3>3. CASE ReadSequence(t) BY ONLY <3>1, <3>3 DEF ReadSequence
    <3> QED BY ONLY <1>2, <3>2, <3>3
  <2>3. handler[t].at \in {"cleared", "snapshot"} BY <1>2 DEF TakeSnapshot, ReadSequence
  <2>4. FabricBehind(fabric, epoch) BY <2>3, NobodyRebases DEF JobInv, MemoryBehind
  <2>5. FabricBehind(handler'[t].fabric, epoch) BY <2>2, <2>4 DEF JobInv, InHand
  <2>6. /\ handler'[t].at \in {"snapshot", "sequenced"} /\ handler'[t].op = handler[t].op
        /\ \A u \in Threads \ {t} : handler'[u] = handler[u]
    BY <1>0, <1>2, SnapshotKeeps
  <2>7. MemoryBehind' BY <1>a, <2>1, <2>6, MemoryKept
  <2> QED BY <1>b, <2>1, <2>5, <2>6, <2>7, ThreadJobs DEF JobInv, InHand
<1>3. CASE CallStore(t)
  <2>1. /\ UNCHANGED <<content, epoch, fabric>> /\ handler[t].at = "sequenced"
        /\ call' = [call EXCEPT ![t] =
             [at |-> IF Conflicts(StateToStore(t).sequence) THEN "failed" ELSE "open",
              state |-> StateToStore(t), handle |-> Absent]]
        /\ Goes(t, "storing")
    BY <1>3 DEF CallStore, Call, disk, memory
  <2>2. call'[t].state = StateToStore(t) /\ \A u \in Threads \ {t} : call'[u] = call[u]
    BY <1>0, <2>1 DEF CallShape
  <2>3. FabricBehind(handler[t].fabric, epoch) BY <2>1 DEF JobInv, InHand
  <2>4. StateBehind(call'[t].state) BY <1>0, <2>2, <2>3 DEF StateToStore, StateBehind
  <2>5. /\ handler'[t].at = "storing" /\ handler'[t].op = handler[t].op
        /\ \A u \in Threads \ {t} : handler'[u] = handler[u]
    BY <1>0, <2>1, GoesKeeps
  <2>6. MemoryBehind' BY <1>a, <2>1, <2>5, MemoryKept
  <2> QED BY <1>b, <2>1, <2>2, <2>4, <2>5, <2>6, ThreadJobs DEF InHand
<1>4. CASE InStore(t)
  BY <1>0, <1>4, StoreJobs DEF InStore, memory
<1>5. CASE RecordCommit(t)
  <2>1. /\ UNCHANGED <<content, epoch, fabric>> /\ Return(t) /\ Goes(t, "committed")
    BY <1>5 DEF RecordCommit, disk
  <2>2. /\ call'[t].at = "out" /\ \A u \in Threads \ {t} : call'[u] = call[u]
        /\ handler'[t].at = "committed" /\ handler'[t].op = handler[t].op
        /\ \A u \in Threads \ {t} : handler'[u] = handler[u]
    BY <1>0, <2>1, GoesKeeps, ReturnFacts DEF NoCall
  <2>3. MemoryBehind' BY <1>a, <2>1, <2>2, MemoryKept
  <2> QED BY <1>b, <2>1, <2>2, <2>3, ThreadJobs DEF InHand
<1> QED BY <1>1, <1>2, <1>3, <1>4, <1>5 DEF CommitNext

\* Refused by a job that has reached the epoch: whom it rebased before is behind that job.
LEMMA VisitedBehind ==
  ASSUME NEW e \in Nat, NEW f \in Nat, NEW jobs, Behind(jobs, e), NEW visited,
         visited # {} => f <= e
  PROVE  Behind([j \in DOMAIN jobs |-> IF j \in visited THEN [jobs[j] EXCEPT !.epoch = f]
                                       ELSE jobs[j]], e)
<1> DEFINE more == [j \in DOMAIN jobs |-> IF j \in visited THEN [jobs[j] EXCEPT !.epoch = f]
                                          ELSE jobs[j]]
<1>1. Len(jobs) \in Nat /\ DOMAIN jobs = 1..Len(jobs) BY DEF Behind
<1>2. more = [j \in 1..Len(jobs) |-> more[j]] BY <1>1
<1>3. ASSUME NEW j \in 1..Len(jobs), NEW g, g = IF j \in visited THEN f ELSE jobs[j].epoch
      PROVE  more[j] = [boot |-> jobs[j].boot, incarnation |-> jobs[j].incarnation, epoch |-> g]
  <2>1. jobs[j] = [boot |-> jobs[j].boot, incarnation |-> jobs[j].incarnation,
                   epoch |-> jobs[j].epoch]
    BY DEF Behind
  <2>2. more[j] = IF j \in visited THEN [jobs[j] EXCEPT !.epoch = f] ELSE jobs[j] BY <1>1
  <2>3. [jobs[j] EXCEPT !.epoch = f] =
          [boot |-> jobs[j].boot, incarnation |-> jobs[j].incarnation, epoch |-> f]
    BY <2>1
  <2> HIDE DEF more
  <2> QED BY <1>3, <2>1, <2>2, <2>3
<1> HIDE DEF more
<1>4. Len(more) = Len(jobs) BY <1>1, <1>2
<1>5. ASSUME NEW j \in 1..Len(jobs)
      PROVE  /\ more[j] = [boot |-> more[j].boot, incarnation |-> more[j].incarnation,
                           epoch |-> more[j].epoch]
             /\ more[j].epoch \in Nat /\ more[j].epoch <= e
  <2>1. PICK g : g = IF j \in visited THEN f ELSE jobs[j].epoch OBVIOUS
  <2>2. g \in Nat /\ g <= e BY <2>1 DEF Behind
  <2>3. more[j] = [boot |-> jobs[j].boot, incarnation |-> jobs[j].incarnation, epoch |-> g]
    BY <1>3, <2>1
  <2> QED BY <2>2, <2>3
<1>6. Behind(more, e) BY <1>1, <1>2, <1>4, <1>5 DEF Behind
<1> QED BY <1>6 DEF more

LEMMA RefuseBehind ==
  ASSUME JobInv, NEW s \in Sessions, Refuse(s), FabricBehind(fabric, epoch)
  PROVE  FabricBehind(fabric', epoch)
<1>1. PICK visited \in SUBSET {j \in DOMAIN fabric.jobs :
                                 handler[s].op = "rebase" /\ Job(j).epoch < handler[s].epoch} :
        fabric' = [fabric EXCEPT !.jobs =
                    [j \in DOMAIN @ |-> IF j \in visited
                       THEN [@[j] EXCEPT !.epoch = handler[s].epoch] ELSE @[j]]]
  BY DEF Refuse
<1>2. PICK more : more = [j \in DOMAIN fabric.jobs |->
                            IF j \in visited THEN [fabric.jobs[j] EXCEPT !.epoch = handler[s].epoch]
                            ELSE fabric.jobs[j]]
  OBVIOUS
<1>3. fabric' = [jobs |-> more, done |-> fabric.done]
  BY <1>1, <1>2 DEF FabricBehind
<1>4. Behind(fabric.jobs, epoch) /\ epoch \in Nat /\ s \in Threads
  BY CoordinatorAssumption DEF FabricBehind, JobInv
<1>5. CASE handler[s].op = "rebase"
  <2>1. handler[s].epoch \in Nat BY <1>4, <1>5 DEF Refuse, JobInv, InHand
  <2>2. ~Rebasable(fabric.jobs, handler[s].epoch)
    BY <1>5 DEF Refuse, Effects
  <2>3. PICK j \in DOMAIN fabric.jobs : ~(fabric.jobs[j].epoch < handler[s].epoch)
    BY <2>2 DEF Rebasable
  <2>4. j \in 1..Len(fabric.jobs) BY <1>4, <2>3 DEF Behind
  <2>5. fabric.jobs[j].epoch \in Nat /\ fabric.jobs[j].epoch <= epoch
    BY <1>4, <2>4 DEF Behind
  <2>6. handler[s].epoch <= epoch BY <1>4, <2>1, <2>3, <2>5
  <2>7. Behind(more, epoch) BY <1>2, <1>4, <2>1, <2>6, VisitedBehind
  <2> QED BY <1>3, <2>7 DEF FabricBehind
<1>6. CASE handler[s].op # "rebase"
  <2>1. visited = {} BY <1>1, <1>6
  <2>2. Behind(more, epoch) BY <1>2, <1>4, <2>1 DEF Behind
  <2> QED BY <1>3, <2>2 DEF FabricBehind
<1> QED BY <1>5, <1>6

\* What a session does to the fabric; a rebase is the only way past the epoch.
LEMMA EffectBehind ==
  ASSUME JobInv, NEW s \in Sessions, Effect(s), FabricBehind(fabric, epoch)
  PROVE  FabricBehind(fabric', IF handler[s].op = "rebase" THEN handler[s].epoch ELSE epoch)
<1>0. Behind(fabric.jobs, epoch) /\ epoch \in Nat /\ s \in Threads
  BY CoordinatorAssumption DEF JobInv, FabricBehind
<1>1. handler[s].at = "received" /\ fabric' \in Effects(s, handler[s])
  BY DEF Effect
<1>2. CASE handler[s].op = "rebase"
  <2>1. handler[s].epoch \in Nat BY <1>0, <1>1, <1>2 DEF JobInv, InHand
  <2>2. fabric' = [jobs |-> Rebased(fabric.jobs, handler[s].epoch),
                   done |-> fabric.done \cup {handler[s].id}]
    BY <1>1, <1>2 DEF Effects
  <2>3. Behind(Rebased(fabric.jobs, handler[s].epoch), handler[s].epoch)
    BY <1>0, <2>1, RebasedBehind
  <2> QED BY <1>2, <2>2, <2>3 DEF FabricBehind
<1>3. CASE handler[s].op # "rebase"
  <2>2. PICK jobs :
          /\ fabric' = [jobs |-> jobs, done |-> fabric.done \cup {handler[s].id}]
          /\ \/ /\ handler[s].op = "register"
                /\ jobs = Append(fabric.jobs, [boot |-> session[s].boot, incarnation |-> 1,
                                               epoch |-> handler[s].epoch])
             \/ jobs = fabric.jobs
             \/ jobs = [fabric.jobs EXCEPT ![handler[s].job].boot = session[s].boot,
                                           ![handler[s].job].incarnation = @ + 1]
    BY <1>1, <1>3 DEF Effects
  <2>3. handler[s].op = "register" => handler[s].epoch = epoch
    BY <1>0, <1>1 DEF JobInv, InHand
  <2>4. Behind(jobs, epoch)
    <3>1. CASE jobs = Append(fabric.jobs, [boot |-> session[s].boot, incarnation |-> 1,
                                           epoch |-> epoch])
      <4>1. epoch <= epoch BY <1>0
      <4> QED BY <1>0, <3>1, <4>1, AppendBehind
    <3>2. CASE jobs = [fabric.jobs EXCEPT ![handler[s].job].boot = session[s].boot,
                                          ![handler[s].job].incarnation = @ + 1]
      BY <1>0, <3>2, ReplacedBehind
    <3> QED BY <1>0, <2>2, <2>3, <3>1, <3>2
  <2> QED BY <1>3, <2>2, <2>4 DEF FabricBehind
<1> QED BY <1>2, <1>3

LEMMA SessionJobs ==
  ASSUME NEW only, Rebasing = FALSE \/ Sessions = {only},
         TurnInv, JobInv, NEW s \in Sessions, SessionNext(s)
  PROVE  JobInv'
<1>0. HandlerShape /\ CallShape /\ s \in Threads /\ epoch \in Nat
  BY CoordinatorAssumption DEF TurnInv, JobInv
<1>a. handler[s].op = "rebase" \/ handler[s].at = "rebased" => Sessions = {s}
  BY DEF JobInv, RebasesAlone
<1>1. CASE \/ \E b \in Boots : Hello(s, b)
           \/ Disconnect(s)
           \/ \E j \in DOMAIN fabric.jobs : LookupHandle(s, j)
  <2>1. UNCHANGED <<content, call, epoch, fabric, handler>>
    BY <1>1 DEF Hello, Disconnect, LookupHandle, storeVars, memory
  <2> QED BY <2>1 DEF JobInv, RebasesAlone, MemoryBehind, InHand, FabricBehind, StateBehind
<1>2. CASE \/ \E j \in DOMAIN fabric.jobs : ReceiveAdmitReplacement(s, j)
           \/ ReceiveRegisterJob(s)
           \/ ReceiveMutate(s)
           \/ \E e \in 1..MaxEpoch : ReceiveRebaseEpoch(s, e)
  <2>1. PICK op, job, incarnation, e :
          /\ \/ e = epoch /\ op # "rebase"
             \/ Sessions = {s} /\ op = "rebase" /\ e \in Nat
          /\ Receive(s, op, job, incarnation, e)
    <3>1. CASE \E e \in 1..MaxEpoch : ReceiveRebaseEpoch(s, e)
      <4>1. PICK e \in 1..MaxEpoch : ReceiveRebaseEpoch(s, e) BY <3>1
      <4>2. e \in Nat BY CoordinatorAssumption
      <4>3. Sessions = {s} BY <4>1 DEF ReceiveRebaseEpoch
      <4>4. Receive(s, "rebase", 0, 0, e) BY <4>1 DEF ReceiveRebaseEpoch
      <4> QED BY <4>2, <4>3, <4>4
    <3> QED BY <1>2, <3>1 DEF ReceiveAdmitReplacement, ReceiveRegisterJob, ReceiveMutate
  <2>2. UNCHANGED <<content, call, epoch, fabric>> /\ handler[s].at = "idle"
    BY <2>1 DEF Receive, CanReceive, storeVars, memory
  <2>3. /\ handler'[s].at = "received" /\ handler'[s].epoch = e /\ handler'[s].op = op
        /\ \A u \in Threads \ {s} : handler'[u] = handler[u]
    BY <1>0, <2>1, ReceiveKeeps
  <2>4. MemoryBehind' BY <1>0, <2>2, <2>3, MemoryKept
  <2> QED BY <1>0, <2>1, <2>2, <2>3, <2>4, ThreadJobs DEF JobInv, InHand
<1>3. CASE Effect(s) \/ Refuse(s)
  <2>1. UNCHANGED <<content, call, epoch>> /\ handler[s].at = "received"
    BY <1>3 DEF Effect, Refuse, storeVars
  <2>2. /\ handler'[s].at = "rebased" => Effect(s) /\ handler[s].op = "rebase"
        /\ handler'[s].at \in {"rebased", "effected", "idle"}
        /\ handler'[s].op \in {handler[s].op, "none"}
        /\ \A u \in Threads \ {s} : handler'[u] = handler[u]
    BY <1>0, <1>3, EffectKeeps, RepliesKeeps DEF Refuse, Idle
  <2>3. /\ FabricBehind(fabric, epoch) /\ \A r \in Sessions : handler[r].at # "rebased"
    BY <1>0, <2>1, NobodyRebases DEF JobInv, MemoryBehind
  <2>4. MemoryBehind'
    <3>1. CASE handler'[s].at = "rebased"
      <4>1. Sessions = {s} /\ handler'[s].epoch = handler[s].epoch
        BY <1>0, <1>a, <2>2, <3>1, EffectKeeps
      <4>2. FabricBehind(fabric', handler[s].epoch) BY <2>2, <2>3, <3>1, EffectBehind
      <4>3. handler[s].epoch \in Nat BY <1>0, <2>1, <2>2, <3>1 DEF JobInv, InHand
      <4> QED BY <3>1, <4>1, <4>2, <4>3 DEF MemoryBehind, FabricBehind
    <3>2. CASE handler'[s].at # "rebased"
      <4>1. FabricBehind(fabric', epoch)
        <5>1. CASE Refuse(s) BY <2>3, <5>1, RefuseBehind
        <5>2. CASE Effect(s)
          <6>1. handler[s].op # "rebase" BY <1>0, <3>2, <5>2, EffectKeeps
          <6> QED BY <2>3, <5>2, <6>1, EffectBehind
        <5> QED BY <1>3, <5>1, <5>2
      <4>2. \A r \in Sessions : handler'[r].at # "rebased"
        BY <2>2, <2>3, <3>2, CoordinatorAssumption
      <4> QED BY <2>1, <4>1, <4>2 DEF MemoryBehind, FabricBehind
    <3> QED BY <3>1, <3>2
  <2> QED BY <1>0, <1>a, <2>1, <2>2, <2>4, ThreadJobs DEF JobInv, InHand
<1>4. CASE SetEpoch(s)
  <2>1. /\ handler[s].at = "rebased" /\ epoch' = handler[s].epoch /\ Goes(s, "effected")
        /\ UNCHANGED <<content, call, fabric>>
    BY <1>4 DEF SetEpoch, storeVars
  <2>2. Sessions = {s} BY <1>a, <2>1
  <2>3. /\ handler'[s].at = "effected" /\ \A u \in Threads \ {s} : handler'[u] = handler[u]
    BY <1>0, <2>1, GoesKeeps
  <2>4. handler'[Main].at = "idle"
    BY <2>1, <2>3, CoordinatorAssumption DEF TurnInv, Turns
  <2>5. epoch' \in Nat /\ FabricBehind(fabric, epoch') BY <2>1 DEF JobInv, MemoryBehind
  <2>6. RebasesAlone' /\ MemoryBehind'
    BY <2>1, <2>2, <2>3, <2>5 DEF RebasesAlone, MemoryBehind, FabricBehind
  <2>7. \A t \in Threads : InHand(handler'[t], epoch')
    BY <2>2, <2>3, <2>4, CoordinatorAssumption DEF InHand
  <2> QED BY <2>1, <2>5, <2>6, <2>7 DEF JobInv, InHand, FabricBehind, StateBehind
<1>5. CASE FailCommit(s) \/ Reply(s)
  <2>1. /\ UNCHANGED <<content, epoch, fabric>> /\ Replies(s)
        /\ call' = call \/ Return(s)
    BY <1>5 DEF FailCommit, Reply, storeVars, memory, disk
  <2>2. /\ handler'[s].at = "idle" /\ handler'[s].op = "none"
        /\ \A u \in Threads \ {s} : handler'[u] = handler[u]
    BY <1>0, <2>1, RepliesKeeps DEF Idle
  <2>3. /\ \A u \in Threads \ {s} : call'[u] = call[u]
        /\ call'[s] = call[s] \/ call'[s].at = "out"
    BY <1>0, <2>1, ReturnFacts DEF NoCall
  <2>4. handler[s].at # "rebased" BY <1>5 DEF FailCommit, Reply
  <2>5. MemoryBehind' BY <1>0, <2>1, <2>2, <2>4, MemoryKept
  <2> QED BY <1>0, <2>1, <2>2, <2>3, <2>5, ThreadJobs DEF JobInv, InHand
<1> QED BY <1>1, <1>2, <1>3, <1>4, <1>5 DEF SessionNext

\* Start rebases every job of the state it loads onto the next epoch.
LEMMA StartJobs ==
  ASSUME TurnInv, FileShape, JobInv, Start
  PROVE  JobInv'
<1> USE CoordinatorAssumption, StoreAssumption
<1>1. /\ status = "down" /\ Goes(Main, "effected") /\ UNCHANGED <<content, call>>
  BY DEF Start, Boot, storeVars
<1>2. epoch' \in Nat /\ FabricBehind(fabric', epoch')
  <2>1. CASE live = Absent
    <3>1. fabric' = [jobs |-> <<>>, done |-> {}] /\ epoch' = 1
      BY <2>1 DEF Start, Boot, Loaded, EmptyFabric
    <3> QED BY <3>1, NoneBehind DEF FabricBehind
  <2>2. CASE live # Absent
    <3>1. /\ live \in Inodes /\ content[live] # Torn
          /\ fabric' = [content[live].fabric EXCEPT !.jobs = Rebased(@, content[live].epoch + 1)]
          /\ epoch' = content[live].epoch + 1
      BY <2>2 DEF Start, Boot, Loaded, Restored, FileShape
    <3>2. StateBehind(content[live]) BY <3>1 DEF JobInv
    <3>3. epoch' \in Nat /\ Behind(content[live].fabric.jobs, content[live].epoch)
      BY <3>1, <3>2 DEF StateBehind, FabricBehind
    <3>4. Behind(Rebased(content[live].fabric.jobs, epoch'), epoch') BY <3>3, RebasedBehind
    <3>5. fabric' = [jobs |-> Rebased(content[live].fabric.jobs, epoch'),
                     done |-> content[live].fabric.done]
      BY <3>1, <3>2 DEF StateBehind, FabricBehind
    <3> QED BY <3>3, <3>4, <3>5 DEF FabricBehind
  <2> QED BY <2>1, <2>2
<1>3. /\ handler'[Main].at = "effected"
      /\ \A s \in Sessions : handler'[s] = handler[s] /\ handler'[s].at = "idle"
  BY <1>1, GoesKeeps DEF TurnInv, Turns
<1>4. RebasesAlone' BY <1>3 DEF JobInv, RebasesAlone
<1>5. MemoryBehind' BY <1>2, <1>3 DEF MemoryBehind, FabricBehind
<1>6. \A t \in Threads : InHand(handler'[t], epoch') BY <1>3 DEF InHand
<1> QED BY <1>1, <1>2, <1>4, <1>5, <1>6 DEF JobInv, InHand, FabricBehind, StateBehind

LEMMA DeathJobs ==
  ASSUME JobInv, Gone, ProcessDies \/ PowerFails
  PROVE  JobInv'
<1> USE CoordinatorAssumption
<1>1. /\ fabric' = [jobs |-> <<>>, done |-> {}] /\ epoch' = 0
      /\ \A t \in Threads : /\ handler'[t].at = "idle" /\ handler'[t].op = "none"
                            /\ call'[t].at = "out"
  BY DEF Gone, ProcessDies, PowerFails, EmptyFabric, Idle, NoCall
<1>2. \A i \in Inodes : content'[i] = content[i] \/ content'[i] = Torn
  BY DEF ProcessDies, PowerFails, disk
<1>3. FabricBehind(fabric', epoch') BY <1>1, NoneBehind DEF FabricBehind
<1>4. \A i \in Inodes : content'[i] = Torn \/ StateBehind(content'[i])
  BY <1>2 DEF JobInv
<1>5. RebasesAlone' /\ MemoryBehind'
  BY <1>1, <1>3 DEF RebasesAlone, MemoryBehind, FabricBehind
<1>6. \A t \in Threads : InHand(handler'[t], epoch') BY <1>1 DEF InHand
<1> QED BY <1>1, <1>4, <1>5, <1>6 DEF JobInv, InHand, FabricBehind, StateBehind

LEMMA NextJobs ==
  ASSUME NEW only, Rebasing = FALSE \/ Sessions = {only},
         TurnInv, FileShape, JobInv, [Next]_vars
  PROVE  JobInv'
<1>0. Main \in Threads /\ Main \notin Sessions /\ HandlerShape
  BY CoordinatorAssumption DEF TurnInv
<1>1. CASE UNCHANGED vars \/ Stop
  <2>1. UNCHANGED <<content, call, epoch, fabric, handler>>
    BY <1>1 DEF vars, Stop, storeVars, memory
  <2> QED BY <2>1 DEF JobInv, RebasesAlone, MemoryBehind, InHand, FabricBehind, StateBehind
<1>2. CASE Start BY <1>2, StartJobs
<1>3. CASE Serve \/ FinalCommit
  <2>1. /\ UNCHANGED <<content, call, epoch, fabric>>
        /\ Replies(Main) \/ Goes(Main, "effected")
        /\ handler[Main].at \in {"idle", "committed"}
    BY <1>0, <1>3 DEF Serve, FinalCommit, Joined, storeVars, memory
  <2>2. /\ handler'[Main].at \in {"idle", "effected"}
        /\ \A u \in Threads \ {Main} : handler'[u] = handler[u]
    BY <1>0, <2>1, RepliesKeeps, GoesKeeps DEF Idle
  <2>3. MemoryBehind' BY <1>0, <2>1, <2>2, MemoryKept
  <2> QED BY <1>0, <2>1, <2>2, <2>3, ThreadJobs DEF JobInv, InHand
<1>4. CASE Exit \/ Crash
  BY <1>4, DeathJobs DEF Exit, Crash
<1> QED BY <1>1, <1>2, <1>3, <1>4, SessionJobs, CommitJobs DEF Next, MainNext

\* Whatever whole state is on disk can be started from, also after a power loss
\* in the middle of a commit: no job is ahead of the epoch stored with it
\* (StateToStore, Start, RebaseEpoch).  REBASE_EPOCH must not be allowed, or have
\* no other session to race: rebase_race is what happens between two.
THEOREM RestartsAreNeverRefused ==
  ASSUME NEW only, Rebasing = FALSE \/ Sessions = {only}
  PROVE  Spec => []Startable
<1>1. Init => TurnInv /\ FileShape /\ JobInv
  <2>1. Init => JobInv
    BY CoordinatorAssumption, NoneBehind
    DEF Init, StoreInit, JobInv, RebasesAlone, MemoryBehind, InHand, FabricBehind,
        EmptyFabric, Idle, NoCall
  <2>2. Init => FileShape BY InitEpochs DEF EpochInv
  <2> QED BY <2>1, <2>2, InitTurns
<1>2. TurnInv /\ FileShape /\ JobInv /\ [Next]_vars => TurnInv' /\ FileShape' /\ JobInv'
  BY NextTurns, NextShape, NextJobs
<1>3. FileShape /\ JobInv => Startable
  <2> SUFFICES ASSUME FileShape, JobInv, NEW inode \in {live, liveOnDisk},
                      Loaded(inode) \notin {Absent, Torn}
               PROVE  Rebasable(content[inode].fabric.jobs, content[inode].epoch + 1)
    BY DEF Startable
  <2>1. inode \in Inodes /\ content[inode] # Torn
    BY DEF Loaded, FileShape
  <2>2. content[inode].epoch \in Nat /\ Behind(content[inode].fabric.jobs, content[inode].epoch)
    BY <2>1 DEF JobInv, StateBehind, FabricBehind
  <2> QED BY <2>2, BehindIsRebasable
<1> QED BY <1>1, <1>2, <1>3, PTL DEF Spec

-----------------------------------------------------------------------------
(***************************************************************************)
(* One session: what is acknowledged is durable.  The argument: the thread *)
(* that commits carries the fabric as it is, and the live file lacks at    *)
(* most the request being executed; the file the flushed directory names   *)
(* lacks at most one mutation of the live one, and none that was           *)
(* acknowledged, because the directory is flushed before the answer; a     *)
(* coordinator whose commit failed is degraded and stores nothing more.    *)
(***************************************************************************)

\* A stored state is neither of the model values that stand for no state.
StatesAreStored ==
  \A e, q, f : [epoch |-> e, sequence |-> q, fabric |-> f] \notin {Torn, Absent}

\* A thread between the check of the degraded flag and its answer.
Committing == {"cleared", "snapshot", "sequenced", "storing", "committed"}

\* Fabrics are records, and so are the states in the files.
IsFabric(f) == f = [jobs |-> f.jobs, done |-> f.done]
IsState(x) ==
  /\ x = [epoch |-> x.epoch, sequence |-> x.sequence, fabric |-> x.fabric]
  /\ IsFabric(x.fabric)
  /\ x.sequence \in Nat \ {0}

Shapes ==
  /\ IsFabric(fabric) /\ commitSequence \in Nat /\ degraded \in BOOLEAN
  /\ \A i \in Inodes : content[i] # Torn => IsState(content[i])

\* What a file that is no file, or whole, holds.
Kept(inode) == IF inode = Absent THEN {} ELSE content[inode].fabric.done
SequenceOf(inode) == IF inode = Absent THEN 0 ELSE content[inode].sequence

\* A commit under way carries the fabric as it is, under the next sequence.
UnderwayOf(t) ==
  /\ handler[t].at \in Committing => degraded = FALSE
  /\ handler[t].at \in {"snapshot", "sequenced"} => handler[t].fabric = fabric
  /\ handler[t].at \in {"sequenced", "storing"} => handler[t].sequence = commitSequence + 1
  /\ call[t].at # "out" =>
       /\ IsState(call[t].state)
       /\ call[t].state.fabric = fabric /\ call[t].state.sequence = commitSequence + 1
  /\ call[t].at \in {"flush", "replace"} => content[temporary] = call[t].state
  /\ call[t].at \in {"directory", "done"} => live # Absent /\ content[live] = call[t].state
  /\ call[t].at = "done" => liveOnDisk = live
  /\ handler[t].at = "committed" =>
       live # Absent /\ liveOnDisk = live /\ content[live].fabric = fabric

Underway == \A t \in Threads : UnderwayOf(t)

\* The two files a restart may find: the flushed one is the older, by at most
\* one mutation, and lacks nothing that was acknowledged.
Settled ==
  /\ status \in {"serving", "stopping"} /\ degraded = FALSE
  /\ \A t \in Threads : call[t].at \notin {"directory", "failed"}

Sequenced ==
  /\ status # "down" /\ degraded = FALSE
  /\ \A t \in Threads : call[t].at \notin {"directory", "done", "failed"}

Places ==
  /\ live # liveOnDisk => SequenceOf(live) > SequenceOf(liveOnDisk)
  /\ Kept(liveOnDisk) \subseteq Kept(live)
  /\ \A m, n \in Kept(live) \ Kept(liveOnDisk) : m = n
  /\ acked \subseteq Kept(liveOnDisk)
  /\ Settled => live = liveOnDisk
  /\ Sequenced => commitSequence = SequenceOf(live)

\* The fabric in memory is ahead of the live file by the request being executed,
\* unless the coordinator is degraded.
Executed(s) == IF handler[s].at \in {"idle", "received"} THEN {} ELSE {handler[s].id}

Ahead ==
  /\ issued <= MaxMutations
  /\ fabric.done \subseteq 1 .. issued /\ Kept(live) \subseteq 1 .. issued
  /\ status # "down" => Kept(live) \subseteq fabric.done
  /\ \A s \in Sessions :
       /\ status # "down" /\ degraded = FALSE => fabric.done \subseteq Kept(live) \cup Executed(s)
       /\ Executed(s) \subseteq fabric.done

DurableInv == Shapes /\ Underway /\ Places /\ Ahead

\* One thread acts while every other one waits.
Alone(t) ==
  /\ t \in Threads
  /\ \A u \in Threads \ {t} : /\ handler[u].at = "idle" /\ call[u].at = "out"
                              /\ handler'[u] = handler[u] /\ call'[u] = call[u]

\* The files a restart may find stay as they are.
SameFiles ==
  /\ UNCHANGED <<live, liveOnDisk>>
  /\ \A i \in {live, liveOnDisk} \ {Absent} : content'[i] = content[i]
-----------------------------------------------------------------------------
LEMMA SameFilesKeep ==
  ASSUME SameFiles
  PROVE  /\ Kept(live)' = Kept(live) /\ Kept(liveOnDisk)' = Kept(liveOnDisk)
         /\ SequenceOf(live)' = SequenceOf(live)
         /\ SequenceOf(liveOnDisk)' = SequenceOf(liveOnDisk)
BY DEF SameFiles, Kept, SequenceOf

LEMMA UnchangedFiles ==
  ASSUME UNCHANGED disk
  PROVE  SameFiles /\ UNCHANGED <<content, temporary>>
BY DEF disk, SameFiles

\* With one session, a thread that is executing something is alone.
LEMMA OthersWait ==
  ASSUME TurnInv, NEW only, Sessions = {only}, NEW t \in Threads, handler[t].at # "idle"
  PROVE  /\ status # "down" /\ (t = only \/ t = Main)
         /\ \A u \in Threads \ {t} : handler[u].at = "idle" /\ call[u].at = "out"
BY CoordinatorAssumption DEF TurnInv, Turns

\* A fabric in memory only loses or changes its files in steps of the store.
LEMMA ShapesStay ==
  ASSUME Shapes, UNCHANGED content, IsFabric(fabric)',
         commitSequence' \in Nat, degraded' \in BOOLEAN
  PROVE  Shapes'
BY DEF Shapes, IsState

LEMMA UnderwayAlone ==
  ASSUME NEW t, Alone(t), UnderwayOf(t)'
  PROVE  Underway'
<1>1. \A u \in Threads \ {t} : UnderwayOf(u)'
  BY DEF Alone, UnderwayOf, Committing
<1> QED BY <1>1 DEF Underway

LEMMA PlacesStay ==
  ASSUME Places, SameFiles, UNCHANGED acked,
         Settled' => live = liveOnDisk,
         Sequenced' => commitSequence' = SequenceOf(live)
  PROVE  Places'
<1>1. /\ Kept(live)' = Kept(live) /\ Kept(liveOnDisk)' = Kept(liveOnDisk)
      /\ SequenceOf(live)' = SequenceOf(live)
      /\ SequenceOf(liveOnDisk)' = SequenceOf(liveOnDisk)
  BY SameFilesKeep
<1>2. UNCHANGED <<live, liveOnDisk>> BY DEF SameFiles
<1> QED BY <1>1, <1>2 DEF Places

\* Settled and Sequenced look at status, degraded and the calls only.
LEMMA AsSettled ==
  ASSUME UNCHANGED <<status, degraded, call>>
  PROVE  (Settled' <=> Settled) /\ (Sequenced' <=> Sequenced)
BY DEF Settled, Sequenced

\* A step of the only busy thread that leaves the fabric and the files a restart
\* may find as they are.
LEMMA AloneStep ==
  ASSUME DurableInv, NEW t, Alone(t), SameFiles, Shapes', UnderwayOf(t)',
         UNCHANGED <<fabric, issued>>, status # "down",
         acked' \subseteq Kept(liveOnDisk),
         Settled' => live = liveOnDisk,
         Sequenced' => commitSequence' = SequenceOf(live),
         degraded' = FALSE => degraded = FALSE,
         t \in Sessions =>
           \/ Executed(t)' = Executed(t)
           \/ Executed(t)' = {} /\ (degraded' = FALSE => fabric.done \subseteq Kept(live))
  PROVE  DurableInv'
<1>1. /\ Kept(live)' = Kept(live) /\ Kept(liveOnDisk)' = Kept(liveOnDisk)
      /\ SequenceOf(live)' = SequenceOf(live)
      /\ SequenceOf(liveOnDisk)' = SequenceOf(liveOnDisk)
  BY SameFilesKeep
<1>2. UNCHANGED <<live, liveOnDisk>> BY DEF SameFiles
<1>3. Underway' BY UnderwayAlone
<1>4. Places' BY <1>1, <1>2 DEF DurableInv, Places
<1>5. Ahead'
  <2>1. \A s \in Sessions \ {t} : Executed(s)' = Executed(s)
    BY CoordinatorAssumption DEF Alone, Executed
  <2>2. /\ issued' <= MaxMutations
        /\ fabric'.done \subseteq 1 .. issued' /\ Kept(live)' \subseteq 1 .. issued'
        /\ status' # "down" => Kept(live)' \subseteq fabric'.done
    BY <1>1 DEF DurableInv, Ahead
  <2>3. ASSUME NEW s \in Sessions
        PROVE  /\ status' # "down" /\ degraded' = FALSE =>
                    fabric'.done \subseteq Kept(live)' \cup Executed(s)'
               /\ Executed(s)' \subseteq fabric'.done
    <3>1. CASE s # t BY <1>1, <2>1, <2>3, <3>1 DEF DurableInv, Ahead
    <3>2. CASE s = t BY <1>1, <2>3, <3>2 DEF DurableInv, Ahead
    <3> QED BY <3>1, <3>2
  <2> QED BY <2>2, <2>3 DEF Ahead
<1> QED BY <1>3, <1>4, <1>5 DEF DurableInv

LEMMA GoesCarries ==
  ASSUME HandlerShape, NEW t \in Threads, NEW at, Goes(t, at)
  PROVE  handler'[t].fabric = handler[t].fabric /\ handler'[t].sequence = handler[t].sequence
BY DEF HandlerShape, Goes

LEMMA SnapshotTaken ==
  ASSUME HandlerShape, NEW t \in Threads, TakeSnapshot(t)
  PROVE  handler'[t].at = "snapshot" /\ handler'[t].fabric = fabric
<1>1. handler' = [handler EXCEPT ![t].at = "snapshot", ![t].fabric = fabric]
  BY DEF TakeSnapshot
<1>2. /\ handler = [u \in Threads |-> handler[u]]
      /\ handler[t] = [at |-> handler[t].at, op |-> handler[t].op, id |-> handler[t].id,
                       job |-> handler[t].job, incarnation |-> handler[t].incarnation,
                       epoch |-> handler[t].epoch, fabric |-> handler[t].fabric,
                       sequence |-> handler[t].sequence, late |-> handler[t].late]
  BY DEF HandlerShape
<1>3. handler'[t] = [handler[t] EXCEPT !.at = "snapshot", !.fabric = fabric]
  BY <1>1, <1>2
<1> QED BY <1>2, <1>3

LEMMA SequenceRead ==
  ASSUME HandlerShape, NEW t \in Threads, ReadSequence(t)
  PROVE  /\ handler[t].at = "snapshot" /\ handler'[t].fabric = handler[t].fabric
         /\ handler'[t].sequence = commitSequence + 1
<1>1. /\ handler[t].at = "snapshot"
      /\ handler' = [handler EXCEPT ![t].at = "sequenced", ![t].sequence = commitSequence + 1]
  BY DEF ReadSequence
<1>2. /\ handler = [u \in Threads |-> handler[u]]
      /\ handler[t] = [at |-> handler[t].at, op |-> handler[t].op, id |-> handler[t].id,
                       job |-> handler[t].job, incarnation |-> handler[t].incarnation,
                       epoch |-> handler[t].epoch, fabric |-> handler[t].fabric,
                       sequence |-> handler[t].sequence, late |-> handler[t].late]
  BY DEF HandlerShape
<1>3. handler'[t] = [handler[t] EXCEPT !.at = "sequenced", !.sequence = commitSequence + 1]
  BY <1>1, <1>2
<1> QED BY <1>1, <1>2, <1>3

\* Nothing happens to the files, to the calls or to the fabric.
LEMMA PlainStep ==
  ASSUME DurableInv, NEW t, Alone(t), UnderwayOf(t)', status # "down",
         UNCHANGED <<disk, status, fabric, commitSequence, degraded, issued, acked>>,
         call'[t].at \in {call[t].at, "open"} \/ call'[t].at = "failed",
         call[t].at = "out",
         t \in Sessions =>
           \/ Executed(t)' = Executed(t)
           \/ Executed(t)' = {} /\ (degraded' = FALSE => fabric.done \subseteq Kept(live))
  PROVE  DurableInv'
<1>1. SameFiles /\ UNCHANGED content BY UnchangedFiles
<1>2. Shapes' BY <1>1 DEF DurableInv, Shapes, IsFabric, IsState
<1>3. (Settled' => Settled) /\ (Sequenced' => Sequenced)
  BY DEF Settled, Sequenced, Alone
<1>4. acked' \subseteq Kept(liveOnDisk) BY DEF DurableInv, Places
<1>5. /\ Settled' => live = liveOnDisk
      /\ Sequenced' => commitSequence' = SequenceOf(live)
  BY <1>3 DEF DurableInv, Places
<1> QED BY <1>1, <1>2, <1>4, <1>5, AloneStep
-----------------------------------------------------------------------------
(* The steps of commit_state outside StateStore::Commit.                   *)

LEMMA CommitDurable ==
  ASSUME StatesAreStored, TurnInv, FileInv, DurableInv, NEW only, Sessions = {only},
         NEW t \in Threads,
         CheckDegraded(t) \/ TakeSnapshot(t) \/ ReadSequence(t) \/ CallStore(t)
  PROVE  DurableInv'
<1> USE DEF TurnInv
<1>0. /\ handler[t].at # "idle" /\ handler[t].at # "storing" /\ call[t].at = "out"
      /\ status # "down" /\ \A u \in Threads \ {t} : handler[u].at = "idle" /\ call[u].at = "out"
      /\ UNCHANGED <<disk, status, fabric, commitSequence, degraded, issued, acked>>
  <2>1. handler[t].at # "idle" /\ handler[t].at # "storing"
    BY DEF CheckDegraded, TakeSnapshot, ReadSequence, CallStore
  <2>2. call[t].at = "out" BY <2>1 DEF Turns
  <2>3. UNCHANGED <<disk, status, fabric, commitSequence, degraded, issued, acked>>
    BY DEF CheckDegraded, TakeSnapshot, ReadSequence, CallStore, Call, storeVars, disk, memory
  <2> QED BY <2>1, <2>2, <2>3, OthersWait
<1>1. CASE CheckDegraded(t)
  <2>1. UNCHANGED call /\ handler[t].at = "effected" BY <1>1 DEF CheckDegraded, storeVars
  <2>2. CASE degraded = TRUE
    <3>1. Replies(t) BY <1>1, <2>2 DEF CheckDegraded
    <3>2. handler'[t] = Idle /\ \A u \in Threads \ {t} : handler'[u] = handler[u]
      BY <3>1, RepliesKeeps
    <3>3. Alone(t) BY <1>0, <2>1, <3>2 DEF Alone
    <3>4. UnderwayOf(t)' BY <1>0, <2>1, <3>2 DEF UnderwayOf, Idle, Committing
    <3>5. Executed(t)' = {} BY <3>2 DEF Executed, Idle
    <3> QED BY <1>0, <2>1, <2>2, <3>3, <3>4, <3>5, PlainStep
  <2>3. CASE degraded = FALSE
    <3>1. Goes(t, "cleared") BY <1>1, <2>3 DEF CheckDegraded
    <3>2. /\ handler'[t].at = "cleared" /\ handler'[t].id = handler[t].id
          /\ \A u \in Threads \ {t} : handler'[u] = handler[u]
      BY <3>1, GoesKeeps
    <3>3. Alone(t) BY <1>0, <2>1, <3>2 DEF Alone
    <3>4. UnderwayOf(t)' BY <1>0, <2>1, <2>3, <3>2 DEF UnderwayOf, Committing
    <3>5. Executed(t)' = Executed(t) BY <2>1, <3>2 DEF Executed
    <3> QED BY <1>0, <2>1, <3>3, <3>4, <3>5, PlainStep
  <2> QED BY <2>2, <2>3 DEF DurableInv, Shapes
<1>2. CASE TakeSnapshot(t) \/ ReadSequence(t)
  <2>1. UNCHANGED call /\ handler[t].at \in {"cleared", "snapshot"}
    BY <1>2 DEF TakeSnapshot, ReadSequence, storeVars
  <2>2. /\ handler'[t].at \in {"snapshot", "sequenced"} /\ handler'[t].id = handler[t].id
        /\ \A u \in Threads \ {t} : handler'[u] = handler[u]
    BY <1>2, SnapshotKeeps
  <2>3. /\ handler'[t].fabric = fabric
        /\ handler'[t].at = "sequenced" => handler'[t].sequence = commitSequence + 1
    <3>1. CASE TakeSnapshot(t)
      BY <3>1, SnapshotTaken DEF TurnInv
    <3>2. CASE ReadSequence(t)
      <4>1. /\ handler[t].at = "snapshot" /\ handler'[t].fabric = handler[t].fabric
            /\ handler'[t].sequence = commitSequence + 1
        BY <3>2, SequenceRead DEF TurnInv
      <4> QED BY <4>1 DEF DurableInv, Underway, UnderwayOf
    <3> QED BY <1>2, <3>1, <3>2
  <2>4. degraded = FALSE BY <2>1 DEF DurableInv, Underway, UnderwayOf, Committing
  <2>5. Alone(t) BY <1>0, <2>1, <2>2 DEF Alone
  <2>6. UnderwayOf(t)' BY <1>0, <2>1, <2>2, <2>3, <2>4 DEF UnderwayOf
  <2>7. Executed(t)' = Executed(t) BY <2>1, <2>2 DEF Executed
  <2> QED BY <1>0, <2>1, <2>5, <2>6, <2>7, PlainStep
<1>3. CASE CallStore(t)
  <2>1. handler[t].at = "sequenced" /\ Goes(t, "storing") BY <1>3 DEF CallStore
  <2>2. /\ handler'[t].at = "storing" /\ handler'[t].id = handler[t].id
        /\ handler'[t].sequence = handler[t].sequence
        /\ \A u \in Threads \ {t} : handler'[u] = handler[u]
    BY <2>1, GoesKeeps, GoesCarries
  <2>3. /\ call'[t].at \in {"open", "failed"} /\ call'[t].state = StateToStore(t)
        /\ \A u \in Threads \ {t} : call'[u] = call[u]
    BY <1>3 DEF CallStore, Call, CallShape
  <2>4. /\ degraded = FALSE /\ handler[t].fabric = fabric
        /\ handler[t].sequence = commitSequence + 1
    BY <2>1 DEF DurableInv, Underway, UnderwayOf, Committing
  <2>5. /\ IsState(call'[t].state) /\ call'[t].state.fabric = fabric
        /\ call'[t].state.sequence = commitSequence + 1
    BY <2>3, <2>4 DEF StateToStore, IsState, DurableInv, Shapes
  <2>6. Alone(t) BY <1>0, <2>2, <2>3 DEF Alone
  <2>7. UnderwayOf(t)' BY <1>0, <2>2, <2>3, <2>4, <2>5 DEF UnderwayOf, IsState
  <2>8. Executed(t)' = Executed(t) BY <2>1, <2>2 DEF Executed
  <2> QED BY <1>0, <2>3, <2>6, <2>7, <2>8, PlainStep
<1> QED BY <1>1, <1>2, <1>3
-----------------------------------------------------------------------------
(* Inside StateStore::Commit.                                              *)

\* The temporary file is another one than those a restart may find.
LEMMA TemporarySame ==
  ASSUME FileInv, UNCHANGED <<live, liveOnDisk>>, NEW inode, NEW bytes,
         inode \notin {live, liveOnDisk}, content' = [content EXCEPT ![inode] = bytes]
  PROVE  SameFiles
BY StoreAssumption DEF FileInv, Paths, SameFiles

LEMMA TornShapes ==
  ASSUME Shapes, FileInv, NEW inode, NEW bytes, bytes = Torn \/ IsState(bytes),
         content' = [content EXCEPT ![inode] = bytes],
         UNCHANGED <<fabric, commitSequence, degraded>>
  PROVE  Shapes'
<1>1. \A i \in Inodes : content'[i] = content[i] \/ content'[i] = bytes
  BY DEF FileInv, Paths
<1>2. \A i \in Inodes : content'[i] # Torn => IsState(content'[i])
  BY <1>1 DEF Shapes
<1> QED BY <1>2 DEF Shapes, IsState, IsFabric

\* Opening, writing and flushing the temporary file, and failing to.
LEMMA TemporaryDurable ==
  ASSUME FileInv, TurnInv, DurableInv, NEW t, Alone(t), handler[t].at = "storing",
         status # "down",
         OpenTemporary(t) \/ WriteTemporary(t) \/ FlushTemporary(t) \/ Vanished(t) \/ IoError(t),
         UNCHANGED <<status, fabric, handler, commitSequence, degraded, issued, acked>>
  PROVE  DurableInv' /\ Kept(live)' = Kept(live)
<1> USE StoreAssumption
<1>0. /\ t \in Threads /\ CallShape /\ UnderwayOf(t) /\ Shapes
      /\ degraded = FALSE /\ handler[t].sequence = commitSequence + 1
  BY DEF Alone, TurnInv, DurableInv, Underway, UnderwayOf, Committing
<1>1. /\ SameFiles /\ Shapes'
      /\ call[t].at \in {"open", "write", "flush", "replace", "directory"}
      /\ call'[t].at \in {"write", "flush", "replace", "failed"}
      /\ call'[t].state = call[t].state
      /\ call'[t].at = "flush" => content'[temporary'] = call[t].state
      /\ call'[t].at = "replace" => UNCHANGED <<content, temporary>> /\ call[t].at = "flush"
      /\ call[t].at = "directory" => call'[t].at = "failed"
  <2>1. CASE OpenTemporary(t)
    <3> DEFINE inode == IF temporary = Absent THEN Fresh ELSE temporary
    <3>1. /\ temporary' = inode
          /\ content' = [content EXCEPT ![inode] = Torn]
          /\ Holding(t, "write", inode)
          /\ UNCHANGED <<live, liveOnDisk>> /\ call[t].at = "open"
      BY <2>1 DEF OpenTemporary
    <3>2. inode \notin {live, liveOnDisk}
      <4>1. CASE temporary = Absent
        <5>1. Fresh \in Unused BY <2>1, <4>1 DEF OpenTemporary, Fresh
        <5> QED BY <4>1, <5>1 DEF Unused, Referenced
      <4>2. CASE temporary # Absent BY <4>2 DEF FileInv, Paths
      <4> QED BY <4>1, <4>2
    <3> HIDE DEF inode
    <3>3. call'[t].at = "write" /\ call'[t].state = call[t].state
      BY <1>0, <3>1, HoldingFacts
    <3> QED BY <1>0, <3>1, <3>2, <3>3, TemporarySame, TornShapes
  <2>2. CASE WriteTemporary(t)
    <3>1. /\ call[t].at = "write" /\ call[t].handle = temporary /\ temporary \in Inodes
          /\ content[temporary] = Torn /\ temporary \notin {live, liveOnDisk}
      BY <1>0, <2>2 DEF WriteTemporary, FileInv, Written1, Paths
    <3>2. /\ content' = [content EXCEPT ![temporary] = call[t].state]
          /\ UNCHANGED <<live, liveOnDisk, temporary>> /\ Holding(t, "flush", Absent)
      BY <2>2, <3>1 DEF WriteTemporary, Written
    <3>3. call'[t].at = "flush" /\ call'[t].state = call[t].state
      BY <1>0, <3>2, HoldingFacts
    <3>4. content'[temporary'] = call[t].state BY <3>1, <3>2 DEF FileInv, Paths
    <3>5. IsState(call[t].state) BY <1>0, <3>1 DEF UnderwayOf
    <3> QED BY <1>0, <3>1, <3>2, <3>3, <3>4, <3>5, TemporarySame, TornShapes
  <2>3. CASE FlushTemporary(t) \/ Vanished(t)
    <3>1. /\ UNCHANGED <<content, live, liveOnDisk, temporary>>
          /\ call[t].at \in {"flush", "replace"}
          /\ \/ Moved(t, "replace") /\ call[t].at = "flush"
             \/ Moved(t, "failed")
      BY <2>3 DEF FlushTemporary, Vanished, disk
    <3>2. /\ call'[t].at \in {"replace", "failed"} /\ call'[t].state = call[t].state
          /\ call'[t].at = "replace" => call[t].at = "flush"
      BY <1>0, <3>1, MovedFacts
    <3> QED BY <1>0, <3>1, <3>2, ShapesStay DEF SameFiles, IsFabric, Shapes
  <2>4. CASE IoError(t)
    <3>1. /\ UNCHANGED <<live, liveOnDisk>> /\ Holding(t, "failed", Absent)
          /\ call[t].at \in {"open", "write", "flush", "replace", "directory"}
      BY <2>4 DEF IoError, ShortWrite
    <3>2. call'[t].at = "failed" /\ call'[t].state = call[t].state
      BY <1>0, <3>1, HoldingFacts
    <3>3. CASE ShortWrite(t)
      <4>1. /\ content' = [content EXCEPT ![temporary] = Torn]
            /\ temporary \notin {live, liveOnDisk}
        BY <1>0, <3>3 DEF ShortWrite, FileInv, Written1, Paths
      <4> QED BY <1>0, <3>1, <3>2, <4>1, TemporarySame, TornShapes
    <3>4. CASE UNCHANGED content
      BY <1>0, <3>1, <3>2, <3>4, ShapesStay DEF SameFiles, IsFabric, Shapes
    <3> QED BY <2>4, <3>3, <3>4 DEF IoError
  <2> QED BY <2>1, <2>2, <2>3, <2>4
<1>2. UnderwayOf(t)'
  <2>1. IsState(call[t].state) BY <1>0, <1>1 DEF UnderwayOf
  <2>2. IsState(call'[t].state) /\ call'[t].state.fabric = fabric
        /\ call'[t].state.sequence = commitSequence + 1
    BY <1>0, <1>1, <2>1 DEF UnderwayOf
  <2>3. call'[t].at \in {"flush", "replace"} => content'[temporary'] = call'[t].state
    BY <1>0, <1>1 DEF UnderwayOf
  <2> QED BY <1>0, <1>1, <2>2, <2>3 DEF UnderwayOf, IsState
<1>3. acked' \subseteq Kept(liveOnDisk) BY DEF DurableInv, Places
<1>4. Settled' => Settled
  BY <1>1 DEF Settled, Alone
<1>5. Sequenced' => Sequenced
  BY <1>1 DEF Sequenced, Alone
<1>6. /\ Settled' => live = liveOnDisk
      /\ Sequenced' => commitSequence' = SequenceOf(live)
  BY <1>4, <1>5 DEF DurableInv, Places
<1>7. Executed(t)' = Executed(t) BY DEF Executed
<1> QED BY <1>1, <1>2, <1>3, <1>6, <1>7, AloneStep, SameFilesKeep

LEMMA SequencesAreNumbers ==
  ASSUME FileInv, Shapes
  PROVE  SequenceOf(live) \in Nat /\ SequenceOf(liveOnDisk) \in Nat
BY DEF FileInv, Paths, LiveIsWhole, Shapes, IsState, SequenceOf

\* The rename: the live file now holds what the call carries.
LEMMA ReplaceDurable ==
  ASSUME FileInv, TurnInv, DurableInv, NEW only, Sessions = {only}, NEW t, Alone(t),
         handler[t].at = "storing", status # "down", Replace(t),
         UNCHANGED <<status, fabric, handler, commitSequence, degraded, issued, acked>>
  PROVE  /\ DurableInv'
         /\ Kept(live)' = fabric.done
<1>0. /\ t \in Threads /\ CallShape /\ UnderwayOf(t) /\ Shapes /\ Places /\ Ahead /\ Turns
      /\ degraded = FALSE /\ handler[t].sequence = commitSequence + 1
      /\ only \in Sessions /\ only \in Threads /\ Main \in Threads
  BY CoordinatorAssumption DEF Alone, TurnInv, DurableInv, Underway, UnderwayOf, Committing
<1>1. /\ call[t].at = "replace" /\ live' = temporary
      /\ UNCHANGED <<content, synced, liveOnDisk>> /\ Moved(t, "directory")
  BY DEF Replace
<1>2. call'[t].at = "directory" /\ call'[t].state = call[t].state
  BY <1>0, <1>1, MovedFacts
<1>3. /\ temporary \in Inodes /\ temporary # Absent
  BY <1>0, <1>1, StoreAssumption DEF FileInv, Written1
<1>4. /\ content[temporary] = call[t].state /\ IsState(call[t].state)
      /\ call[t].state.fabric = fabric /\ call[t].state.sequence = commitSequence + 1
  BY <1>0, <1>1 DEF UnderwayOf
<1>5. /\ Kept(live)' = fabric.done /\ SequenceOf(live)' = commitSequence + 1
      /\ Kept(liveOnDisk)' = Kept(liveOnDisk) /\ SequenceOf(liveOnDisk)' = SequenceOf(liveOnDisk)
  BY <1>1, <1>3, <1>4 DEF Kept, SequenceOf
<1>6. Shapes'
  BY <1>0, <1>1, ShapesStay DEF Shapes, IsFabric
<1>7. Underway'
  <2>1. UnderwayOf(t)'
    BY <1>0, <1>1, <1>2, <1>3, <1>4 DEF UnderwayOf, IsState
  <2> QED BY <2>1, UnderwayAlone
<1>8. commitSequence = SequenceOf(live)
  <2>1. Sequenced BY <1>0, <1>1 DEF Sequenced, Alone
  <2> QED BY <1>0, <2>1 DEF Places
<1>9. Places'
  <2>1. ~Settled' /\ ~Sequenced'
    BY <1>0, <1>2 DEF Settled, Sequenced
  <2>2. SequenceOf(live)' > SequenceOf(liveOnDisk)
    <3>1. SequenceOf(live) \in Nat /\ SequenceOf(liveOnDisk) \in Nat
      BY <1>0, SequencesAreNumbers
    <3>2. SequenceOf(live) >= SequenceOf(liveOnDisk)
      BY <1>0, <3>1 DEF Places
    <3> QED BY <1>5, <1>8, <3>1, <3>2
  <2>3. Kept(liveOnDisk) \subseteq fabric.done
    BY <1>0 DEF Places, Ahead
  <2>4. ASSUME NEW m \in fabric.done \ Kept(liveOnDisk), NEW n \in fabric.done \ Kept(liveOnDisk)
        PROVE  m = n
    <3>1. fabric.done \subseteq Kept(live) \cup Executed(only)
      BY <1>0 DEF Ahead
    <3>2. CASE status = "starting"
      <4>1. Executed(only) = {} BY <1>0, <3>2 DEF Turns, Executed
      <4> QED BY <1>0, <2>4, <3>1, <4>1 DEF Places
    <3>3. CASE status \in {"serving", "stopping"}
      <4>1. Settled BY <1>0, <1>1, <3>3 DEF Settled, Alone
      <4>2. live = liveOnDisk BY <1>0, <4>1 DEF Places
      <4>3. m \in Executed(only) /\ n \in Executed(only) BY <2>4, <3>1, <4>2
      <4> QED BY <4>3 DEF Executed
    <3> QED BY <1>0, <3>2, <3>3 DEF Turns
  <2>5. acked' \subseteq Kept(liveOnDisk) BY <1>0 DEF Places
  <2> QED BY <1>5, <2>1, <2>2, <2>3, <2>4, <2>5 DEF Places
<1>10. Ahead'
  <2>1. \A s \in Sessions : Executed(s)' = Executed(s) BY DEF Executed
  <2> QED BY <1>0, <1>5, <2>1 DEF Ahead
<1> QED BY <1>5, <1>6, <1>7, <1>9, <1>10 DEF DurableInv

\* The flush of the directory: the live file is what the disk names.
LEMMA FlushDurable ==
  ASSUME FileInv, TurnInv, DurableInv, NEW t, Alone(t),
         handler[t].at = "storing", status # "down", FlushDirectory(t),
         UNCHANGED <<status, fabric, handler, commitSequence, degraded, issued, acked>>
  PROVE  DurableInv' /\ Kept(live)' = Kept(live)
<1>0. /\ t \in Threads /\ CallShape /\ UnderwayOf(t) /\ Shapes /\ Places /\ Ahead
      /\ degraded = FALSE /\ handler[t].sequence = commitSequence + 1
  BY DEF Alone, TurnInv, DurableInv, Underway, UnderwayOf, Committing
<1>1. /\ call[t].at = "directory" /\ liveOnDisk' = live
      /\ UNCHANGED <<content, synced, live>> /\ Moved(t, "done")
  BY DEF FlushDirectory
<1>2. call'[t].at = "done" /\ call'[t].state = call[t].state
  BY <1>0, <1>1, MovedFacts
<1>3. Kept(live)' = Kept(live) /\ Kept(liveOnDisk)' = Kept(live)
  BY <1>1 DEF Kept
<1>4. Shapes'
  BY <1>0, <1>1, ShapesStay DEF Shapes, IsFabric
<1>5. Underway'
  <2>1. UnderwayOf(t)'
    BY <1>0, <1>1, <1>2 DEF UnderwayOf, IsState
  <2> QED BY <2>1, UnderwayAlone
<1>6. Places'
  <2>1. ~Sequenced' BY <1>0, <1>2 DEF Sequenced
  <2>2. acked' \subseteq Kept(live) BY <1>0 DEF Places
  <2> QED BY <1>1, <1>3, <2>1, <2>2 DEF Places
<1>7. Ahead'
  <2>1. \A s \in Sessions : Executed(s)' = Executed(s) BY DEF Executed
  <2> QED BY <1>0, <1>3, <2>1 DEF Ahead
<1> QED BY <1>3, <1>4, <1>5, <1>6, <1>7 DEF DurableInv

LEMMA InStoreDurable ==
  ASSUME FileInv, TurnInv, DurableInv, NEW only, Sessions = {only}, NEW t \in Threads,
         InStore(t)
  PROVE  /\ DurableInv'
         /\ Kept(live)' = Kept(live) \/ Kept(live)' = fabric.done
         /\ handler[t].at = "storing" /\ UNCHANGED acked
<1>1. /\ handler[t].at = "storing" /\ StoreStep(t)
      /\ UNCHANGED <<status, fabric, handler, commitSequence, degraded, issued, acked>>
  BY DEF InStore, memory
<1>2. \A u \in Threads \ {t} : call'[u] = call[u]
  BY <1>1, StoreStepFacts DEF TurnInv
<1>3. Alone(t) /\ status # "down" BY <1>1, <1>2, OthersWait DEF Alone
<1> QED BY <1>1, <1>3, TemporaryDurable, ReplaceDurable, FlushDurable DEF StoreStep

\* Commit has returned: the sequence is taken over, or the coordinator degrades.
LEMMA ReturnDurable ==
  ASSUME FileInv, TurnInv, DurableInv, NEW only, Sessions = {only}, NEW t \in Threads,
         RecordCommit(t) \/ (t \in Sessions /\ FailCommit(t))
  PROVE  DurableInv'
<1>0. /\ handler[t].at = "storing" /\ HandlerShape /\ CallShape
      /\ call[t].at \in {"done", "failed"} /\ Return(t)
      /\ UNCHANGED <<disk, status, fabric, issued, acked>>
  BY DEF RecordCommit, FailCommit, TurnInv
<1>1. /\ status # "down" /\ \A u \in Threads \ {t} : handler[u].at = "idle" /\ call[u].at = "out"
  BY <1>0, OthersWait
<1>2. call'[t].at = "out" /\ \A u \in Threads \ {t} : call'[u] = call[u]
  BY <1>0, ReturnFacts DEF NoCall
<1>3. SameFiles /\ UNCHANGED content BY <1>0, UnchangedFiles
<1>4. /\ UnderwayOf(t) /\ Shapes /\ Places /\ degraded = FALSE
      /\ handler[t].sequence = commitSequence + 1
  BY <1>0 DEF DurableInv, Underway, UnderwayOf, Committing
<1>5. acked' \subseteq Kept(liveOnDisk) BY <1>0, <1>4 DEF Places
<1>6. CASE RecordCommit(t)
  <2>1. /\ call[t].at = "done" /\ commitSequence' = commitSequence + 1
        /\ Goes(t, "committed") /\ UNCHANGED degraded
    BY <1>4, <1>6 DEF RecordCommit
  <2>2. /\ handler'[t].at = "committed" /\ handler'[t].id = handler[t].id
        /\ \A u \in Threads \ {t} : handler'[u] = handler[u]
    BY <1>0, <2>1, GoesKeeps
  <2>3. Alone(t) BY <1>1, <1>2, <2>2 DEF Alone
  <2>4. /\ live # Absent /\ liveOnDisk = live /\ content[live].fabric = fabric
        /\ content[live].sequence = commitSequence + 1
    BY <1>4, <2>1 DEF UnderwayOf
  <2>5. UNCHANGED <<live, liveOnDisk>> BY <1>3 DEF SameFiles
  <2>6. UnderwayOf(t)' BY <1>0, <1>2, <1>3, <1>4, <2>1, <2>2, <2>4, <2>5 DEF UnderwayOf
  <2>7. Shapes' BY <1>0, <1>3, <1>4, <2>1, ShapesStay DEF Shapes, IsFabric
  <2>8. commitSequence' = SequenceOf(live) BY <2>1, <2>4 DEF SequenceOf
  <2>9. Executed(t)' = Executed(t) BY <1>0, <2>2 DEF Executed
  <2> QED BY <1>0, <1>1, <1>3, <1>5, <2>1, <2>3, <2>4, <2>6, <2>7, <2>8, <2>9, AloneStep
<1>7. CASE t \in Sessions /\ FailCommit(t)
  <2>1. degraded' = TRUE /\ Replies(t) /\ UNCHANGED commitSequence
    BY <1>7 DEF FailCommit
  <2>2. handler'[t] = Idle /\ \A u \in Threads \ {t} : handler'[u] = handler[u]
    BY <1>0, <2>1, RepliesKeeps
  <2>3. Alone(t) BY <1>1, <1>2, <2>2 DEF Alone
  <2>4. UnderwayOf(t)' BY <1>2, <2>2 DEF UnderwayOf, Idle, Committing
  <2>5. Shapes' BY <1>0, <1>3, <1>4, <2>1, ShapesStay DEF Shapes, IsFabric
  <2>6. ~Settled' /\ ~Sequenced' BY <2>1 DEF Settled, Sequenced
  <2>7. Executed(t)' = {} BY <2>2 DEF Executed, Idle
  <2> QED BY <1>0, <1>1, <1>3, <1>5, <2>1, <2>3, <2>4, <2>5, <2>6, <2>7, AloneStep
<1> QED BY <1>6, <1>7
-----------------------------------------------------------------------------
(* The steps of a session.                                                 *)

\* Nothing the argument looks at changes, but for the turn of the process.
LEMMA NothingDurable ==
  ASSUME DurableInv, status' # "down" <=> status # "down", Settled' => Settled,
         UNCHANGED <<disk, call, handler, fabric, commitSequence, degraded, issued, acked>>
  PROVE  DurableInv'
<1>1. SameFiles /\ UNCHANGED <<content, temporary, live, liveOnDisk>>
  BY UnchangedFiles DEF SameFiles
<1>2. Shapes' BY <1>1 DEF DurableInv, Shapes, IsFabric, IsState
<1>3. Underway' BY <1>1 DEF DurableInv, Underway, UnderwayOf, IsState, IsFabric
<1>4. Sequenced' <=> Sequenced BY DEF Sequenced
<1>5. Places' BY <1>1, <1>4, PlacesStay DEF DurableInv, Places
<1>6. \A s \in Sessions : Executed(s)' = Executed(s) BY DEF Executed
<1>7. Ahead'
  <2>1. Kept(live)' = Kept(live) BY <1>1, SameFilesKeep
  <2> QED BY <1>6, <2>1 DEF DurableInv, Ahead
<1> QED BY <1>2, <1>3, <1>5, <1>7 DEF DurableInv

LEMMA ReceiveDurable ==
  ASSUME TurnInv, LateInv, DurableInv, NEW only, Sessions = {only}, NEW s \in Sessions,
         NEW op, NEW job, NEW incarnation, NEW e, Receive(s, op, job, incarnation, e)
  PROVE  DurableInv'
<1> USE CoordinatorAssumption
<1>0. /\ s \in Threads /\ status = "serving" /\ handler[s].at = "idle" /\ issued < MaxMutations
      /\ issued' = issued + 1 /\ issued \in Nat /\ MaxMutations \in Nat
      /\ UNCHANGED <<disk, call, status, fabric, commitSequence, degraded, acked>>
  BY DEF Receive, CanReceive, storeVars, disk, memory, LateInv
<1>1. /\ handler'[s].at = "received" /\ \A u \in Threads \ {s} : handler'[u] = handler[u]
  BY ReceiveKeeps DEF TurnInv
<1>2. Alone(s) /\ call[s].at = "out"
  BY <1>0, <1>1 DEF TurnInv, Turns, Alone
<1>3. SameFiles /\ UNCHANGED content BY <1>0, UnchangedFiles
<1>4. Shapes' BY <1>0, <1>3 DEF DurableInv, Shapes, IsFabric, IsState
<1>5. UnderwayOf(s)' BY <1>0, <1>1, <1>2 DEF UnderwayOf, Committing
<1>6. Places'
  BY <1>0, <1>3, AsSettled, PlacesStay DEF DurableInv, Places
<1>7. Ahead'
  <2>1. Kept(live)' = Kept(live) BY <1>3, SameFilesKeep
  <2>2. \A u \in Sessions : Executed(u)' = {} /\ Executed(u) = {}
    BY <1>0, <1>1 DEF Executed
  <2> QED BY <1>0, <2>1, <2>2 DEF DurableInv, Ahead
<1> QED BY <1>2, <1>4, <1>5, <1>6, <1>7, UnderwayAlone DEF DurableInv

\* The effect in the fabric adds the request to what has been done.
LEMMA EffectsAdd ==
  ASSUME NEW s, NEW h, NEW after \in Effects(s, h)
  PROVE  IsFabric(after) /\ after.done = fabric.done \cup {h.id}
<1>1. \E jobs : after = [jobs |-> jobs, done |-> fabric.done \cup {h.id}]
  BY DEF Effects
<1> QED BY <1>1 DEF IsFabric

LEMMA EffectDurable ==
  ASSUME TurnInv, LateInv, DurableInv, NEW only, Sessions = {only}, NEW s \in Sessions,
         Effect(s) \/ Refuse(s)
  PROVE  DurableInv'
<1> USE CoordinatorAssumption
<1>0. /\ s \in Threads /\ handler[s].at = "received" /\ HandlerShape
      /\ UNCHANGED <<disk, call, status, commitSequence, degraded, issued, acked>>
  BY DEF Effect, Refuse, storeVars, disk, TurnInv
<1>1. /\ status # "down" /\ call[s].at = "out"
      /\ \A u \in Threads \ {s} : handler[u].at = "idle" /\ call[u].at = "out"
  <2>1. call[s].at = "out" BY <1>0 DEF TurnInv, Turns
  <2> QED BY <1>0, <2>1, OthersWait
<1>2. SameFiles /\ UNCHANGED content BY <1>0, UnchangedFiles
<1>3. Kept(live)' = Kept(live) BY <1>2, SameFilesKeep
<1>4. Places' BY <1>0, <1>2, AsSettled, PlacesStay DEF DurableInv, Places
<1>5. Executed(s) = {} /\ Ahead /\ Shapes BY <1>0 DEF Executed, DurableInv
<1>6. CASE Effect(s)
  <2>1. /\ handler'[s].at \in {"rebased", "effected"} /\ handler'[s].id = handler[s].id
        /\ \A u \in Threads \ {s} : handler'[u] = handler[u]
    BY <1>0, <1>6, EffectKeeps
  <2>2. fabric' \in Effects(s, handler[s]) BY <1>6 DEF Effect
  <2>3. fabric'.done = fabric.done \cup {handler[s].id} /\ IsFabric(fabric)'
    BY <2>2, EffectsAdd DEF IsFabric
  <2>4. Alone(s) BY <1>0, <1>1, <2>1 DEF Alone
  <2>5. UnderwayOf(s)' BY <1>0, <1>1, <2>1 DEF UnderwayOf, Committing
  <2>6. Shapes' BY <1>0, <1>2, <1>5, <2>3, ShapesStay DEF Shapes
  <2>7. Ahead'
    <3>1. Executed(s)' = {handler[s].id} BY <2>1 DEF Executed
    <3>2. handler[s].id \in 1 .. issued BY <1>0 DEF LateInv
    <3>3. Sessions = {s} OBVIOUS
    <3> QED BY <1>0, <1>1, <1>3, <1>5, <2>3, <3>1, <3>2, <3>3 DEF Ahead
  <2> QED BY <1>4, <2>4, <2>5, <2>6, <2>7, UnderwayAlone DEF DurableInv
<1>7. CASE Refuse(s)
  <2>1. /\ Replies(s)
        /\ \E jobs : fabric' = [fabric EXCEPT !.jobs = jobs]
    BY <1>7 DEF Refuse
  <2>2. handler'[s] = Idle /\ \A u \in Threads \ {s} : handler'[u] = handler[u]
    BY <1>0, <2>1, RepliesKeeps
  <2>3. fabric'.done = fabric.done /\ IsFabric(fabric)'
    BY <1>5, <2>1 DEF Shapes, IsFabric
  <2>4. Alone(s) BY <1>0, <1>1, <2>2 DEF Alone
  <2>5. UnderwayOf(s)' BY <1>0, <1>1, <2>2 DEF UnderwayOf, Committing, Idle
  <2>6. Shapes' BY <1>0, <1>2, <1>5, <2>3, ShapesStay DEF Shapes
  <2>7. Ahead'
    <3>1. Executed(s)' = {} BY <2>2 DEF Executed, Idle
    <3>2. Sessions = {s} OBVIOUS
    <3> QED BY <1>0, <1>1, <1>3, <1>5, <2>3, <3>1, <3>2 DEF Ahead
  <2> QED BY <1>4, <2>4, <2>5, <2>6, <2>7, UnderwayAlone DEF DurableInv
<1> QED BY <1>6, <1>7

\* What is acknowledged is in the file that the flushed directory names.
LEMMA ReplyDurable ==
  ASSUME FileInv, TurnInv, DurableInv, NEW only, Sessions = {only}, NEW s \in Sessions, Reply(s)
  PROVE  /\ DurableInv'
         /\ handler[s].id \in Kept(liveOnDisk) /\ live = liveOnDisk
<1> USE CoordinatorAssumption
<1>0. /\ s \in Threads /\ handler[s].at = "committed" /\ HandlerShape /\ Replies(s)
      /\ UNCHANGED <<disk, call, status, fabric, commitSequence, degraded, issued>>
      /\ acked' = acked \cup {handler[s].id}
  BY DEF Reply, storeVars, disk, memory, TurnInv
<1>1. /\ status # "down" /\ call[s].at = "out"
      /\ \A u \in Threads \ {s} : handler[u].at = "idle" /\ call[u].at = "out"
  <2>1. call[s].at = "out" BY <1>0 DEF TurnInv, Turns
  <2> QED BY <1>0, <2>1, OthersWait
<1>2. SameFiles /\ UNCHANGED content BY <1>0, UnchangedFiles
<1>3. UnderwayOf(s) /\ Shapes /\ Places /\ Ahead BY <1>0 DEF DurableInv, Underway
<1>4. live # Absent /\ liveOnDisk = live /\ content[live].fabric = fabric
  BY <1>0, <1>3 DEF UnderwayOf
<1>5. handler[s].id \in fabric.done BY <1>0, <1>3 DEF Ahead, Executed
<1>6. handler[s].id \in Kept(liveOnDisk) /\ Kept(live) = fabric.done
  BY <1>4, <1>5 DEF Kept
<1>7. acked' \subseteq Kept(liveOnDisk) BY <1>0, <1>3, <1>6 DEF Places
<1>8. handler'[s] = Idle /\ \A u \in Threads \ {s} : handler'[u] = handler[u]
  BY <1>0, RepliesKeeps
<1>9. Alone(s) BY <1>0, <1>1, <1>8 DEF Alone
<1>10. UnderwayOf(s)' BY <1>0, <1>1, <1>8 DEF UnderwayOf, Committing, Idle
<1>11. Shapes' BY <1>0, <1>2, <1>3 DEF Shapes, IsFabric, IsState
<1>12. /\ Settled' => live = liveOnDisk
       /\ Sequenced' => commitSequence' = SequenceOf(live)
  BY <1>0, <1>3, AsSettled DEF Places
<1>13. Executed(s)' = {} BY <1>8 DEF Executed, Idle
<1> QED BY <1>0, <1>1, <1>2, <1>4, <1>6, <1>7, <1>9, <1>10, <1>11, <1>12, <1>13, AloneStep

LEMMA SessionDurable ==
  ASSUME FileInv, TurnInv, LateInv, DurableInv, NEW only, Sessions = {only},
         NEW s \in Sessions, SessionNext(s)
  PROVE  DurableInv'
<1> USE CoordinatorAssumption
<1>1. CASE \/ \E b \in Boots : Hello(s, b)
           \/ Disconnect(s)
           \/ \E j \in DOMAIN fabric.jobs : LookupHandle(s, j)
  <2>1. UNCHANGED <<disk, call, handler, status, fabric, commitSequence, degraded, issued, acked>>
    BY <1>1 DEF Hello, Disconnect, LookupHandle, storeVars, disk, memory
  <2>2. Settled' => Settled BY <2>1 DEF Settled
  <2> QED BY <2>1, <2>2, NothingDurable
<1>2. CASE \/ \E j \in DOMAIN fabric.jobs : ReceiveAdmitReplacement(s, j)
           \/ ReceiveRegisterJob(s)
           \/ ReceiveMutate(s)
           \/ \E e \in 1..MaxEpoch : ReceiveRebaseEpoch(s, e)
  BY <1>2, ReceiveDurable
  DEF ReceiveAdmitReplacement, ReceiveRegisterJob, ReceiveMutate, ReceiveRebaseEpoch
<1>3. CASE Effect(s) \/ Refuse(s) BY <1>3, EffectDurable
<1>4. CASE SetEpoch(s)
  <2>1. /\ handler[s].at = "rebased" /\ Goes(s, "effected") /\ s \in Threads
        /\ UNCHANGED <<disk, call, status, fabric, commitSequence, degraded, issued, acked>>
    BY <1>4 DEF SetEpoch, storeVars, disk
  <2>2. /\ handler'[s].at = "effected" /\ handler'[s].id = handler[s].id
        /\ \A u \in Threads \ {s} : handler'[u] = handler[u]
    BY <2>1, GoesKeeps DEF TurnInv
  <2>3. call[s].at = "out" BY <2>1 DEF TurnInv, Turns
  <2>4. Alone(s) /\ status # "down" BY <2>1, <2>2, OthersWait DEF Alone
  <2>5. UnderwayOf(s)' BY <2>1, <2>2, <2>3 DEF UnderwayOf, Committing
  <2>6. Executed(s)' = Executed(s) BY <2>1, <2>2 DEF Executed
  <2> QED BY <2>1, <2>3, <2>4, <2>5, <2>6, PlainStep
<1>5. CASE FailCommit(s) BY <1>5, ReturnDurable
<1>6. CASE Reply(s) BY <1>6, ReplyDurable
<1> QED BY <1>1, <1>2, <1>3, <1>4, <1>5, <1>6 DEF SessionNext
-----------------------------------------------------------------------------
(* The main thread, and the deaths of the process.                         *)

\* Start takes over what the live file holds.
LEMMA StartDurable ==
  ASSUME StatesAreStored, FileInv, TurnInv, DurableInv, Start
  PROVE  DurableInv'
<1> USE CoordinatorAssumption
<1>0. /\ status = "down" /\ status' = "starting" /\ Goes(Main, "effected") /\ degraded' = FALSE
      /\ Main \in Threads /\ UNCHANGED <<disk, call, issued, acked>> /\ HandlerShape
      /\ Shapes /\ Places /\ Ahead /\ Turns
  BY DEF Start, Boot, storeVars, disk, DurableInv, TurnInv
<1>1. /\ \A t \in Threads : handler[t].at = "idle" /\ call[t].at = "out"
  BY <1>0 DEF Turns
<1>2. /\ handler'[Main].at = "effected" /\ \A u \in Threads \ {Main} : handler'[u] = handler[u]
  BY <1>0, GoesKeeps
<1>3. Alone(Main) BY <1>0, <1>1, <1>2 DEF Alone
<1>4. UnderwayOf(Main)' BY <1>0, <1>1, <1>2 DEF UnderwayOf, Committing
<1>5. SameFiles /\ UNCHANGED <<content, live>> BY <1>0, UnchangedFiles DEF SameFiles
<1>6. /\ fabric'.done = Kept(live) /\ IsFabric(fabric)'
      /\ commitSequence' = SequenceOf(live)
  <2>1. CASE live = Absent
    <3>1. fabric' = EmptyFabric /\ commitSequence' = 0
      BY <2>1 DEF Start, Boot, Loaded
    <3> QED BY <2>1, <3>1 DEF EmptyFabric, Kept, SequenceOf, IsFabric
  <2>2. CASE live # Absent
    <3>1. /\ fabric' = [content[live].fabric EXCEPT
                          !.jobs = Rebased(@, content[live].epoch + 1)]
          /\ commitSequence' = content[live].sequence
      BY <2>2 DEF Start, Boot, Restored
    <3>2. IsFabric(content[live].fabric)
      BY <1>0, <2>2 DEF FileInv, Paths, LiveIsWhole, Shapes, IsState
    <3> QED BY <2>2, <3>1, <3>2 DEF Kept, SequenceOf, IsFabric
  <2> QED BY <2>1, <2>2
<1>7. Shapes'
  <2>1. SequenceOf(live) \in Nat BY <1>0, SequencesAreNumbers
  <2> QED BY <1>0, <1>5, <1>6, <2>1, ShapesStay
<1>8. Places'
  <2>1. ~Settled' BY <1>0 DEF Settled
  <2> QED BY <1>0, <1>5, <1>6, <2>1, PlacesStay
<1>9. Ahead'
  <2>1. Kept(live)' = Kept(live) BY <1>5, SameFilesKeep
  <2>2. \A s \in Sessions : Executed(s)' = {}
    BY <1>1, <1>2 DEF Executed
  <2> QED BY <1>0, <1>6, <2>1, <2>2 DEF Ahead
<1> QED BY <1>3, <1>4, <1>7, <1>8, <1>9, UnderwayAlone DEF DurableInv

\* A death keeps the files a restart may find; a power loss may also undo a
\* rename, which leaves the older of the two.
LEMMA DeathDurable ==
  ASSUME FileInv, DurableInv, Gone, ProcessDies \/ PowerFails
  PROVE  /\ DurableInv'
         /\ Kept(live)' \in {Kept(live), Kept(liveOnDisk)}
<1> USE CoordinatorAssumption
<1>0. /\ status' = "down" /\ fabric' = EmptyFabric /\ commitSequence' = 0 /\ degraded' = FALSE
      /\ \A t \in Threads : handler'[t] = Idle /\ call'[t] = NoCall
      /\ UNCHANGED <<issued, acked>> /\ Shapes /\ Places /\ Ahead
  BY DEF Gone, ProcessDies, PowerFails, DurableInv
<1>1. \A i \in Inodes : content'[i] \in {content[i], Torn}
  BY DEF ProcessDies, PowerFails, disk
<1>2. Shapes'
  <2>1. \A i \in Inodes : content'[i] # Torn => IsState(content'[i])
    BY <1>0, <1>1 DEF Shapes
  <2> QED BY <1>0, <2>1 DEF Shapes, EmptyFabric, IsFabric, IsState
<1>3. Underway'
  BY <1>0 DEF Underway, UnderwayOf, Idle, NoCall, Committing
<1>4. \/ UNCHANGED <<live, liveOnDisk>>
      \/ live' \in {live, liveOnDisk} /\ liveOnDisk' = live'
  BY DEF ProcessDies, PowerFails, disk
<1>5. \A i \in {live, liveOnDisk} \ {Absent} : content'[i] = content[i]
  BY DEF ProcessDies, PowerFails, disk, FileInv, Paths, LiveIsWhole
<1>6. \/ Kept(live)' = Kept(live) /\ Kept(liveOnDisk)' = Kept(liveOnDisk)
         /\ SequenceOf(live)' = SequenceOf(live)
         /\ SequenceOf(liveOnDisk)' = SequenceOf(liveOnDisk) /\ UNCHANGED <<live, liveOnDisk>>
      \/ Kept(live)' \in {Kept(live), Kept(liveOnDisk)} /\ Kept(liveOnDisk)' = Kept(live)'
         /\ live' = liveOnDisk'
  BY <1>4, <1>5 DEF Kept, SequenceOf
<1>7. ~Settled' /\ ~Sequenced' BY <1>0 DEF Settled, Sequenced
<1>8. acked' \subseteq Kept(liveOnDisk) /\ Kept(liveOnDisk) \subseteq Kept(live)
  BY <1>0 DEF Places
<1>9. Places'
  BY <1>0, <1>6, <1>7, <1>8 DEF Places
<1>10. Ahead'
  <2>1. \A s \in Sessions : Executed(s)' = {} BY <1>0 DEF Executed, Idle
  <2>2. Kept(live)' \subseteq Kept(live) BY <1>6, <1>8
  <2> QED BY <1>0, <2>1, <2>2 DEF Ahead, EmptyFabric
<1> QED BY <1>2, <1>3, <1>6, <1>9, <1>10 DEF DurableInv

LEMMA MainDurable ==
  ASSUME StatesAreStored, FileInv, TurnInv, DurableInv, NEW only, Sessions = {only}, MainNext
  PROVE  DurableInv'
<1> USE CoordinatorAssumption
<1>1. CASE Start BY <1>1, StartDurable
<1>2. CASE Serve
  <2>1. /\ status = "starting" /\ status' = "serving" /\ handler[Main].at = "committed"
        /\ Replies(Main) /\ Main \in Threads
        /\ UNCHANGED <<disk, call, fabric, commitSequence, degraded, issued, acked>>
    BY <1>2 DEF Serve, storeVars, disk, memory
  <2>2. handler'[Main] = Idle /\ \A u \in Threads \ {Main} : handler'[u] = handler[u]
    BY <2>1, RepliesKeeps DEF TurnInv
  <2>3. /\ call[Main].at = "out" BY <2>1 DEF TurnInv, Turns
  <2>4. Alone(Main) BY <2>1, <2>2, OthersWait DEF Alone
  <2>5. UnderwayOf(Main)' BY <2>1, <2>2, <2>3 DEF UnderwayOf, Idle, Committing
  <2>6. live = liveOnDisk BY <2>1 DEF DurableInv, Underway, UnderwayOf
  <2>7. SameFiles /\ UNCHANGED content BY <2>1, UnchangedFiles
  <2>8. Shapes' BY <2>1, <2>7 DEF DurableInv, Shapes, IsFabric, IsState
  <2>9. Sequenced' => Sequenced BY <2>1 DEF Sequenced
  <2>10. /\ acked' \subseteq Kept(liveOnDisk)
         /\ Sequenced' => commitSequence' = SequenceOf(live)
    BY <2>1, <2>9 DEF DurableInv, Places
  <2> QED BY <2>1, <2>4, <2>5, <2>6, <2>7, <2>8, <2>10, AloneStep
<1>3. CASE Stop
  <2>1. /\ status = "serving" /\ status' = "stopping"
        /\ UNCHANGED <<disk, call, handler, fabric, commitSequence, degraded, issued, acked>>
    BY <1>3 DEF Stop, storeVars, disk, memory
  <2>2. Settled' => Settled BY <2>1 DEF Settled
  <2> QED BY <2>1, <2>2, NothingDurable
<1>4. CASE FinalCommit
  <2>1. /\ status = "stopping" /\ Goes(Main, "effected") /\ Main \in Threads
        /\ \A t \in Threads : handler[t].at = "idle"
        /\ UNCHANGED <<disk, call, status, fabric, commitSequence, degraded, issued, acked>>
    BY <1>4 DEF FinalCommit, Joined, storeVars, disk, memory
  <2>2. /\ handler'[Main].at = "effected" /\ \A u \in Threads \ {Main} : handler'[u] = handler[u]
    BY <2>1, GoesKeeps DEF TurnInv
  <2>3. \A t \in Threads : call[t].at = "out" BY <2>1 DEF TurnInv, Turns
  <2>4. Alone(Main) BY <2>1, <2>2, <2>3 DEF Alone
  <2>5. UnderwayOf(Main)' BY <2>1, <2>2, <2>3 DEF UnderwayOf, Committing
  <2> QED BY <2>1, <2>3, <2>4, <2>5, PlainStep
<1>5. CASE Exit \/ Crash BY <1>5, DeathDurable DEF Exit, Crash
<1> QED BY <1>1, <1>2, <1>3, <1>4, <1>5 DEF MainNext

LEMMA InitDurable == ASSUME Init PROVE DurableInv
<1> USE CoordinatorAssumption, StoreAssumption
<1>1. /\ Shapes
  BY DEF Init, StoreInit, Shapes, EmptyFabric, IsFabric
<1>2. Underway
  BY DEF Init, StoreInit, Underway, UnderwayOf, Idle, NoCall, Committing
<1>3. Kept(live) = {} /\ Kept(liveOnDisk) = {} /\ live = liveOnDisk
  BY DEF Init, StoreInit, Kept
<1>4. status = "down" /\ acked = {} /\ issued = 0 /\ fabric.done = {}
  BY DEF Init, EmptyFabric
<1>5. Places BY <1>3, <1>4 DEF Places, Sequenced
<1>6. \A s \in Sessions : Executed(s) = {}
  BY DEF Init, Executed, Idle
<1>7. Ahead BY <1>3, <1>4, <1>6 DEF Ahead
<1> QED BY <1>1, <1>2, <1>5, <1>7 DEF DurableInv

LEMMA NextDurable ==
  ASSUME StatesAreStored, FileInv, TurnInv, LateInv, DurableInv, NEW only, Sessions = {only},
         [Next]_vars
  PROVE  DurableInv'
<1>1. CASE UNCHANGED vars
  <2>1. /\ UNCHANGED <<disk, call, handler, fabric, commitSequence, degraded, issued, acked>>
        /\ UNCHANGED status
    BY <1>1 DEF vars, storeVars, disk, memory
  <2>2. Settled' => Settled BY <2>1 DEF Settled
  <2> QED BY <2>1, <2>2, NothingDurable
<1>2. ASSUME NEW t \in Threads, CommitNext(t) PROVE DurableInv'
  BY <1>2, CommitDurable, InStoreDurable, ReturnDurable DEF CommitNext
<1> QED BY <1>1, <1>2, MainDurable, SessionDurable DEF Next
-----------------------------------------------------------------------------
(* What follows.                                                           *)

WholeInv == TurnInv /\ FileInv /\ LateInv /\ DurableInv

LEMMA WholeIsKept ==
  ASSUME StatesAreStored, NEW only, Sessions = {only}
  PROVE  /\ Init => WholeInv
         /\ WholeInv /\ [Next]_vars => WholeInv'
<1>1. StatesAreNotTorn BY DEF StatesAreStored, StatesAreNotTorn
<1>2. Init => LateInv
  BY CoordinatorAssumption DEF Init, LateInv, Idle
<1> QED BY <1>1, <1>2, InitTurns, InitFiles, InitDurable, NextTurns, NextFiles, OneThreadCommits,
           NextLate, NextDurable DEF WholeInv, TurnInv

\* What a restart would load is what the live file holds.
LEMMA DurableIsKept ==
  ASSUME StatesAreStored, WholeInv
  PROVE  Durable(live) = Kept(live) /\ Durable(liveOnDisk) = Kept(liveOnDisk)
<1>1. \A i \in {live, liveOnDisk} \ {Absent} : content[i] \notin {Torn, Absent}
  BY DEF WholeInv, FileInv, Paths, LiveIsWhole, DurableInv, Shapes, IsState, StatesAreStored
<1> QED BY <1>1 DEF Durable, Loaded, Kept

\* The same in the next state.
LEMMA DurableIsKeptNext ==
  ASSUME StatesAreStored, WholeInv'
  PROVE  Durable(live)' = Kept(live)'
<1>1. \A i \in {live', liveOnDisk'} \ {Absent} : content'[i] \notin {Torn, Absent}
  BY DEF WholeInv, FileInv, Paths, LiveIsWhole, DurableInv, Shapes, IsState, StatesAreStored
<1> QED BY <1>1 DEF Durable, Loaded, Kept

\* Nothing acknowledged is missing from what a restart may find, after any number
\* of crashes, power losses and I/O errors (coordinator.cpp, commit_state and its
\* callers).  The hypothesis is needed: run lost_ack shows two sessions losing one.
THEOREM AcknowledgedSurvives ==
  ASSUME NEW only, Sessions = {only}, StatesAreStored
  PROVE  Spec => []AckedSurvive
<1>1. WholeInv => AckedSurvive
  BY DurableIsKept DEF AckedSurvive, WholeInv, DurableInv, Places
<1> QED BY <1>1, WholeIsKept, PTL DEF Spec

\* A step of the coordinator adds one mutation to the live file, loses one that
\* nobody was told of, acknowledges one that is there, or does none of these.
LEMMA OneMutationAtATime ==
  ASSUME StatesAreStored, WholeInv, NEW only, Sessions = {only}, [Next]_vars,
         ~(UNCHANGED acked /\ Kept(live)' = Kept(live))
  PROVE  \E m \in 1 .. MaxMutations :
           \/ /\ m \notin Kept(live) /\ Kept(live)' = Kept(live) \cup {m}
              /\ UNCHANGED acked
           \/ /\ m \in Kept(live) \ acked /\ Kept(live)' = Kept(live) \ {m}
              /\ UNCHANGED acked
           \/ /\ m \in Kept(live) \ acked /\ Kept(live)' = Kept(live)
              /\ acked' = acked \cup {m}
<1> USE CoordinatorAssumption
<1>0. /\ TurnInv /\ FileInv /\ LateInv /\ DurableInv /\ Places /\ Ahead /\ Underway
      /\ issued \in Nat /\ MaxMutations \in Nat /\ issued <= MaxMutations
      /\ only \in Sessions /\ 1 .. issued \subseteq 1 .. MaxMutations
  BY DEF WholeInv, DurableInv, LateInv, Ahead
<1>1. ASSUME NEW t \in Threads, InStore(t)
      PROVE  \E m \in 1 .. MaxMutations :
               /\ m \notin Kept(live) /\ Kept(live)' = Kept(live) \cup {m}
               /\ UNCHANGED acked
  <2>1. Kept(live)' = fabric.done /\ handler[t].at = "storing" /\ UNCHANGED acked
    BY <1>0, <1>1, InStoreDurable
  <2>2. status # "down" /\ degraded = FALSE
    BY <1>0, <2>1, OthersWait DEF Underway, UnderwayOf, Committing
  <2>3. Kept(live) \subseteq fabric.done /\ fabric.done \subseteq Kept(live) \cup Executed(only)
    BY <1>0, <2>2 DEF Ahead
  <2>4. fabric.done \subseteq 1 .. MaxMutations BY <1>0 DEF Ahead
  <2>5. PICK m \in fabric.done : m \notin Kept(live) BY <2>1, <2>3
  <2>6. Executed(only) = {m} BY <2>3, <2>5 DEF Executed
  <2>7. fabric.done = Kept(live) \cup {m} BY <2>3, <2>5, <2>6
  <2> QED BY <2>1, <2>4, <2>5, <2>7
<1>2. ASSUME Exit \/ Crash
      PROVE  \E m \in 1 .. MaxMutations :
               /\ m \in Kept(live) \ acked /\ Kept(live)' = Kept(live) \ {m}
               /\ UNCHANGED acked
  <2>1. Kept(live)' \in {Kept(live), Kept(liveOnDisk)} /\ UNCHANGED acked
    BY <1>0, <1>2, DeathDurable DEF Exit, Crash, Gone
  <2>2. /\ Kept(live)' = Kept(liveOnDisk) /\ Kept(liveOnDisk) # Kept(live)
        /\ Kept(liveOnDisk) \subseteq Kept(live) /\ acked \subseteq Kept(liveOnDisk)
        /\ \A m, n \in Kept(live) \ Kept(liveOnDisk) : m = n
    BY <1>0, <2>1 DEF Places
  <2>3. PICK m \in Kept(live) : m \notin Kept(liveOnDisk) BY <2>2
  <2>4. m \in 1 .. MaxMutations BY <1>0, <2>3 DEF Ahead
  <2>5. Kept(liveOnDisk) = Kept(live) \ {m} BY ONLY <2>2, <2>3
  <2>6. m \in Kept(live) \ acked BY ONLY <2>2, <2>3
  <2> QED BY ONLY <2>1, <2>2, <2>4, <2>5, <2>6
<1>3. ASSUME NEW s \in Sessions, Reply(s)
      PROVE  \E m \in 1 .. MaxMutations :
               /\ m \in Kept(live) \ acked /\ Kept(live)' = Kept(live)
               /\ acked' = acked \cup {m}
  <2>1. /\ handler[s].id \in Kept(live) /\ acked' = acked \cup {handler[s].id}
        /\ handler[s].at = "committed" /\ UNCHANGED disk
    BY <1>0, <1>3, ReplyDurable DEF Reply, storeVars, disk
  <2>2. handler[s].id \in 1 .. MaxMutations /\ handler[s].id \notin acked
    BY <1>0, <2>1 DEF LateInv
  <2>3. Kept(live)' = Kept(live) BY <2>1, UnchangedFiles, SameFilesKeep
  <2> QED BY <2>1, <2>2, <2>3
<1>4. ASSUME UNCHANGED <<disk, acked>> PROVE FALSE
  BY <1>4, UnchangedFiles, SameFilesKeep
<1>5. CASE UNCHANGED vars
  BY <1>4, <1>5 DEF vars, storeVars, disk
<1>6. CASE MainNext
  BY <1>2, <1>4, <1>6
  DEF MainNext, Start, Boot, Serve, Stop, FinalCommit, storeVars, disk
<1>7. CASE \E s \in Sessions : SessionNext(s)
  <2>1. PICK s \in Sessions : SessionNext(s) BY <1>7
  <2>2. CASE ~Reply(s)
    <3>1. UNCHANGED <<disk, acked>>
      BY <2>1, <2>2 DEF SessionNext, Hello, Disconnect, LookupHandle, ReceiveAdmitReplacement,
        ReceiveRegisterJob, ReceiveMutate, ReceiveRebaseEpoch, Receive, Effect, Refuse,
        SetEpoch, FailCommit, storeVars, disk
    <3> QED BY <1>4, <3>1
  <2> QED BY <1>3, <2>2
<1>8. CASE \E t \in Threads : CommitNext(t)
  <2>1. PICK t \in Threads : CommitNext(t) BY <1>8
  <2>2. CASE ~InStore(t)
    <3>1. UNCHANGED <<disk, acked>>
      BY <2>1, <2>2 DEF CommitNext, CheckDegraded, TakeSnapshot, ReadSequence, CallStore, Call,
        RecordCommit, storeVars, disk
    <3> QED BY <1>4, <3>1
  <2> QED BY <1>1, <2>2
<1> QED BY <1>5, <1>6, <1>7, <1>8 DEF Next

\* The coordinator and its store together keep the promise of module
\* DurableMutations, for every bound: a mutation becomes durable at one moment,
\* by itself, and is acknowledged only then (commit_state, StateStore::Commit).
THEOREM CommitsArePromised ==
  ASSUME NEW only, Sessions = {only}, StatesAreStored
  PROVE  Spec => MutationsAreDurable
<1>1. Init => Promise!Init
  <2> SUFFICES ASSUME Init PROVE Durable(live) = {} /\ acked = {}
    BY DEF Promise!Init
  <2> QED BY DEF Init, StoreInit, Durable, Loaded
<1>2. WholeInv /\ WholeInv' /\ [Next]_vars => [Promise!Next]_<<Durable(live), acked>>
  <2> SUFFICES ASSUME WholeInv, WholeInv', [Next]_vars,
                      ~(UNCHANGED acked /\ Kept(live)' = Kept(live))
               PROVE  Promise!Next
    BY DurableIsKept, DurableIsKeptNext
  <2>1. Durable(live) = Kept(live) /\ Durable(live)' = Kept(live)'
    BY DurableIsKept, DurableIsKeptNext
  <2>2. PICK m \in 1 .. MaxMutations :
           \/ /\ m \notin Kept(live) /\ Kept(live)' = Kept(live) \cup {m}
              /\ UNCHANGED acked
           \/ /\ m \in Kept(live) \ acked /\ Kept(live)' = Kept(live) \ {m}
              /\ UNCHANGED acked
           \/ /\ m \in Kept(live) \ acked /\ Kept(live)' = Kept(live)
              /\ acked' = acked \cup {m}
    BY OneMutationAtATime
  <2>3. Promise!Persist(m) \/ Promise!Lose(m) \/ Promise!Acknowledge(m)
    BY <2>1, <2>2 DEF Promise!Persist, Promise!Lose, Promise!Acknowledge
  <2> QED BY <2>3 DEF Promise!Next
<1> QED BY <1>1, <1>2, WholeIsKept, PTL DEF Spec, MutationsAreDurable, Promise!Spec

\* The sequence of the state on disk only advances, also over a power loss
\* (persistence.hpp: "strictly greater than the sequence of the state currently
\* on disk").
THEOREM SequencesAdvance ==
  ASSUME NEW only, Sessions = {only}, StatesAreStored
  PROVE  Spec => SequenceAdvances
<1>1. WholeInv /\ [Next]_vars =>
        [liveOnDisk # Absent /\ Torn \notin {content[liveOnDisk], content'[liveOnDisk']} =>
           content'[liveOnDisk'].sequence > content[liveOnDisk].sequence]_liveOnDisk
  <2> SUFFICES ASSUME WholeInv, [Next]_vars, liveOnDisk' # liveOnDisk, liveOnDisk # Absent
               PROVE  content'[liveOnDisk'].sequence > content[liveOnDisk].sequence
    OBVIOUS
  <2>0. FileInv /\ Places /\ Shapes BY DEF WholeInv, DurableInv
  <2>1. liveOnDisk' = live /\ (live # Absent => content'[live] = content[live])
    <3>1. CASE \E t \in Threads : InStore(t)
      <4>1. PICK t \in Threads : StoreStep(t) BY <3>1 DEF InStore
      <4>2. FlushDirectory(t)
        BY <4>1 DEF StoreStep, OpenTemporary, WriteTemporary, FlushTemporary, Replace, Vanished,
          IoError, disk
      <4> QED BY <4>2 DEF FlushDirectory
    <3>2. CASE PowerFails
      BY <2>0, <3>2 DEF PowerFails, FileInv, Paths, LiveIsWhole
    <3>3. CASE UNCHANGED disk BY <3>3 DEF disk
    <3>4. ASSUME NEW s \in Sessions, SessionNext(s) PROVE UNCHANGED disk
      BY <3>4 DEF SessionNext, Hello, Disconnect, LookupHandle, ReceiveAdmitReplacement,
        ReceiveRegisterJob, ReceiveMutate, ReceiveRebaseEpoch, Receive, Effect, Refuse,
        SetEpoch, FailCommit, Reply, storeVars, disk
    <3>5. ASSUME NEW t \in Threads, CommitNext(t), ~InStore(t) PROVE UNCHANGED disk
      BY <3>5 DEF CommitNext, CheckDegraded, TakeSnapshot, ReadSequence, CallStore, Call,
        RecordCommit, storeVars, disk
    <3>6. ASSUME MainNext, ~PowerFails PROVE UNCHANGED disk
      BY <3>6 DEF MainNext, Start, Boot, Serve, Stop, FinalCommit, Exit, Crash, ProcessDies,
        storeVars, disk
    <3>7. ASSUME UNCHANGED vars PROVE UNCHANGED disk
      BY <3>7 DEF vars, storeVars, disk
    <3> QED BY <3>1, <3>2, <3>3, <3>4, <3>5, <3>6, <3>7 DEF Next
  <2>2. /\ SequenceOf(live) \in Nat /\ SequenceOf(liveOnDisk) \in Nat
        /\ SequenceOf(live) > SequenceOf(liveOnDisk)
    BY <2>0, <2>1, SequencesAreNumbers DEF Places
  <2> QED BY <2>1, <2>2 DEF SequenceOf
<1> QED BY <1>1, WholeIsKept, PTL DEF Spec, SequenceAdvances
===============================================================================
