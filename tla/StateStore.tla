------------------------------ MODULE StateStore ------------------------------
(***************************************************************************)
(* The single-file durable store (ttf::StateStore): Commit writes a        *)
(* temporary file, flushes it, renames it over the live file and flushes   *)
(* the directory.  Nothing in the store is locked: a thread that calls     *)
(* Commit while another is inside it shares the temporary path with it,    *)
(* so a file is an inode that several handles may write.                   *)
(*                                                                         *)
(* The file system keeps what fsync was called on; a power loss may tear   *)
(* an inode that was not flushed and may undo a rename whose directory     *)
(* was not flushed.  A stored state carries its epoch and its sequence     *)
(* (the header) and the payload; header, CRCs and end marker make a torn   *)
(* file recognisable, so a torn inode is the value Torn.                   *)
(***************************************************************************)
EXTENDS Integers, FiniteSets

CONSTANTS
  Threads,        \* threads of the process that may call Commit
  Inodes,         \* inode numbers, reused once nothing refers to them
  Torn,           \* content that DecodeFile refuses
  Absent,         \* a path that names no file
  MaxFailures     \* bound: I/O errors in a behaviour

ASSUME StoreAssumption ==
  /\ Absent \notin Inodes
  /\ MaxFailures \in Nat

VARIABLES
  content,        \* inode -> Torn or a stored state
  synced,         \* inodes whose content was fsynced
  live,           \* inode the live path names
  liveOnDisk,     \* inode the live path names in the flushed directory
  temporary,      \* inode the temporary path names
  lastSequence,   \* StateStore::last_sequence_ of the process
  call,           \* thread -> the Commit it is executing
  failures        \* I/O errors so far (bounds the runs)

disk == <<content, synced, live, liveOnDisk, temporary>>
storeVars == <<content, synced, live, liveOnDisk, temporary, lastSequence, call, failures>>

NoCall == [at |-> "out", state |-> Torn, handle |-> Absent]

StoreInit ==
  /\ content = [i \in Inodes |-> Torn]
  /\ synced = {}
  /\ live = Absent
  /\ liveOnDisk = Absent
  /\ temporary = Absent
  /\ lastSequence = 0
  /\ call = [t \in Threads |-> NoCall]
  /\ failures = 0

\* What Load finds at a path: nothing, a torn file, or a whole state.
Loaded(inode) == IF inode = Absent THEN Absent ELSE content[inode]

\* An inode nothing refers to, for a file that fopen creates.
Referenced == {live, liveOnDisk, temporary} \cup {call[t].handle : t \in Threads}
Unused == Inodes \ Referenced
Fresh == CHOOSE i \in Unused : TRUE

\* Thread t goes on, keeping its handle or with another one.
Moved(t, at) == call' = [call EXCEPT ![t].at = at]
Holding(t, at, handle) ==
  call' = [call EXCEPT ![t] = [at |-> at, state |-> call[t].state, handle |-> handle]]

\* Commit(payload, epoch, sequence) is called: the sequence must exceed the
\* last one this store object committed, and a new object has committed none.
Conflicts(sequence) == sequence <= lastSequence /\ lastSequence # 0

Call(t, state) ==
  /\ call[t].at = "out"
  /\ call' = [call EXCEPT ![t] =
                [at |-> IF Conflicts(state.sequence) THEN "failed" ELSE "open",
                 state |-> state, handle |-> Absent]]
  /\ UNCHANGED <<disk, lastSequence, failures>>

\* Mutant: the live file is written in place.
OpenLive(t) ==
  /\ call[t].at = "open"
  /\ live # Absent \/ Unused # {}
  /\ LET inode == IF live = Absent THEN Fresh ELSE live IN
     /\ temporary' = inode
     /\ content' = [content EXCEPT ![inode] = Torn]
     /\ synced' = synced \ {inode}
     /\ Holding(t, "write", inode)
  /\ UNCHANGED <<live, liveOnDisk, lastSequence, failures>>

\* fopen "wb": truncates the file the temporary path names, or creates one.
OpenTemporary(t) ==
  /\ call[t].at = "open"
  /\ temporary # Absent \/ Unused # {}
  /\ LET inode == IF temporary = Absent THEN Fresh ELSE temporary IN
     /\ temporary' = inode
     /\ content' = [content EXCEPT ![inode] = Torn]
     /\ synced' = synced \ {inode}
     /\ Holding(t, "write", inode)
  /\ UNCHANGED <<live, liveOnDisk, lastSequence, failures>>

\* What the handle's inode holds after fwrite and fclose: this thread's bytes,
\* unless another thread's are there too, which may leave a mixture.
Written(t) ==
  {call[t].state} \cup (IF content[call[t].handle] = Torn THEN {} ELSE {Torn})

WriteTemporary(t) ==
  /\ call[t].at = "write"
  /\ \E bytes \in Written(t) : content' = [content EXCEPT ![call[t].handle] = bytes]
  /\ synced' = synced \ {call[t].handle}
  /\ Holding(t, "flush", Absent)
  /\ UNCHANGED <<live, liveOnDisk, temporary, lastSequence, failures>>

\* Mutant: the live file is replaced before the temporary one is flushed.
FlushNothing(t) ==
  /\ call[t].at = "flush"
  /\ temporary # Absent
  /\ Moved(t, "replace")
  /\ UNCHANGED <<content, synced, live, liveOnDisk, temporary, lastSequence, failures>>

\* flush_file reopens the temporary path, whatever it names by now.
FlushTemporary(t) ==
  /\ call[t].at = "flush"
  /\ temporary # Absent
  /\ synced' = synced \cup {temporary}
  /\ Moved(t, "replace")
  /\ UNCHANGED <<content, live, liveOnDisk, temporary, lastSequence, failures>>

Replace(t) ==
  /\ call[t].at = "replace"
  /\ temporary # Absent
  /\ live' = temporary
  /\ temporary' = Absent
  /\ Moved(t, "directory")
  /\ UNCHANGED <<content, synced, liveOnDisk, lastSequence, failures>>

FlushDirectory(t) ==
  /\ call[t].at = "directory"
  /\ liveOnDisk' = live
  /\ lastSequence' = call[t].state.sequence
  /\ Moved(t, "done")
  /\ UNCHANGED <<content, synced, live, temporary, failures>>

\* The temporary file is gone when it is reopened or renamed: another thread
\* has already renamed it.
Vanished(t) ==
  /\ call[t].at \in {"flush", "replace"}
  /\ temporary = Absent
  /\ Moved(t, "failed")
  /\ UNCHANGED <<disk, lastSequence, failures>>

\* An I/O call fails.  A short write leaves a torn inode and removes the
\* temporary path; any other failure leaves the files as they are, the live one
\* already replaced if it was the directory flush that failed.
ShortWrite(t) ==
  /\ call[t].at = "write"
  /\ content' = [content EXCEPT ![call[t].handle] = Torn]
  /\ synced' = synced \ {call[t].handle}
  /\ temporary' = Absent

IoError(t) ==
  /\ failures < MaxFailures
  /\ \/ ShortWrite(t)
     \/ /\ call[t].at \in {"open", "flush", "replace", "directory"}
        /\ UNCHANGED <<content, synced, temporary>>
  /\ failures' = failures + 1
  /\ Holding(t, "failed", Absent)
  /\ UNCHANGED <<live, liveOnDisk, lastSequence>>

\* Commit returns to its caller.
Returned(t) == call[t].at \in {"done", "failed"}
Return(t) == call' = [call EXCEPT ![t] = NoCall]

StoreStep(t) ==
  \/ OpenTemporary(t)
  \/ WriteTemporary(t)
  \/ FlushTemporary(t)
  \/ Replace(t)
  \/ FlushDirectory(t)
  \/ Vanished(t)
  \/ IoError(t)

\* The process dies; the kernel keeps every file as it is.
ProcessDies ==
  /\ call' = [t \in Threads |-> NoCall]
  /\ lastSequence' = 0
  /\ UNCHANGED <<disk, failures>>

\* The machine dies: inodes that are not flushed tear, a rename that is not
\* flushed may be undone.
PowerFails ==
  /\ call' = [t \in Threads |-> NoCall]
  /\ lastSequence' = 0
  /\ content' = [i \in Inodes |-> IF i \in synced THEN content[i] ELSE Torn]
  /\ live' \in {live, liveOnDisk}
  /\ liveOnDisk' = live'
  /\ temporary' = IF live' = live THEN temporary ELSE live
  /\ UNCHANGED <<synced, failures>>
-----------------------------------------------------------------------------
(* Properties.                                                             *)

\* A reader finds no file, or a whole state, never a mixture: not even when
\* the machine dies between the steps of Commit (persistence.hpp, Commit).
LiveIsWhole ==
  \A inode \in {live, liveOnDisk} \ {Absent} : inode \in synced /\ content[inode] # Torn

\* The sequence of the state on disk never goes back (persistence.hpp,
\* "strictly greater than the sequence of the state currently on disk").
SequenceAdvances ==
  [][liveOnDisk # Absent /\ Torn \notin {content[liveOnDisk], content'[liveOnDisk']} =>
       content'[liveOnDisk'].sequence > content[liveOnDisk].sequence]_liveOnDisk
=============================================================================
