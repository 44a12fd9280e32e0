--------------------------- MODULE WriteAheadLog ---------------------------
(***************************************************************************)
(* The write-ahead log of one collection, utils/wal.py.  Each service      *)
(* object has a WriteAheadLog instance of its own: a buffer, a daemon      *)
(* flusher thread, and one caller thread that logs, flushes, reads or      *)
(* checkpoints.  All instances share the log file, the checkpoint file and *)
(* the FileLock.  An entry is its timestamp and an operation; a line of    *)
(* the file is an entry or, where a torn write was appended to, Garbage.   *)
(* The process may crash at any step.                                      *)
(***************************************************************************)
EXTENDS Integers, Sequences, SequencesExt

CONSTANTS
  Instances,      \* WriteAheadLog objects of the collection
  Loggers,        \* the instances whose log_* is called,
  Flushers,       \* whose flush() is called,
  Replayers,      \* whose read_all() is called (every replay does),
  Savers,         \* whose checkpoint() and truncate() are called,
  Ops,            \* operations an entry may carry
  MaxClock,       \* bound: no log_* or checkpoint() starts later
  MaxSize,        \* max_size in lines; 0 turns rotation off, as in the code
  MaxRotatedKeep, \* max_rotated_keep
  TornWrites,     \* whether a crash may leave half a line at the end of the file
  Garbage,        \* a line json.loads rejects
  None            \* no entry, nobody

ASSUME WalAssumption ==
  /\ Loggers \cup Flushers \cup Replayers \cup Savers \subseteq Instances
  /\ MaxClock \in Nat /\ MaxSize \in Nat /\ MaxRotatedKeep \in Nat
  /\ TornWrites \in BOOLEAN
  /\ Garbage \notin [ts : Nat, op : Ops]
  /\ None \notin [ts : Nat, op : Ops] \cup Instances

VARIABLES
  clock,     \* time.time() of the last stamp
  call,      \* what the caller thread of each instance is doing
  stamped,   \* the entry _enqueue has stamped and not yet appended
  buffer,    \* _buffer
  drained,   \* the batch each thread took with _drain_buffer and has not written
  toRotate,  \* threads between _write_lines releasing the lock and _maybe_rotate
  stopped,   \* instances with _stop set
  file,      \* the lines of the .wal file
  torn,      \* the file ends in half a line
  rotated,   \* the contents of the .rotated files, oldest first
  cutoff,    \* last_checkpoint_ts()
  holder,    \* the instance whose checkpoint() holds the FileLock
  accepted,  \* history: stamps of entries whose log_* call returned, per instance
  synced,    \* history: stamps of entries whose fsync returned
  lost,      \* history: stamps of entries not yet synced when the process crashed
  lastMark   \* history: when the log was last checkpointed or truncated

walVolatile == <<call, stamped, buffer, drained, toRotate, stopped, holder>>
walDisk == <<file, torn, rotated, cutoff>>
walHistory == <<accepted, synced, lost, lastMark>>
walVars == <<clock, walVolatile, walDisk, walHistory>>

Entry == [ts : 1 .. MaxClock, op : Ops]
Threads == Instances \X {"flusher", "caller"}

IsEntry(line) == line # Garbage
Stamps(lines) == {e.ts : e \in {l \in ToSet(lines) : IsEntry(l)}}
InMemory(i) ==
  Stamps(buffer[i]) \cup Stamps(drained[<<i, "flusher">>]) \cup Stamps(drained[<<i, "caller">>])

\* pending_entries() keeps the decodable lines stamped after the last checkpoint.
IsPending(line) == IsEntry(line) /\ line.ts > cutoff

WalInit ==
  /\ clock = 0
  /\ call = [i \in Instances |-> "none"]
  /\ stamped = [i \in Instances |-> None]
  /\ buffer = [i \in Instances |-> <<>>]
  /\ drained = [t \in Threads |-> <<>>]
  /\ toRotate = {}
  /\ stopped = {}
  /\ file = <<>>
  /\ torn = FALSE
  /\ rotated = <<>>
  /\ cutoff = 0
  /\ holder = None
  /\ accepted = [i \in Instances |-> {}]
  /\ synced = {}
  /\ lost = {}
  /\ lastMark = 0

(***************************************************************************)
(* log_*: the timestamp is taken before _buf_lock.                         *)
(***************************************************************************)
Stamp(i, op) ==
  /\ call[i] = "none"
  /\ i \in Loggers \ stopped
  /\ clock < MaxClock
  /\ clock' = clock + 1
  /\ stamped' = [stamped EXCEPT ![i] = [ts |-> clock + 1, op |-> op]]
  /\ call' = [call EXCEPT ![i] = "log"]
  /\ UNCHANGED <<buffer, drained, toRotate, stopped, holder, walDisk, walHistory>>

AppendInFront(i) ==
  /\ call[i] = "log"
  /\ buffer' = [buffer EXCEPT ![i] = <<stamped[i]>> \o @]
  /\ accepted' = [accepted EXCEPT ![i] = @ \cup {stamped[i].ts}]
  /\ stamped' = [stamped EXCEPT ![i] = None]
  /\ call' = [call EXCEPT ![i] = "none"]
  /\ UNCHANGED <<clock, drained, toRotate, stopped, holder, walDisk, synced, lost, lastMark>>

AppendEntry(i) ==
  /\ call[i] = "log"
  /\ buffer' = [buffer EXCEPT ![i] = Append(@, stamped[i])]
  /\ accepted' = [accepted EXCEPT ![i] = @ \cup {stamped[i].ts}]
  /\ stamped' = [stamped EXCEPT ![i] = None]
  /\ call' = [call EXCEPT ![i] = "none"]
  /\ UNCHANGED <<clock, drained, toRotate, stopped, holder, walDisk, synced, lost, lastMark>>

(***************************************************************************)
(* Writing out the buffer.  A thread drains under _buf_lock and appends    *)
(* under the FileLock; between the two it holds no lock.                   *)
(***************************************************************************)
DrainKeepsBuffer(t) ==
  /\ drained[t] = <<>>
  /\ t \notin toRotate
  /\ buffer[t[1]] # <<>>
  /\ drained' = [drained EXCEPT ![t] = buffer[t[1]]]
  /\ UNCHANGED <<stamped, buffer, toRotate, holder>>

\* _drain_buffer swaps the buffer for an empty one.
Drain(t) ==
  /\ drained[t] = <<>>
  /\ t \notin toRotate
  /\ buffer[t[1]] # <<>>
  /\ drained' = [drained EXCEPT ![t] = buffer[t[1]]]
  /\ buffer' = [buffer EXCEPT ![t[1]] = <<>>]
  /\ UNCHANGED <<stamped, toRotate, holder>>

FlusherDrain(i) ==
  /\ i \notin stopped
  /\ Drain(<<i, "flusher">>)
  /\ UNCHANGED <<clock, call, stopped, walDisk, walHistory>>

\* The caller thread starts a call whose first step is flush(): with an empty
\* buffer _drain_buffer returns nothing and nothing is written.
CallFlushing(i, name) ==
  /\ call[i] = "none"
  /\ call' = [call EXCEPT ![i] = name]
  /\ IF buffer[i] = <<>>
     THEN UNCHANGED <<stamped, buffer, drained, toRotate, holder>>
     ELSE Drain(<<i, "caller">>)
  /\ UNCHANGED <<clock, walDisk, walHistory>>

FlushCall(i) == i \in Flushers /\ CallFlushing(i, "flush") /\ UNCHANGED stopped
ReadCall(i) == i \in Replayers /\ CallFlushing(i, "read") /\ UNCHANGED stopped
CheckpointCall(i) == /\ i \in Savers
                     /\ clock < MaxClock
                     /\ CallFlushing(i, "checkpoint")
                     /\ UNCHANGED stopped

\* close() stops the flusher before its own flush().
CloseCall(i) == /\ i \in Flushers \ stopped
                /\ CallFlushing(i, "flush")
                /\ stopped' = stopped \cup {i}

\* The first line written after half a line is glued to it.
AppendLines(lines) ==
  IF torn THEN file \o <<Garbage>> \o Tail(lines) ELSE file \o lines

WriteLines(t) ==
  /\ drained[t] # <<>>
  /\ holder = None
  /\ file' = AppendLines(drained[t])
  /\ torn' = FALSE
  /\ synced' = synced \cup Stamps(drained[t])
  /\ drained' = [drained EXCEPT ![t] = <<>>]
  /\ toRotate' = IF MaxSize = 0 THEN toRotate ELSE toRotate \cup {t}
  /\ UNCHANGED <<clock, call, stamped, buffer, stopped, holder, rotated, cutoff,
                 accepted, lost, lastMark>>

\* Files are named by the second: a rotation may replace the one before it.
\* _cleanup_rotated then keeps the MaxRotatedKeep newest.
Newest(files) ==
  IF Len(files) > MaxRotatedKeep
  THEN SubSeq(files, Len(files) - MaxRotatedKeep + 1, Len(files))
  ELSE files

MaybeRotate(t) ==
  /\ t \in toRotate
  /\ toRotate' = toRotate \ {t}
  /\ IF Len(file) < MaxSize
     THEN UNCHANGED <<file, torn, rotated>>
     ELSE /\ \/ rotated' = Newest(Append(rotated, file))
             \/ /\ rotated # <<>>
                /\ rotated' = [rotated EXCEPT ![Len(rotated)] = file]
          /\ file' = <<>>
          /\ torn' = FALSE
  /\ UNCHANGED <<clock, call, stamped, buffer, drained, stopped, holder, cutoff, walHistory>>

FlushDone(i) == drained[<<i, "caller">>] = <<>> /\ <<i, "caller">> \notin toRotate

FlushReturn(i) ==
  /\ call[i] = "flush"
  /\ FlushDone(i)
  /\ call' = [call EXCEPT ![i] = "none"]
  /\ UNCHANGED <<clock, stamped, buffer, drained, toRotate, stopped, holder, walDisk, walHistory>>

\* read_all() opens the file here; it takes no lock.
ReadReturn(i) ==
  /\ call[i] = "read"
  /\ FlushDone(i)
  /\ call' = [call EXCEPT ![i] = "none"]
  /\ UNCHANGED <<clock, stamped, buffer, drained, toRotate, stopped, holder, walDisk, walHistory>>

(***************************************************************************)
(* checkpoint(): under the FileLock, open (and so empty) the checkpoint    *)
(* file, write the time to it, truncate the log.                           *)
(***************************************************************************)
CheckpointOpen(i) ==
  /\ call[i] = "checkpoint"
  /\ FlushDone(i)
  /\ holder = None
  /\ holder' = i
  /\ cutoff' = 0
  /\ call' = [call EXCEPT ![i] = "mark"]
  /\ UNCHANGED <<clock, stamped, buffer, drained, toRotate, stopped, file, torn, rotated, walHistory>>

MarkReleasesLock(i) ==
  /\ call[i] = "mark"
  /\ clock' = clock + 1
  /\ cutoff' = clock + 1
  /\ lastMark' = clock + 1
  /\ holder' = None
  /\ call' = [call EXCEPT ![i] = "truncate"]
  /\ UNCHANGED <<stamped, buffer, drained, toRotate, stopped, file, torn, rotated,
                 accepted, synced, lost>>

CheckpointMark(i) ==
  /\ call[i] = "mark"
  /\ clock' = clock + 1
  /\ cutoff' = clock + 1
  /\ lastMark' = clock + 1
  /\ call' = [call EXCEPT ![i] = "truncate"]
  /\ UNCHANGED <<stamped, buffer, drained, toRotate, stopped, holder, file, torn, rotated,
                 accepted, synced, lost>>

TruncateKeepsLock(i) ==
  /\ call[i] = "truncate"
  /\ file' = <<>>
  /\ torn' = FALSE
  /\ call' = [call EXCEPT ![i] = "none"]
  /\ UNCHANGED <<clock, stamped, buffer, drained, toRotate, stopped, holder, rotated, cutoff, walHistory>>

CheckpointTruncate(i) ==
  /\ call[i] = "truncate"
  /\ file' = <<>>
  /\ torn' = FALSE
  /\ holder' = None
  /\ call' = [call EXCEPT ![i] = "none"]
  /\ UNCHANGED <<clock, stamped, buffer, drained, toRotate, stopped, rotated, cutoff, walHistory>>

\* truncate() forgets what the file holds without touching the checkpoint file.
TruncateLog(i) ==
  /\ i \in Savers
  /\ call[i] = "none"
  /\ holder = None
  /\ file' = <<>>
  /\ torn' = FALSE
  /\ lastMark' = clock
  /\ UNCHANGED <<clock, walVolatile, rotated, cutoff, accepted, synced, lost>>

(***************************************************************************)
(* The process dies and a new one creates its instances.  A thread that    *)
(* was in f.write may have got some lines out, and half of the next.       *)
(***************************************************************************)
PartialWrite(t) ==
  /\ holder = None
  /\ \E n \in 0 .. Len(drained[t]) :
       /\ file' = IF n = 0 THEN file ELSE AppendLines(SubSeq(drained[t], 1, n))
       /\ \/ torn' = (torn /\ n = 0)
          \/ TornWrites /\ n < Len(drained[t]) /\ torn' = TRUE

Crash ==
  /\ \/ UNCHANGED <<file, torn>>
     \/ \E t \in Threads : drained[t] # <<>> /\ PartialWrite(t)
  /\ lost' = lost \cup UNION {InMemory(i) : i \in Instances}
  /\ call' = [i \in Instances |-> "none"]
  /\ stamped' = [i \in Instances |-> None]
  /\ buffer' = [i \in Instances |-> <<>>]
  /\ drained' = [t \in Threads |-> <<>>]
  /\ toRotate' = {}
  /\ stopped' = {}
  /\ holder' = None
  /\ UNCHANGED <<clock, rotated, cutoff, accepted, synced, lastMark>>

WalStep ==
  \/ \E i \in Instances :
       \/ \E op \in Ops : Stamp(i, op)
       \/ AppendEntry(i)
       \/ FlusherDrain(i)
       \/ FlushCall(i)
       \/ ReadCall(i)
       \/ CheckpointCall(i)
       \/ CloseCall(i)
       \/ FlushReturn(i)
       \/ ReadReturn(i)
       \/ CheckpointOpen(i)
       \/ CheckpointMark(i)
       \/ CheckpointTruncate(i)
       \/ TruncateLog(i)
  \/ \E t \in Threads : WriteLines(t) \/ MaybeRotate(t)

WalNext == WalStep \/ Crash

WalSpec == WalInit /\ [][WalNext]_walVars

\* The flusher loops and a started call runs on.  FileLock polls: a writer gets the
\* lock if from some time on nobody holds it, as when checkpoints stop at MaxClock.
\* Nothing says that anybody logs, closes, checkpoints or crashes.
WalFairness ==
  /\ \A i \in Instances :
       /\ WF_walVars(AppendEntry(i))
       /\ WF_walVars(FlusherDrain(i))
       /\ WF_walVars(CheckpointOpen(i))
       /\ WF_walVars(CheckpointMark(i))
       /\ WF_walVars(CheckpointTruncate(i))
  /\ \A t \in Threads : WF_walVars(WriteLines(t)) /\ WF_walVars(MaybeRotate(t))

FairWalSpec == WalSpec /\ WalFairness

-----------------------------------------------------------------------------
(***************************************************************************)
(* Properties.                                                             *)
(***************************************************************************)
Line == Entry \cup {Garbage}

\* Every variable has its type.
WalTypeOK ==
  /\ clock \in Nat
  /\ call \in [Instances -> {"none", "log", "flush", "read", "checkpoint", "mark", "truncate"}]
  /\ stamped \in [Instances -> Entry \cup {None}]
  /\ buffer \in [Instances -> Seq(Entry)]
  /\ drained \in [Threads -> Seq(Entry)]
  /\ toRotate \in SUBSET Threads
  /\ stopped \in SUBSET Instances
  /\ file \in Seq(Line)
  /\ torn \in BOOLEAN
  /\ rotated \in Seq(Seq(Line))
  /\ cutoff \in 0 .. clock
  /\ holder \in Instances \cup {None}
  /\ accepted \in [Instances -> SUBSET (1 .. MaxClock)]
  /\ synced \in SUBSET (1 .. MaxClock)
  /\ lost \in SUBSET (1 .. MaxClock)
  /\ lastMark \in 0 .. clock

\* Where entries are in memory: stamped and about to be appended, in the buffer, in the
\* batches of the two threads.
Places == Instances \X {"stamped", "buffer", "flusher", "caller"}
LinesAt(p) ==
  CASE p[2] = "stamped" -> IF call[p[1]] = "log" THEN <<stamped[p[1]]>> ELSE <<>>
    [] p[2] = "buffer" -> buffer[p[1]]
    [] OTHER -> drained[p]

NoTwice(lines) ==
  \A j, k \in DOMAIN lines :
    IsEntry(lines[j]) /\ IsEntry(lines[k]) /\ lines[j].ts = lines[k].ts => j = k
Apart(s, r) == Stamps(s) \cap Stamps(r) = {}

\* No entry is in two places, nor in one place twice, of memory, the log and the rotated
\* files: replay applies it once.
OneCopy ==
  /\ NoTwice(file)
  /\ \A k \in DOMAIN rotated :
       /\ NoTwice(rotated[k]) /\ Apart(rotated[k], file)
       /\ \A l \in DOMAIN rotated : k # l => Apart(rotated[k], rotated[l])
  /\ \A p \in Places :
       /\ NoTwice(LinesAt(p)) /\ Apart(LinesAt(p), file)
       /\ \A k \in DOMAIN rotated : Apart(LinesAt(p), rotated[k])
       /\ \A q \in Places : p # q => Apart(LinesAt(p), LinesAt(q))

\* An entry that reached the disk (fsync returned) and was logged after the last
\* checkpoint is what replay reads, at every moment and so after every crash: unless
\* a rotation has moved a log away or a torn line has swallowed an entry.
SyncedIsReplayed ==
  rotated = <<>> /\ Garbage \notin ToSet(file) =>
    \A t \in synced : t > lastMark => \E l \in ToSet(file) : IsPending(l) /\ l.ts = t

\* Every entry logged by a live process reaches the disk, whatever the
\* checkpoints of other instances do with the FileLock.
EventuallySynced ==
  \A i \in Instances, t \in 1 .. MaxClock :
    t \in accepted[i] ~> t \in synced \cup lost
=============================================================================
