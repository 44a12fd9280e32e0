--------------------------- MODULE PitrSnapshots ---------------------------
(***************************************************************************)
(* Point-in-time recovery of one collection, services/pitr_service.py.  A  *)
(* snapshot copies the collection's files one after another while the      *)
(* vector service (external here, see Recovery) goes on writing them; the  *)
(* API and the scheduler's thread take snapshots into directories named by *)
(* the second.  The files are the saved index, the log and the log's       *)
(* checkpoint mark; each stands for a set of writes.  The index is written *)
(* over in place, so a copy may be half of it.                             *)
(***************************************************************************)
EXTENDS Integers, Sequences, SequencesExt, FiniteSets

CONSTANTS
  Requesters,    \* threads that serve snapshot requests
  MaxSchedulers, \* bound: scheduler threads made
  MaxWrites,     \* bound: writes
  MaxSeconds,    \* bound: seconds in which snapshots begin
  MaxSnapshots,  \* bound: snapshots begun
  MaxRestores,   \* bound: restores begun
  MaxPitrCrashes \* bound: crashes

ASSUME PitrAssumption ==
  /\ MaxSchedulers \in Nat /\ MaxWrites \in Nat /\ MaxSeconds \in Nat
  /\ MaxSnapshots \in Nat /\ MaxRestores \in Nat /\ MaxPitrCrashes \in Nat

VARIABLES
  live,       \* live[f]: the writes in file f, for the files that are there
  held,       \* writes in the service's memory
  writes,     \* writes so far
  saving,     \* how far a save is: 0, 1 (index opened), 2 (index written), 3 (mark written)
  second,     \* the clock, when a snapshot last began
  dirs,       \* dirs[n]: directory of second n: copies, and what pitr_meta.json lists
  snapPc,     \* snapPc[t]: "off", "idle" (asleep, if a scheduler) or "copy"
  begun,      \* snapshots begun
  taking,     \* taking[t]: thread t's directory, source directories visited, files to copy
  scheduled,  \* _running
  schedulers, \* scheduler threads made so far
  restoring,  \* the last restore: its snapshot, the files still to copy, and (history)
              \* whether nobody wrote a file since it began; forgotten by the next write
  restores,   \* restores begun
  pitrCrashes,
  mixed       \* history: snapshots that met a save, another snapshot or a restore

pitrVars == <<live, held, writes, saving, second, dirs, snapPc, begun, taking, scheduled,
              schedulers, restoring, restores, pitrCrashes, mixed>>
serviceVars == <<live, held, writes, saving>>
schedVars == <<scheduled, schedulers, begun>>

Snappers == (1 .. MaxSchedulers) \cup Requesters
NoFiles == [f \in {} |-> {}]
FileAt(m, f) == IF f \in DOMAIN m THEN m[f] ELSE {}
Replaced(m, f, s) == [g \in DOMAIN m \cup {f} |-> IF g = f THEN s ELSE m[g]]

NoRestore == [dir |-> 0, todo |-> {}, clean |-> FALSE]
Nothing == [dir |-> 0, done |-> 0, todo |-> {}, listed |-> {}, floor |-> {}]

\* An index file half written, which does not load.
Half == {0}

\* What loading the index and replaying the log after the mark gives: without an index
\* that loads, nothing.
Loadable(m) == FileAt(m, "index") \notin {{}, Half}
Recovered(m) ==
  IF Loadable(m) THEN FileAt(m, "index") \cup (FileAt(m, "log") \ FileAt(m, "mark")) ELSE {}

\* The files as they are when the save under way has written its index.
Settled == IF saving = 1 THEN Replaced(live, "index", held) ELSE live

PitrInit ==
  /\ live = NoFiles /\ held = {} /\ writes = 0 /\ saving = 0 /\ second = 1
  /\ dirs = [n \in 1 .. MaxSeconds |-> [copied |-> NoFiles, listed |-> {}, meta |-> FALSE, floor |-> {}]]
  /\ snapPc = [t \in Snappers |-> IF t \in Requesters THEN "idle" ELSE "off"]
  /\ taking = [t \in Snappers |-> Nothing]
  /\ scheduled = FALSE /\ schedulers = 0 /\ begun = 0 /\ restores = 0 /\ pitrCrashes = 0 /\ mixed = {}
  /\ restoring = NoRestore

\* Snapshots in the making.
Taken == {t \in Snappers : snapPc[t] = "copy"}
Open == {taking[t].dir : t \in Taken}

-----------------------------------------------------------------------------
(* The vector service: a write is logged; a save writes the index and the mark *)
(* and empties the log *)

Written == restoring' = IF restoring.todo = {} THEN NoRestore ELSE [restoring EXCEPT !.clean = FALSE]

Write ==
  /\ writes < MaxWrites /\ saving = 0
  /\ writes' = writes + 1 /\ held' = held \cup {writes + 1}
  /\ live' = Replaced(live, "log", FileAt(live, "log") \cup {writes + 1})
  /\ Written
  /\ UNCHANGED <<saving, second, dirs, snapPc, taking, schedVars, restores, pitrCrashes, mixed>>

\* What a step that leaves the files as m takes from the log, or marks as saved.
Gone(m) == (FileAt(live, "log") \ FileAt(m, "log")) \cup (FileAt(m, "mark") \ FileAt(live, "mark"))

\* Snapshots from which that step takes writes: before they have copied the index, what
\* could be recovered and no longer can; after, what only the other files held.
Overtaken(m) == {taking[t].dir : t \in {u \in Taken :
  IF taking[u].done = 0 \/ "index" \in taking[u].todo THEN ~(Recovered(Settled) \subseteq Recovered(m))
  ELSE ~(Gone(m) \subseteq FileAt(dirs[taking[u].dir].copied, "index"))}}

\* Opening the index empties it.  One saved over a restored one may hold less.
OpenIndexFile ==
  /\ saving = 0 /\ held # {}
  /\ live' = Replaced(live, "index", Half)
  /\ saving' = 1 /\ Written
  /\ UNCHANGED <<held, writes, second, dirs, snapPc, taking, schedVars, restores, pitrCrashes>>
  /\ mixed' = mixed \cup Overtaken(Settled')

\* A restore that wrote the file meanwhile may have mangled it.
SaveIndexFile ==
  /\ saving = 1
  /\ \E s \in {held} \cup (IF live["index"] = Half THEN {} ELSE {Half}) :
       live' = Replaced(live, "index", s)
  /\ saving' = 2 /\ Written
  /\ UNCHANGED <<held, writes, second, dirs, snapPc, taking, schedVars, restores, pitrCrashes>>
  /\ mixed' = mixed \cup Overtaken(Settled')

\* Half a mark reads as none.
CheckpointLog ==
  /\ saving > 1
  /\ IF saving = 2 THEN live' = Replaced(live, "mark", held) ELSE live' = Replaced(live, "log", {})
  /\ saving' = (saving + 1) % 4 /\ Written
  /\ UNCHANGED <<held, writes, second, dirs, snapPc, taking, schedVars, restores, pitrCrashes>>
  /\ mixed' = mixed \cup Overtaken(Settled')

-----------------------------------------------------------------------------
(* create_snapshot *)

\* "indexes", then "wal_logs"; the files of a directory come in any order.
SourceDirs == <<{"index"}, {"log", "mark"}>>

\* The clock may have moved on: two snapshots in one second share a directory.
BeginSnapshot(t) ==
  /\ snapPc[t] = "idle" /\ (t \in Requesters \/ scheduled) /\ begun < MaxSnapshots
  /\ begun' = begun + 1
  /\ second' \in {second, second + 1} \cap DOMAIN dirs
  /\ snapPc' = [snapPc EXCEPT ![t] = "copy"]
  /\ taking' = [taking EXCEPT ![t] =
       [dir |-> second', done |-> 0, todo |-> {}, listed |-> {}, floor |-> Recovered(Settled)]]
  /\ mixed' = IF second' \in Open \/ dirs[second'].copied # NoFiles \/ dirs[second'].meta
              THEN mixed \cup {second'} ELSE mixed
  /\ UNCHANGED <<serviceVars, dirs, scheduled, schedulers, restoring, restores, pitrCrashes>>

\* os.walk lists a directory when it comes to it.
ListFiles(t) ==
  /\ snapPc[t] = "copy" /\ taking[t].todo = {} /\ taking[t].done < Len(SourceDirs)
  /\ taking' = [taking EXCEPT ![t].done = @ + 1,
                              ![t].todo = SourceDirs[taking[t].done + 1] \cap DOMAIN live]
  /\ UNCHANGED <<serviceVars, second, dirs, snapPc, schedVars, restoring, restores, pitrCrashes, mixed>>

\* A copy taken while the index is written is half a file.
CopyFile(t) ==
  /\ snapPc[t] = "copy"
  /\ \E f \in taking[t].todo :
       /\ mixed' = IF f = "index" /\ saving = 1 THEN mixed \cup {taking[t].dir} ELSE mixed
       /\ dirs' = [dirs EXCEPT ![taking[t].dir].copied = Replaced(@, f, live[f])]
       /\ taking' = [taking EXCEPT ![t].todo = @ \ {f}, ![t].listed = @ \cup {f}]
  /\ UNCHANGED <<serviceVars, second, snapPc, schedVars, restoring, restores, pitrCrashes>>

Done(t) ==
  /\ snapPc' = [snapPc EXCEPT ![t] = "idle"]
  /\ taking' = [taking EXCEPT ![t] = Nothing]

\* The list of files is written last: without it a snapshot does not exist.
WriteMeta(t) ==
  /\ snapPc[t] = "copy" /\ taking[t].todo = {} /\ taking[t].done = Len(SourceDirs)
  /\ dirs' = [dirs EXCEPT ![taking[t].dir].meta = TRUE, ![taking[t].dir].listed = taking[t].listed,
                          ![taking[t].dir].floor = taking[t].floor]
  /\ Done(t)
  /\ UNCHANGED <<serviceVars, second, schedVars, restoring, restores, pitrCrashes, mixed>>

\* Buggy variant: the list of what was copied is written although copying raised.
FailWithMeta(t) ==
  /\ snapPc[t] = "copy"
  /\ dirs' = [dirs EXCEPT ![taking[t].dir].meta = TRUE, ![taking[t].dir].listed = taking[t].listed,
                          ![taking[t].dir].floor = taking[t].floor]
  /\ Done(t)
  /\ UNCHANGED <<serviceVars, second, schedVars, restoring, restores, pitrCrashes, mixed>>

\* Listing, copying or writing the list raises; what was copied stays.
FailSnapshot(t) ==
  /\ snapPc[t] = "copy"
  /\ Done(t)
  /\ UNCHANGED <<serviceVars, second, dirs, schedVars, restoring, restores, pitrCrashes, mixed>>

-----------------------------------------------------------------------------
(* schedule_snapshot, stop_scheduler, restore *)

Schedule ==
  /\ ~scheduled /\ schedulers < MaxSchedulers
  /\ scheduled' = TRUE /\ schedulers' = schedulers + 1
  /\ snapPc' = [snapPc EXCEPT ![schedulers + 1] = "idle"]
  /\ UNCHANGED <<begun, serviceVars, second, dirs, taking, restoring, restores, pitrCrashes, mixed>>

StopScheduler ==
  /\ scheduled /\ scheduled' = FALSE
  /\ UNCHANGED <<serviceVars, second, dirs, snapPc, taking, schedulers, begun, restoring, restores, pitrCrashes, mixed>>

\* A thread that slept through a stop and a new start goes on beside the new one.
EndScheduler(t) ==
  /\ t \notin Requesters /\ snapPc[t] = "idle" /\ ~scheduled
  /\ snapPc' = [snapPc EXCEPT ![t] = "off"]
  /\ UNCHANGED <<serviceVars, second, dirs, taking, schedVars, restoring, restores, pitrCrashes, mixed>>

BeginRestore(n) ==
  /\ restoring.todo = {} /\ dirs[n].meta
  /\ restores < MaxRestores /\ restores' = restores + 1
  /\ restoring' = [dir |-> n, todo |-> dirs[n].listed, clean |-> TRUE]
  /\ UNCHANGED <<serviceVars, second, dirs, snapPc, taking, schedVars, pitrCrashes, mixed>>

\* Files that the snapshot lacks stay as they are.
RestoreFile ==
  /\ \E f \in restoring.todo :
       /\ live' = Replaced(live, f, dirs[restoring.dir].copied[f])
       /\ restoring' = [restoring EXCEPT !.todo = @ \ {f}]
  /\ mixed' = mixed \cup Open
  /\ UNCHANGED <<held, writes, saving, second, dirs, snapPc, taking, schedVars, restores, pitrCrashes>>

\* The service's memory is what it recovers; an index that does not load is built again
\* from the rows.
PitrCrash ==
  /\ pitrCrashes < MaxPitrCrashes /\ pitrCrashes' = pitrCrashes + 1
  /\ snapPc' = [t \in Snappers |-> IF t \in Requesters THEN "idle" ELSE "off"]
  /\ saving' = 0 /\ scheduled' = FALSE /\ held' = (IF Loadable(live) THEN Recovered(live) ELSE 1 .. writes)
  /\ restoring' = NoRestore
  /\ taking' = [t \in Snappers |-> Nothing]
  /\ UNCHANGED <<live, writes, second, dirs, schedulers, begun, restores, mixed>>

PitrNext ==
  \/ Write \/ OpenIndexFile \/ SaveIndexFile \/ CheckpointLog \/ Schedule \/ StopScheduler
  \/ \E t \in Snappers :
       BeginSnapshot(t) \/ ListFiles(t) \/ CopyFile(t) \/ WriteMeta(t) \/ FailSnapshot(t) \/ EndScheduler(t)
  \/ \E n \in 1 .. MaxSeconds : BeginRestore(n)
  \/ RestoreFile \/ PitrCrash

PitrSpec == PitrInit /\ [][PitrNext]_pitrVars

-----------------------------------------------------------------------------
(* Properties *)

\* What a collection held when a snapshot began is there again once the snapshot was
\* restored and nobody wrote meanwhile: unless a save overtook the copying or met the
\* copy of the index, two snapshots shared a second, or a checkpoint mark is left that the snapshot does not have.
PitrRestoreBringsBack ==
  restoring.dir # 0 /\ restoring.todo = {} /\ restoring.clean /\ restoring.dir \notin mixed
    /\ ("mark" \in DOMAIN live => "mark" \in dirs[restoring.dir].listed)
  => dirs[restoring.dir].floor \subseteq Recovered(live)
=============================================================================
