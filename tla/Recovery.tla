------------------------------ MODULE Recovery ------------------------------
(***************************************************************************)
(* Vectors of one collection between the database, the in-memory indexes,  *)
(* the index files and the write-ahead log: services/vector_service.py,    *)
(* database/hnsw_database.py, database/ivf_database.py and                 *)
(* services/startup_recovery.py composed with WriteAheadLog.               *)
(*                                                                         *)
(* Each service object serves one request at a time.  It logs through a    *)
(* WriteAheadLog of its own; every save and every load makes a fresh one.  *)
(* An index, a snapshot file or the table is the function from ids to      *)
(* what it holds for them, the graph or the clusters abstracted away.      *)
(***************************************************************************)
EXTENDS WriteAheadLog

CONSTANTS
  Services,    \* VectorService objects
  Ids, Vals,   \* vector ids and what can be stored under them
  Absent,      \* no row, not in the index
  Missing,     \* no index file, no index loaded
  Broken,      \* a file half written
  Kinds,       \* which of "hnsw" and "ivf" the collection uses
  Requests,    \* which requests arrive
  BuildLimit   \* rows a build takes of a collection

\* What an entry can carry.
Operations ==
  [kind : {"INSERT", "UPDATE_META"}, id : Ids, val : Vals] \cup [kind : {"DELETE"}, id : Ids]

Own(s) == <<s, "own">>
Fresh(s) == <<s, "fresh">>

ASSUME RecoveryAssumption ==
  /\ Instances = Services \X {"own", "fresh"}
  /\ Ops = Operations
  /\ Absent \notin Vals
  /\ {Missing, Broken} \cap [Ids -> Vals \cup {Absent}] = {}
  /\ Kinds \subseteq {"hnsw", "ivf"}
  /\ Requests \subseteq {"create", "recreate", "batch", "update", "rewrite", "delete",
                         "build", "save", "load", "recycle"}
  /\ BuildLimit \in Nat \ {0}

Contents == [Ids -> Vals \cup {Absent}]
NoOp == [kind |-> "none"]

VARIABLES
  db,          \* the committed rows
  index,       \* the loaded indexes of each service
  snapshot,    \* the index files
  pc,          \* where each service's request is
  op,          \* the operation a writing request will log
  target,      \* which kind of index a save or load request works on
  draft,       \* the snapshot a load request has read
  untracked,   \* history: ids with a change the log lacks or has out of order, or that an
               \* index was built or loaded without
  diverged     \* history: ids whose indexed value was let differ from the row

service == <<index, pc, op, target, draft>>
excuses == <<untracked, diverged>>
recVars == <<db, snapshot, service, excuses>>
allVars == <<walVars, recVars>>

Init ==
  /\ WalInit
  /\ db = [id \in Ids |-> Absent]
  /\ index = [s \in Services |-> [k \in Kinds |-> Missing]]
  /\ snapshot = [k \in Kinds |-> Missing]
  /\ pc = [s \in Services |-> "idle"]
  /\ op = [s \in Services |-> NoOp]
  /\ target = [s \in Services |-> "none"]
  /\ draft = [s \in Services |-> Missing]
  /\ untracked = {}
  /\ diverged = {}

Loaded(content) == content \notin {Missing, Broken}

\* What one operation does to an index: HNSWIndex.insert replaces, delete drops,
\* and metadata is replaced only for an id the index has.
Apply(content, o) ==
  CASE o.kind = "INSERT" -> [content EXCEPT ![o.id] = o.val]
    [] o.kind = "DELETE" -> [content EXCEPT ![o.id] = Absent]
    [] o.kind = "UPDATE_META" ->
         IF content[o.id] = Absent THEN content ELSE [content EXCEPT ![o.id] = o.val]

\* replay(): the pending entries of the log, in order, over what the snapshot holds.
Recovered(content) ==
  LET replay[n \in 0 .. Len(file)] ==
        IF n = 0 THEN content
        ELSE IF IsPending(file[n]) THEN Apply(replay[n - 1], file[n].op)
        ELSE replay[n - 1]
  IN replay[Len(file)]

IdsOf(entries) == {e.op.id : e \in ToSet(entries)}

\* Ids of requests in the middle of writing, and of entries that wait in memory.
InProgress == {op[s].id : s \in {r \in Services : op[r] # NoOp}}
Waiting ==
  UNION {IdsOf(buffer[i]) \cup IdsOf(drained[<<i, "flusher">>])
           \cup IdsOf(drained[<<i, "caller">>]) : i \in Instances}

ApplyToLoaded(s, o) ==
  [index EXCEPT ![s] = [k \in Kinds |-> IF Loaded(@[k]) THEN Apply(@[k], o) ELSE @[k]]]

-----------------------------------------------------------------------------
(***************************************************************************)
(* Writing requests: the row is committed first, then the entry is logged. *)
(***************************************************************************)
Arrives(s, request) == request \in Requests /\ pc[s] = "idle"

Begin(s, o, next) ==
  /\ op' = [op EXCEPT ![s] = o]
  /\ pc' = [pc EXCEPT ![s] = next]
  /\ UNCHANGED <<walVars, index, snapshot, target, draft, untracked>>

Commit(id, v) == db' = [db EXCEPT ![id] = v]

\* A change that is committed and neither indexed nor logged.
CommitOnly(id, v) ==
  /\ Commit(id, v)
  /\ untracked' = untracked \cup {id}
  /\ UNCHANGED <<walVars, snapshot, service, diverged>>

Create(s, id, v) ==
  /\ Arrives(s, "create")
  /\ db[id] = Absent
  /\ Commit(id, v)
  /\ UNCHANGED diverged
  /\ Begin(s, [kind |-> "INSERT", id |-> id, val |-> v], "write")

\* An existing row is returned as it is; the given vector is indexed and logged.
Recreate(s, id, v) ==
  /\ Arrives(s, "recreate")
  /\ db[id] # Absent
  /\ UNCHANGED db
  /\ diverged' = diverged \cup {id}
  /\ Begin(s, [kind |-> "INSERT", id |-> id, val |-> v], "write")

Indexing(s) == \E k \in Kinds : Loaded(index[s][k])

\* create_vector_batch indexes, logs and flushes only if an index is loaded.
BatchCreate(s, id, v) ==
  /\ Arrives(s, "batch")
  /\ db[id] = Absent
  /\ Indexing(s)
  /\ Commit(id, v)
  /\ UNCHANGED diverged
  /\ Begin(s, [kind |-> "INSERT", id |-> id, val |-> v], "batch")

BatchCreateUnindexed(s, id, v) ==
  /\ Arrives(s, "batch")
  /\ db[id] = Absent
  /\ ~Indexing(s)
  /\ CommitOnly(id, v)

UpdateMetadata(s, id, v) ==
  /\ Arrives(s, "update")
  /\ db[id] # Absent
  /\ Commit(id, v)
  /\ diverged' = diverged \cup {id}
  /\ Begin(s, [kind |-> "UPDATE_META", id |-> id, val |-> v], "write")

\* update_vector with vector_data and no metadata.
RewriteVector(s, id, v) ==
  /\ Arrives(s, "rewrite")
  /\ db[id] # Absent
  /\ CommitOnly(id, v)

DeleteUnlogged(s, id) ==
  /\ Arrives(s, "delete")
  /\ db[id] # Absent
  /\ Commit(id, Absent)
  /\ index' = ApplyToLoaded(s, [kind |-> "DELETE", id |-> id])
  /\ UNCHANGED <<walVars, snapshot, pc, op, target, draft, excuses>>

Delete(s, id) ==
  /\ Arrives(s, "delete")
  /\ db[id] # Absent
  /\ Commit(id, Absent)
  /\ diverged' = diverged \ {id}
  /\ Begin(s, [kind |-> "DELETE", id |-> id], "write")

\* A vector is indexed before its entry is stamped, a delete after it is buffered.
LogStart(s) ==
  /\ pc[s] \in {"write", "batch"}
  /\ Stamp(Own(s), op[s])
  /\ index' = IF op[s].kind = "INSERT" THEN ApplyToLoaded(s, op[s]) ELSE index
  /\ pc' = [pc EXCEPT ![s] = IF @ = "batch" THEN "logBatch" ELSE "log"]
  /\ UNCHANGED <<db, snapshot, op, target, draft, excuses>>

LogEnd(s) ==
  /\ pc[s] \in {"log", "logBatch"}
  /\ AppendEntry(Own(s))
  /\ index' = IF op[s].kind = "DELETE" THEN ApplyToLoaded(s, op[s]) ELSE index
  /\ op' = [op EXCEPT ![s] = NoOp]
  /\ pc' = [pc EXCEPT ![s] = IF @ = "logBatch" THEN "flush" ELSE "idle"]
  /\ UNCHANGED <<db, snapshot, target, draft, excuses>>

\* Indexing the vector, or opening the log, raises after the commit: the vector may be in
\* some of the indexes, the log has nothing.
RequestFails(s) ==
  /\ pc[s] \in {"write", "batch"}
  /\ \E tried \in {{}, Kinds \ {"ivf"}, Kinds} :
       index' = [index EXCEPT ![s] = [k \in Kinds |->
                   IF k \in tried /\ op[s].kind = "INSERT" THEN ApplyToLoaded(s, op[s])[s][k]
                   ELSE @[k]]]
  /\ untracked' = untracked \cup {op[s].id}
  /\ op' = [op EXCEPT ![s] = NoOp]
  /\ pc' = [pc EXCEPT ![s] = "idle"]
  /\ UNCHANGED <<walVars, db, snapshot, target, draft, diverged>>

\* The flush overtakes what the flusher has drained and not written.
BatchFlush(s) ==
  /\ pc[s] = "flush"
  /\ FlushCall(Own(s))
  /\ pc' = [pc EXCEPT ![s] = "flushing"]
  /\ untracked' = untracked \cup
       (IdsOf(buffer[Own(s)]) \cap IdsOf(drained[<<Own(s), "flusher">>]))
  /\ UNCHANGED <<db, snapshot, index, op, target, draft, diverged>>

BatchEnd(s) ==
  /\ pc[s] = "flushing"
  /\ FlushReturn(Own(s))
  /\ pc' = [pc EXCEPT ![s] = "idle"]
  /\ UNCHANGED <<db, snapshot, index, op, target, draft, excuses>>

-----------------------------------------------------------------------------
(***************************************************************************)
(* Building, saving and loading an index.                                  *)
(***************************************************************************)
Rows == {id \in Ids : db[id] # Absent}

\* create_ivf_index refuses while the service has one, and saves the new index.  Of a
\* collection a build takes BuildLimit rows in any order, of the whole table all.
Build(s, k) ==
  /\ Arrives(s, "build")
  /\ k = "ivf" => ~Loaded(index[s][k])
  /\ Rows # {}
  /\ \E taken \in SUBSET Rows :
       /\ taken = Rows \/ Cardinality(taken) = BuildLimit
       /\ index' = [index EXCEPT ![s][k] = [id \in Ids |-> IF id \in taken THEN db[id] ELSE Absent]]
       /\ untracked' = untracked \cup (Rows \ taken)
  /\ target' = [target EXCEPT ![s] = k]
  /\ pc' = [pc EXCEPT ![s] = IF k = "ivf" THEN "save" ELSE "idle"]
  /\ UNCHANGED <<walVars, db, snapshot, op, draft, diverged>>

Save(s, k) ==
  /\ Arrives(s, "save")
  /\ Loaded(index[s][k])
  /\ target' = [target EXCEPT ![s] = k]
  /\ pc' = [pc EXCEPT ![s] = "save"]
  /\ UNCHANGED <<walVars, db, snapshot, index, op, draft, excuses>>

\* index.save() opens the index file for writing and then writes it.
SaveOpen(s) ==
  /\ pc[s] = "save"
  /\ snapshot' = [snapshot EXCEPT ![target[s]] = Broken]
  /\ pc' = [pc EXCEPT ![s] = "dump"]
  /\ UNCHANGED <<walVars, db, index, op, target, draft, excuses>>

\* Only save_hnsw_index goes on to a checkpoint.
SaveWrite(s) ==
  /\ pc[s] = "dump"
  /\ snapshot' = [snapshot EXCEPT ![target[s]] = index[s][target[s]]]
  /\ pc' = [pc EXCEPT ![s] = IF target[s] = "hnsw" THEN "checkpoint" ELSE "idle"]
  /\ UNCHANGED <<walVars, db, index, op, target, draft, excuses>>

SaveCheckpoint(s) ==
  /\ pc[s] = "checkpoint"
  /\ CheckpointCall(Fresh(s))
  /\ pc' = [pc EXCEPT ![s] = "checkpointing"]
  /\ UNCHANGED <<db, snapshot, index, op, target, draft, excuses>>

SaveEnd(s) ==
  /\ pc[s] = "checkpointing"
  /\ CheckpointTruncate(Fresh(s))
  /\ pc' = [pc EXCEPT ![s] = "idle"]
  /\ UNCHANGED <<db, snapshot, index, op, target, draft, excuses>>

\* A half-written file does not parse and the load returns an error.
LoadStart(s, k) ==
  /\ Arrives(s, "load")
  /\ Loaded(snapshot[k])
  /\ draft' = [draft EXCEPT ![s] = snapshot[k]]
  /\ target' = [target EXCEPT ![s] = k]
  /\ pc' = [pc EXCEPT ![s] = "load"]
  /\ UNCHANGED <<walVars, db, snapshot, index, op, excuses>>

LoadIgnoresLog(s) ==
  /\ pc[s] = "load"
  /\ index' = [index EXCEPT ![s][target[s]] = draft[s]]
  /\ draft' = [draft EXCEPT ![s] = Missing]
  /\ pc' = [pc EXCEPT ![s] = "idle"]
  /\ UNCHANGED <<walVars, db, snapshot, op, target, excuses>>

\* The fresh WriteAheadLog that replays has an empty buffer to flush: entries that wait in
\* another one's are missed.
LoadReplay(s) ==
  /\ pc[s] = "load"
  /\ index' = [index EXCEPT ![s][target[s]] = Recovered(draft[s])]
  /\ untracked' = untracked \cup Waiting
  /\ draft' = [draft EXCEPT ![s] = Missing]
  /\ pc' = [pc EXCEPT ![s] = "idle"]
  /\ UNCHANGED <<walVars, db, snapshot, op, target, diverged>>

\* A save or a load that raises is answered as an error; a half-written file stays.
SaveOrLoadFails(s) ==
  /\ pc[s] \in {"save", "dump", "checkpoint", "load"}
  /\ draft' = [draft EXCEPT ![s] = Missing]
  /\ pc' = [pc EXCEPT ![s] = "idle"]
  /\ UNCHANGED <<walVars, db, snapshot, index, op, target, excuses>>

\* The API makes a service per request: its indexes go with the request, while the
\* flusher of its log runs on.  A service here stands for the next one as soon as
\* that flusher has nothing left to write.
Recycle(s) ==
  /\ Arrives(s, "recycle")
  /\ InMemory(Own(s)) = {}
  /\ index' = [index EXCEPT ![s] = [k \in Kinds |-> Missing]]
  /\ UNCHANGED <<walVars, db, snapshot, pc, op, target, draft, excuses>>

-----------------------------------------------------------------------------
\* Threads of the log that no request waits for at this step.
Background ==
  /\ \/ \E i \in Instances : FlusherDrain(i) \/ CheckpointOpen(i) \/ CheckpointMark(i)
     \/ \E t \in Threads : WriteLines(t) \/ MaybeRotate(t)
  /\ UNCHANGED recVars

\* The process dies and starts again.  What recover_all loads, it loads into
\* database wrappers of its own: no service starts with an index.  What a request had
\* not logged yet, and what waited in memory, the log will never have.
ProcessCrash ==
  /\ Crash
  /\ index' = [s \in Services |-> [k \in Kinds |-> Missing]]
  /\ pc' = [s \in Services |-> "idle"]
  /\ op' = [s \in Services |-> NoOp]
  /\ target' = [s \in Services |-> "none"]
  /\ draft' = [s \in Services |-> Missing]
  /\ untracked' = untracked \cup InProgress \cup Waiting
  /\ UNCHANGED <<db, snapshot, diverged>>

Next ==
  \/ \E s \in Services :
       \/ \E id \in Ids, v \in Vals :
            \/ Create(s, id, v)
            \/ Recreate(s, id, v)
            \/ BatchCreate(s, id, v)
            \/ BatchCreateUnindexed(s, id, v)
            \/ UpdateMetadata(s, id, v)
            \/ RewriteVector(s, id, v)
       \/ \E id \in Ids : Delete(s, id)
       \/ LogStart(s)
       \/ LogEnd(s)
       \/ RequestFails(s)
       \/ BatchFlush(s)
       \/ BatchEnd(s)
       \/ \E k \in Kinds : Build(s, k) \/ Save(s, k) \/ LoadStart(s, k)
       \/ SaveOpen(s)
       \/ SaveWrite(s)
       \/ SaveCheckpoint(s)
       \/ SaveEnd(s)
       \/ LoadReplay(s)
       \/ SaveOrLoadFails(s)
       \/ Recycle(s)
  \/ Background
  \/ ProcessCrash

Spec == Init /\ [][Next]_allVars

-----------------------------------------------------------------------------
(***************************************************************************)
(* Properties.                                                             *)
(***************************************************************************)
Opening == {"write", "batch", "log", "logBatch"}

\* Ids all of whose changes were logged, in order, of which nothing was lost, and that no
\* index was built or loaded without.
Tracked == Ids \ untracked

\* Whatever is on disk at any step, an index file and the log recover the table: the
\* entries a checkpoint made obsolete were in the snapshot (hnsw_database.py:200), the
\* rest is replayed (hnsw_database.py:233).
DiskRecoversDb ==
  \A k \in Kinds :
    Loaded(snapshot[k]) =>
      \A id \in Tracked \ (diverged \cup InProgress \cup Waiting) :
        Recovered(snapshot[k])[id] = db[id]

\* A service that is between requests searches an index that agrees with the table,
\* however it came by the index; even where values differ, the index holds exactly the
\* ids that have a row.
LoadedIndexMatchesDb ==
  \A s \in Services, k \in Kinds :
    Loaded(index[s][k]) /\ pc[s] = "idle" =>
      \A id \in Tracked :
        /\ index[s][k][id] = Absent <=> db[id] = Absent
        /\ id \notin diverged => index[s][k][id] = db[id]
=============================================================================
