----------------------------- MODULE CrdtSync -----------------------------
(***************************************************************************)
(* Active-active regions, services/crdt_sync.py and utils/vector_clock.py. *)
(* Each region's CRDTSyncService holds a last-writer-wins set of vectors   *)
(* and a counter of inserts in memory, and a vector clock per vector id in *)
(* a JSON file.  A delta is a region's whole state, a copy but for its     *)
(* counter; how it travels is not in the code, so it may arrive late,      *)
(* twice, after a newer one, or never.  Regions stamp operations with      *)
(* clocks of their own, so stamps are arbitrary.  Every method holds the   *)
(* service's lock and is one step.                                         *)
(***************************************************************************)
EXTENDS Integers, FiniteSets

CONSTANTS
  Regions,    \* node ids
  Writers,    \* the regions that insert and delete,
  Restarters, \* that restart,
  Importers,  \* that call merge_remote_state
  Ids,        \* vector ids
  MaxTs,      \* stamps are 1 .. MaxTs; 0.0 counts as no stamp in the code
  MaxOps,     \* bound: local operations and restarts in a behaviour
  MaxDeltas,  \* bound: different deltas in a behaviour
  None        \* no entry

ASSUME CrdtAssumption ==
  /\ Writers \cup Restarters \cup Importers \subseteq Regions
  /\ MaxTs \in Nat /\ MaxOps \in Nat /\ MaxDeltas \in Nat
  /\ None \notin [ts : Nat, val : Nat] /\ None \notin Regions

VARIABLES
  adds,      \* adds[r][id]: the entry of _add_set, or None
  removes,   \* removes[r][id]: the stamp in _remove_set, 0 when absent
  counts,    \* counts[r][m]: slot of m in r's GCounter
  clocks,    \* clocks[r][id][m]: r's stored vector clock of id
  conflicts, \* the ids r's _conflicts list mentions
  deltas,    \* the deltas produced so far; one with a sharer has that region's own counter
  ops,       \* history: every local operation, with what its region then knew
  seen,      \* history: seen[r], operations whose data reached r since it started
  known,     \* history: known[r], operations r's clock file counts
  flagged,   \* history: pairs of operations a merge reported as a conflict
  restarts,  \* history: how many restarts there have been
  clockLost  \* history: a restart found the clock file truncated

data == <<adds, removes, counts>>
crdtVars == <<data, clocks, conflicts, deltas, ops, seen, known, flagged, restarts, clockLost>>

\* An inserted value stands for itself by the number of the operation that wrote it.
Entry == [ts : 1 .. MaxTs, val : 1 .. MaxOps]
Op == [num : 1 .. MaxOps, region : Regions, id : Ids, kind : {"insert", "delete"},
       ts : 1 .. MaxTs, deps : SUBSET (1 .. MaxOps)]
Clock == [Regions -> 0 .. MaxOps]
NoClock == [m \in Regions |-> 0]
Delta == [sharer : Regions \cup {None}, adds : [Ids -> Entry \cup {None}], removes : [Ids -> 0 .. MaxTs],
          counts : Clock, clocks : [Ids -> Clock], seen : SUBSET Op, known : SUBSET Op]

Larger(x, y) ==
  IF x >= y THEN x ELSE y

CrdtInit ==
  /\ adds = [r \in Regions |-> [id \in Ids |-> None]]
  /\ removes = [r \in Regions |-> [id \in Ids |-> 0]]
  /\ counts = [r \in Regions |-> NoClock]
  /\ clocks = [r \in Regions |-> [id \in Ids |-> NoClock]]
  /\ conflicts = [r \in Regions |-> {}]
  /\ deltas = {} /\ ops = {} /\ flagged = {} /\ restarts = 0 /\ clockLost = FALSE
  /\ seen = [r \in Regions |-> {}]
  /\ known = [r \in Regions |-> {}]

-----------------------------------------------------------------------------
(* Local operations *)

OnId(S, id) == {o \in S : o.id = id}

\* Both local operations count themselves in the region's slot of the id's clock.
Issue(r, id, kind, ts) ==
  LET op == [num |-> Cardinality(ops) + 1, region |-> r, id |-> id, kind |-> kind, ts |-> ts,
             deps |-> {o.num : o \in OnId(known[r], id)}]
  IN /\ ops' = ops \cup {op}
     /\ seen' = [seen EXCEPT ![r] = @ \cup {op}]
     /\ known' = [known EXCEPT ![r] = @ \cup {op}]
     /\ clocks' = [clocks EXCEPT ![r][id][r] = @ + 1]

\* LWWElementSet.add: the newer stamp wins, the later call on equal stamps.
AddWins(entry, old) == old = None \/ entry.ts >= old.ts

\* GCounter.to_dict gives away the counter's own table, which increment changes in place.
Grown(r, d) == IF d.sharer = r THEN [d EXCEPT !.counts[r] = @ + 1] ELSE d

LocalInsert(r, id, ts) ==
  LET entry == [ts |-> ts, val |-> Cardinality(ops) + 1]
  IN /\ Cardinality(ops) + restarts < MaxOps
     /\ Issue(r, id, "insert", ts)
     /\ adds' = IF AddWins(entry, adds[r][id]) THEN [adds EXCEPT ![r][id] = entry] ELSE adds
     /\ counts' = [counts EXCEPT ![r][r] = @ + 1]
     /\ deltas' = {Grown(r, d) : d \in deltas}
     /\ UNCHANGED <<removes, conflicts, flagged, restarts, clockLost>>

LocalDelete(r, id, ts) ==
  /\ Cardinality(ops) + restarts < MaxOps
  /\ Issue(r, id, "delete", ts)
  /\ removes' = [removes EXCEPT ![r][id] = Larger(@, ts)]
  /\ UNCHANGED <<adds, counts, conflicts, deltas, flagged, restarts, clockLost>>

\* get_vector: a removal at the entry's own stamp hides it.
Lookup(add, remove) == IF add # None /\ remove < add.ts THEN add.val ELSE None

-----------------------------------------------------------------------------
(* Synchronisation *)

\* A counter that nobody increments is as good as a copy.
ProduceDelta(r) ==
  /\ Cardinality(deltas) < MaxDeltas
  /\ deltas' = deltas \cup
       {[sharer |-> IF r \in Writers THEN r ELSE None, adds |-> adds[r], removes |-> removes[r],
         counts |-> counts[r], clocks |-> clocks[r], seen |-> seen[r], known |-> known[r]]}
  /\ UNCHANGED <<data, clocks, conflicts, ops, seen, known, flagged, restarts, clockLost>>

Cut(d) == [d EXCEPT !.sharer = None]

\* A delta leaves its process as text.
SerializeDelta(d) ==
  /\ d.sharer # None /\ deltas' = (deltas \ {d}) \cup {Cut(d)}
  /\ UNCHANGED <<data, clocks, conflicts, ops, seen, known, flagged, restarts, clockLost>>

\* Merging, and restarting, give region r a new counter.
CutDeltas(r) == deltas' = {IF d.sharer = r THEN Cut(d) ELSE d : d \in deltas}

\* Buggy variant: the local entry is kept whatever its stamp.
MergeAddLocal(local, remote) == IF local = None THEN remote ELSE local

\* LWWElementSet.merge: on equal stamps the remote entry wins.
MergeAdd(local, remote) ==
  IF remote # None /\ (local = None \/ remote.ts >= local.ts) THEN remote ELSE local

\* Buggy variants: deletions, or the counter, do not travel.
MergeNoRemoves(r, d) ==
  /\ adds' = [adds EXCEPT ![r] = [id \in Ids |-> MergeAdd(@[id], d.adds[id])]]
  /\ counts' = [counts EXCEPT ![r] = [m \in Regions |-> Larger(@[m], d.counts[m])]]
  /\ seen' = [seen EXCEPT ![r] = @ \cup d.seen]
  /\ UNCHANGED removes
MergeNoCounter(r, d) ==
  /\ adds' = [adds EXCEPT ![r] = [id \in Ids |-> MergeAdd(@[id], d.adds[id])]]
  /\ removes' = [removes EXCEPT ![r] = [id \in Ids |-> Larger(@[id], d.removes[id])]]
  /\ seen' = [seen EXCEPT ![r] = @ \cup d.seen]
  /\ UNCHANGED counts

MergeData(r, d) ==
  /\ adds' = [adds EXCEPT ![r] = [id \in Ids |-> MergeAdd(@[id], d.adds[id])]]
  /\ removes' = [removes EXCEPT ![r] = [id \in Ids |-> Larger(@[id], d.removes[id])]]
  /\ counts' = [counts EXCEPT ![r] = [m \in Regions |-> Larger(@[m], d.counts[m])]]
  /\ seen' = [seen EXCEPT ![r] = @ \cup d.seen]

\* Buggy variant: an equal clock counts as an earlier one.
AtOrBefore(a, b) == \A m \in Regions : a[m] <= b[m]

HappensBefore(a, b) ==
  (\A m \in Regions : a[m] <= b[m]) /\ (\E m \in Regions : a[m] < b[m])
Concurrent(a, b) == ~HappensBefore(a, b) /\ ~HappensBefore(b, a)

MergeClocks(r, d) ==
  [id \in Ids |-> [m \in Regions |-> Larger(clocks[r][id][m], d.clocks[id][m])]]

\* Buggy variant: the clocks are merged before they are compared.
ReportedAfterMerge(r, d) ==
  {id \in Ids : d.clocks[id] # NoClock /\ Concurrent(MergeClocks(r, d)[id], d.clocks[id])}

\* The ids of the delta's clocks that merge_delta reports as conflicts: an id without
\* a clock is not in the delta.
Reported(r, d) ==
  {id \in Ids : d.clocks[id] # NoClock /\ Concurrent(clocks[r][id], d.clocks[id])}

\* merge_delta
MergeDelta(r, d) ==
  /\ MergeData(r, d)
  /\ clocks' = [clocks EXCEPT ![r] = MergeClocks(r, d)]
  /\ known' = [known EXCEPT ![r] = @ \cup d.known]
  /\ conflicts' = [conflicts EXCEPT ![r] = @ \cup Reported(r, d)]
  /\ flagged' = flagged \cup
       {{a, b} : a \in {o \in known[r] : o.id \in Reported(r, d)},
                 b \in {o \in d.known : o.id \in Reported(r, d)}}
  /\ CutDeltas(r)
  /\ UNCHANGED <<ops, restarts, clockLost>>

\* merge_remote_state: the data of a remote state, without its clocks.
MergeRemoteState(r, d) ==
  /\ MergeData(r, d)
  /\ CutDeltas(r)
  /\ UNCHANGED <<clocks, conflicts, ops, known, flagged, restarts, clockLost>>

ResolveConflict(r, id) ==
  /\ id \in conflicts[r]
  /\ conflicts' = [conflicts EXCEPT ![r] = @ \ {id}]
  /\ UNCHANGED <<data, clocks, deltas, ops, seen, known, flagged, restarts, clockLost>>

\* A new process: the sets, the counter and the conflicts start empty, the clocks are
\* loaded from the file.  _save truncates the file before it writes it, and a file
\* that does not parse loads as no clocks at all.
Restart(r) ==
  /\ Cardinality(ops) + restarts < MaxOps
  /\ restarts' = restarts + 1
  /\ adds' = [adds EXCEPT ![r] = [id \in Ids |-> None]]
  /\ removes' = [removes EXCEPT ![r] = [id \in Ids |-> 0]]
  /\ counts' = [counts EXCEPT ![r] = NoClock]
  /\ conflicts' = [conflicts EXCEPT ![r] = {}]
  /\ seen' = [seen EXCEPT ![r] = {}]
  /\ \/ UNCHANGED <<clocks, known, clockLost>>
     \/ /\ clocks' = [clocks EXCEPT ![r] = [id \in Ids |-> NoClock]]
        /\ known' = [known EXCEPT ![r] = {}]
        /\ clockLost' = TRUE
  /\ CutDeltas(r)
  /\ UNCHANGED <<ops, flagged>>

CrdtNext ==
  \/ \E r \in Writers, id \in Ids, ts \in 1 .. MaxTs : LocalInsert(r, id, ts) \/ LocalDelete(r, id, ts)
  \/ \E r \in Regions : ProduceDelta(r)
  \/ \E d \in deltas : SerializeDelta(d)
  \/ \E r \in Regions, d \in deltas : MergeDelta(r, d)
  \/ \E r \in Importers, d \in deltas : MergeRemoteState(r, d)
  \/ \E r \in Regions, id \in Ids : ResolveConflict(r, id)
  \/ \E r \in Restarters : Restart(r)

CrdtSpec == CrdtInit /\ [][CrdtNext]_crdtVars

-----------------------------------------------------------------------------
(* Properties *)

CrdtTypeOK ==
  /\ adds \in [Regions -> [Ids -> Entry \cup {None}]]
  /\ removes \in [Regions -> [Ids -> 0 .. MaxTs]]
  /\ counts \in [Regions -> Clock]
  /\ clocks \in [Regions -> [Ids -> Clock]]
  /\ conflicts \in [Regions -> SUBSET Ids]
  /\ ops \subseteq Op
  /\ seen \in [Regions -> SUBSET ops]
  /\ known \in [Regions -> SUBSET ops]
  /\ \A d \in deltas : d \in Delta /\ d.seen \subseteq ops /\ d.known \subseteq ops
  /\ restarts \in 0 .. MaxOps /\ clockLost \in BOOLEAN

\* What the operations of S make of an id: the entry is a newest insert's, the
\* removal stamp the newest delete's.
OfKind(S, id, kind) == {o \in S : o.id = id /\ o.kind = kind}

IsNewestAdd(entry, S, id) ==
  IF entry = None THEN OfKind(S, id, "insert") = {}
  ELSE /\ \E o \in OfKind(S, id, "insert") : o.ts = entry.ts /\ o.num = entry.val
       /\ \A o \in OfKind(S, id, "insert") : o.ts <= entry.ts

IsNewestRemove(ts, S, id) ==
  /\ ts = 0 \/ \E o \in OfKind(S, id, "delete") : o.ts = ts
  /\ \A o \in OfKind(S, id, "delete") : o.ts <= ts

\* A region's set is what last-writer-wins makes of the operations whose data it has
\* seen, whatever deltas brought them, in whatever order and how often.
SetIsLastWriterWins ==
  \A r \in Regions, id \in Ids :
    IsNewestAdd(adds[r][id], seen[r], id) /\ IsNewestRemove(removes[r][id], seen[r], id)

\* Regions that have seen the same operations answer get_vector alike, unless two
\* of them inserted the id with the same stamp.
TiedInserts(S, id) ==
  \E a, b \in OfKind(S, id, "insert") : a # b /\ a.ts = b.ts

Converged ==
  \A r, s \in Regions, id \in Ids :
    seen[r] = seen[s] /\ ~TiedInserts(seen[r], id)
      => Lookup(adds[r][id], removes[r][id]) = Lookup(adds[s][id], removes[s][id])

\* Until a clock file is lost, happens_before compares what two parties know of an
\* id: one clock is below another exactly when it counts fewer of the same operations.
ClocksOrderKnowledge ==
  ~clockLost =>
    \A r \in Regions, d \in deltas, id \in Ids :
      /\ HappensBefore(clocks[r][id], d.clocks[id])
           <=> OnId(known[r], id) \subseteq d.known /\ ~ OnId(d.known, id) \subseteq known[r]
      /\ HappensBefore(d.clocks[id], clocks[r][id])
           <=> OnId(d.known, id) \subseteq known[r] /\ ~ OnId(known[r], id) \subseteq d.known

\* No concurrent write goes undetected: two operations on an id, neither counted
\* in the clock its region had when the other was issued, were reported as a conflict
\* by the first merge that brought them together.
ConcurrentWritesReported ==
  ~clockLost =>
    \A r \in Regions : \A a, b \in known[r] :
      a.id = b.id /\ a # b /\ a.num \notin b.deps /\ b.num \notin a.deps => {a, b} \in flagged

\* Until a restart, a clock claims no operation whose data is missing, and a counter slot
\* has every insert the data shows, none that was not made, and in the region's own slot
\* all of them: a delta carries data, counter and clocks together, the counter as it is
\* when the delta is sent.
Inserts(S, m) == {o \in S : o.region = m /\ o.kind = "insert"}

ClaimsAreHeld ==
  restarts = 0 =>
    \A r \in Regions :
      /\ known[r] \subseteq seen[r]
      /\ \A m \in Regions :
           /\ Cardinality(Inserts(seen[r], m)) <= counts[r][m]
           /\ counts[r][m] <= Cardinality(Inserts(ops, m))
      /\ counts[r][r] = Cardinality(Inserts(ops, r))
=============================================================================
