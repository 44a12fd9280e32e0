-------------------------- MODULE MmapVectorStore --------------------------
(***************************************************************************)
(* The memory-mapped vector store of utils/mmap_store.py: a float32 matrix *)
(* on disk (vectors.dat, here mm), the in-memory map from vector ids to    *)
(* rows with its free list, and meta.json (here meta), the copy of that    *)
(* map which a restart reads.  Writers hold the store's RLock for a whole  *)
(* call; get() takes no lock.  A crash may fall between any two steps: the *)
(* rows written through the mapping survive it, the map in memory does not.*)
(* float32 rows are abstracted to members of Vals and the free list, whose *)
(* order nothing depends on, to a set.                                     *)
(***************************************************************************)
EXTENDS Integers, FiniteSets

CONSTANTS
  Ids,              \* vector ids
  Vals,             \* vectors a caller may store
  Zero,             \* the all-zero row of a fresh file or of a deleted vector
  Absent,           \* the caller was told: no such vector
  NoClaim,          \* the caller was told nothing
  None,             \* no item, no read in progress
  Readers,          \* threads calling get()
  InitialCapacity,  \* capacity argument of the constructor
  GrowthFactor      \* growth_factor argument

ASSUME StoreAssumption ==
  /\ InitialCapacity \in Nat \ {0}
  /\ GrowthFactor \in Nat \ {0, 1}
  /\ IsFiniteSet(Ids)
  /\ Zero \notin Vals
  /\ Absent \notin Vals
  /\ NoClaim \notin Vals
  /\ Absent # NoClaim
  /\ None \notin Ids \X Vals
  /\ None \notin Ids \X Nat

VARIABLES
  idToRow,   \* id_to_row: a function from the stored ids to rows
  freeRows,  \* free_rows
  count,     \* count
  capacity,  \* capacity
  leaked,    \* history: add_batch once took a row off the free list
  mm,        \* the matrix, one value per row
  handle,    \* "open", "swapped" while _grow has closed _mm, "closed" after close()
  lock,      \* the call that holds _lock: "none", "add", "batch", or "save" when it has only _save_meta left
  item,      \* the <<id, vector>> an add or add_batch is placing
  meta,      \* meta.json
  reading,   \* the <<id, row>> each get() has looked up
  content,   \* history: what the last acknowledged call said of each id
  pend       \* history: what the call in progress will say of each id

memory == <<idToRow, freeRows, count, capacity>>
vars == <<memory, leaked, mm, handle, lock, item, meta, reading, content, pend>>

Memory == [idToRow |-> idToRow, freeRows |-> freeRows, count |-> count,
           capacity |-> capacity]
Rows == 0 .. capacity - 1
Stored == DOMAIN idToRow
NoClaims == [id \in Ids |-> NoClaim]
MaxOf(a, b) == IF a >= b THEN a ELSE b

(***************************************************************************)
(* Placing one item.                                                       *)
(***************************************************************************)
NeedsGrow == /\ item[1] \notin Stored
             /\ freeRows = {}
             /\ count >= capacity

NewCapacity == MaxOf(capacity * GrowthFactor, count + 1)

Register(id, row) ==
  /\ idToRow' = [i \in Stored \cup {id} |-> IF i = id THEN row ELSE idToRow[i]]
  /\ count' = count + 1

Overwrite(id, v) ==
  /\ id \in Stored
  /\ mm' = [mm EXCEPT ![idToRow[id]] = v]
  /\ UNCHANGED <<memory, leaked>>

TakeFresh(id, v) ==
  /\ id \notin Stored
  /\ freeRows = {}
  /\ mm' = [mm EXCEPT ![count] = v]
  /\ Register(id, count)
  /\ UNCHANGED <<freeRows, capacity, leaked>>

AddReuseUnchecked(id, v) ==
  /\ \E row \in freeRows :
       /\ freeRows' = freeRows \ {row}
       /\ mm' = [mm EXCEPT ![row] = v]
       /\ Register(id, row)
  /\ UNCHANGED <<capacity, leaked>>

\* add() maps the id to the row it took off the free list.
AddReuse(id, v) ==
  /\ id \notin Stored
  /\ \E row \in freeRows :
       /\ freeRows' = freeRows \ {row}
       /\ mm' = [mm EXCEPT ![row] = v]
       /\ Register(id, row)
  /\ UNCHANGED <<capacity, leaked>>

\* add_batch() pops the row and writes it, but neither maps the id nor counts it.
BatchReuse(id, v) ==
  /\ id \notin Stored
  /\ \E row \in freeRows :
       /\ freeRows' = freeRows \ {row}
       /\ mm' = [mm EXCEPT ![row] = v]
  /\ leaked' = TRUE
  /\ UNCHANGED <<idToRow, count, capacity>>

(***************************************************************************)
(* Writers.  Each call acquires the lock, works, saves and returns.        *)
(***************************************************************************)
Init ==
  /\ idToRow = [i \in {} |-> 0]
  /\ freeRows = {}
  /\ count = 0
  /\ capacity = InitialCapacity
  /\ leaked = FALSE
  /\ mm = [r \in 0 .. InitialCapacity - 1 |-> Zero]
  /\ handle = "open"
  /\ lock = "none"
  /\ item = None
  /\ meta = Memory
  /\ reading = [r \in Readers |-> None]
  /\ content = [id \in Ids |-> Absent]
  /\ pend = NoClaims

Idle == handle = "open" /\ lock = "none"

Forget(id) == content' = [content EXCEPT ![id] = NoClaim]

AddCall(id, v) ==
  /\ Idle
  /\ lock' = "add"
  /\ item' = <<id, v>>
  /\ Forget(id)
  /\ UNCHANGED <<memory, leaked, mm, handle, meta, reading, pend>>

BatchCall ==
  /\ Idle
  /\ lock' = "batch"
  /\ UNCHANGED <<memory, leaked, mm, handle, item, meta, reading, content, pend>>

BatchItem(id, v) ==
  /\ lock = "batch"
  /\ item = None
  /\ item' = <<id, v>>
  /\ Forget(id)
  /\ UNCHANGED <<memory, leaked, mm, handle, lock, meta, reading, pend>>

\* _grow copies the matrix to a larger file and closes the old mapping ...
GrowStart ==
  /\ handle = "open"
  /\ item # None
  /\ NeedsGrow
  /\ handle' = "swapped"
  /\ UNCHANGED <<memory, leaked, mm, lock, item, meta, reading, content, pend>>

GrowEndWithoutCopy ==
  /\ handle = "swapped"
  /\ handle' = "open"
  /\ capacity' = NewCapacity
  /\ mm' = [r \in 0 .. NewCapacity - 1 |-> Zero]
  /\ UNCHANGED <<idToRow, freeRows, count, leaked, lock, item, meta, reading, content, pend>>

\* ... then moves the new file into place and maps it.
GrowEnd ==
  /\ handle = "swapped"
  /\ handle' = "open"
  /\ capacity' = NewCapacity
  /\ mm' = [r \in 0 .. NewCapacity - 1 |-> IF r \in Rows THEN mm[r] ELSE Zero]
  /\ UNCHANGED <<idToRow, freeRows, count, leaked, lock, item, meta, reading, content, pend>>

Place ==
  /\ handle = "open"
  /\ item # None
  /\ ~NeedsGrow
  /\ \/ /\ lock = "add"
        /\ \/ Overwrite(item[1], item[2])
           \/ AddReuse(item[1], item[2])
           \/ TakeFresh(item[1], item[2])
        /\ lock' = "save"
     \/ /\ lock = "batch"
        /\ \/ Overwrite(item[1], item[2])
           \/ BatchReuse(item[1], item[2])
           \/ TakeFresh(item[1], item[2])
        /\ lock' = "batch"
  /\ pend' = [pend EXCEPT ![item[1]] = item[2]]
  /\ item' = None
  /\ UNCHANGED <<handle, meta, reading, content>>

BatchEnd ==
  /\ lock = "batch"
  /\ item = None
  /\ lock' = "save"
  /\ UNCHANGED <<memory, leaked, mm, handle, item, meta, reading, content, pend>>

\* An item of the wrong dimension raises ValueError: no _save_meta, no undo.
BatchRaise ==
  /\ lock = "batch"
  /\ item = None
  /\ lock' = "none"
  /\ pend' = NoClaims
  /\ UNCHANGED <<memory, leaked, mm, handle, item, meta, reading, content>>

DeleteForgetsRow(id) ==
  /\ Idle
  /\ id \in Stored
  /\ idToRow' = [i \in Stored \ {id} |-> idToRow[i]]
  /\ mm' = [mm EXCEPT ![idToRow[id]] = Zero]
  /\ count' = count - 1
  /\ lock' = "save"
  /\ pend' = [pend EXCEPT ![id] = Absent]
  /\ Forget(id)
  /\ UNCHANGED <<freeRows, capacity, leaked, handle, item, meta, reading>>

Delete(id) ==
  /\ Idle
  /\ id \in Stored
  /\ idToRow' = [i \in Stored \ {id} |-> idToRow[i]]
  /\ mm' = [mm EXCEPT ![idToRow[id]] = Zero]
  /\ freeRows' = freeRows \cup {idToRow[id]}
  /\ count' = count - 1
  /\ lock' = "save"
  /\ pend' = [pend EXCEPT ![id] = Absent]
  /\ Forget(id)
  /\ UNCHANGED <<capacity, leaked, handle, item, meta, reading>>

\* _save_meta: write a temporary file, fsync, os.replace; the call then returns.
SaveMeta ==
  /\ lock = "save"
  /\ meta' = Memory
  /\ lock' = "none"
  /\ content' = [id \in Ids |-> IF pend[id] # NoClaim THEN pend[id] ELSE content[id]]
  /\ pend' = NoClaims
  /\ UNCHANGED <<memory, leaked, mm, handle, item, reading>>

\* An OSError in _save_meta reaches the caller; memory keeps the change.
SaveFails ==
  /\ lock = "save"
  /\ lock' = "none"
  /\ pend' = NoClaims
  /\ UNCHANGED <<memory, leaked, mm, handle, item, meta, reading, content>>

Flush ==
  /\ Idle
  /\ meta' = Memory
  /\ UNCHANGED <<memory, leaked, mm, handle, lock, item, reading, content, pend>>

Close ==
  /\ Idle
  /\ meta' = Memory
  /\ handle' = "closed"
  /\ UNCHANGED <<memory, leaked, mm, lock, item, reading, content, pend>>

(***************************************************************************)
(* The process ends at any moment and a new one opens the directory.       *)
(***************************************************************************)
Restart ==
  /\ idToRow' = meta.idToRow
  /\ freeRows' = meta.freeRows
  /\ count' = meta.count
  /\ capacity' = meta.capacity
  /\ mm' = [r \in 0 .. meta.capacity - 1 |-> mm[r]]
  /\ handle' = "open"
  /\ lock' = "none"
  /\ item' = None
  /\ pend' = NoClaims
  /\ reading' = [r \in Readers |-> None]
  /\ UNCHANGED <<leaked, meta, content>>

(***************************************************************************)
(* get() without the lock: the row is looked up, then fetched.             *)
(***************************************************************************)
GetLookup(r, id) ==
  /\ reading[r] = None
  /\ id \in Stored
  /\ reading' = [reading EXCEPT ![r] = <<id, idToRow[id]>>]
  /\ UNCHANGED <<memory, leaked, mm, handle, lock, item, meta, content, pend>>

GetFetch(r) ==
  /\ reading[r] # None
  /\ reading' = [reading EXCEPT ![r] = None]
  /\ UNCHANGED <<memory, leaked, mm, handle, lock, item, meta, content, pend>>

Next ==
  \/ \E id \in Ids, v \in Vals : AddCall(id, v)
  \/ BatchCall
  \/ \E id \in Ids, v \in Vals : BatchItem(id, v)
  \/ GrowStart
  \/ GrowEnd
  \/ Place
  \/ BatchEnd
  \/ BatchRaise
  \/ \E id \in Ids : Delete(id)
  \/ SaveMeta
  \/ SaveFails
  \/ Flush
  \/ Close
  \/ Restart
  \/ \E r \in Readers, id \in Ids : GetLookup(r, id)
  \/ \E r \in Readers : GetFetch(r)

Spec == Init /\ [][Next]_vars

-----------------------------------------------------------------------------
(***************************************************************************)
(* Properties.                                                             *)
(***************************************************************************)
\* m is a map the store may hold in memory or on disk.
MapOK(m) ==
  /\ DOMAIN m.idToRow \in SUBSET Ids
  /\ m.capacity \in Nat \ {0}
  /\ m.count \in Nat
  /\ m.freeRows \in SUBSET (0 .. m.capacity - 1)
  /\ m.idToRow \in [DOMAIN m.idToRow -> 0 .. m.capacity - 1]

\* Every variable has its type, and every row of both maps lies in the file.
TypeOK ==
  /\ MapOK(Memory)
  /\ DOMAIN meta = {"idToRow", "freeRows", "count", "capacity"}
  /\ MapOK(meta)
  /\ meta.capacity <= capacity
  /\ leaked \in BOOLEAN
  /\ mm \in [Rows -> Vals \cup {Zero}]
  /\ handle \in {"open", "swapped", "closed"}
  /\ lock \in {"none", "add", "batch", "save"}
  /\ item \in (Ids \X Vals) \cup {None}
  /\ reading \in [Readers -> (Ids \X Rows) \cup {None}]
  /\ content \in [Ids -> Vals \cup {Absent, NoClaim}]
  /\ pend \in [Ids -> Vals \cup {Absent, NoClaim}]

\* Row allocation: no two ids share a row and no free row is in use, as long as
\* add_batch() has not dropped a reclaimed row.  (Allocating row number `count`
\* is right only while the rows in use and the free rows are exactly
\* 0 .. count + len(free_rows) - 1, which every call has to keep true.)
RowsInjective(m) ==
  /\ \A i, j \in DOMAIN m.idToRow : m.idToRow[i] = m.idToRow[j] => i = j
  /\ \A i \in DOMAIN m.idToRow : m.idToRow[i] \notin m.freeRows

RowsNotShared == ~leaked => RowsInjective(Memory) /\ RowsInjective(meta)

\* What a caller was told holds in memory, and after a crash at any point: an
\* acknowledged vector is mapped, to the same row in memory and in meta.json,
\* and that row still holds the vector; an id reported deleted is in neither.
Holds(m, id) ==
  /\ content[id] \in Vals => /\ id \in DOMAIN m.idToRow
                             /\ mm[m.idToRow[id]] = content[id]
  /\ content[id] = Absent => id \notin DOMAIN m.idToRow

AcknowledgedDurable == ~leaked => \A id \in Ids : Holds(Memory, id) /\ Holds(meta, id)

\* While the process lives, a stored id keeps its row: growing the file,
\* overwriting a vector and reusing a freed row move nobody, so a get() that has
\* looked its row up reads the right one unless its own id was deleted meanwhile.
StoredIdsKeepTheirRow ==
  [][\/ Restart
     \/ \A id \in Stored \cap Stored' : idToRow'[id] = idToRow[id]]_vars

\* The same promise without the proviso: add_batch()'s docstring is "Bulk insert
\* ... Returns rows written", so an acknowledged item should be retrievable.
BatchItemsStored == \A id \in Ids : content[id] \in Vals => id \in Stored
=============================================================================
