----------------------- MODULE MmapVectorStore_proofs -----------------------
(***************************************************************************)
(* Proofs about MmapVectorStore for every set of ids and vectors, every    *)
(* initial capacity and growth factor: type correctness and, from it and   *)
(* the tightness of the row allocation, that rows are never shared.        *)
(***************************************************************************)
EXTENDS MmapVectorStore, FiniteSetTheorems, TLAPS

(***************************************************************************)
(* The inductive invariants.                                               *)
(***************************************************************************)
\* count is the number of mapped ids, in memory and on disk.
Counted(m) == m.count = Cardinality(DOMAIN m.idToRow)

CountInv == Counted(Memory) /\ Counted(meta)

TypeInv == TypeOK /\ CountInv

\* The rows in use and the free rows are disjoint and together 0 .. k - 1, so the
\* row numbered `count` is unused whenever the free list is empty.
TightMap(rowOf, free, n) ==
  /\ \A i, j \in DOMAIN rowOf : rowOf[i] = rowOf[j] => i = j
  /\ \A i \in DOMAIN rowOf : rowOf[i] \notin free
  /\ {rowOf[i] : i \in DOMAIN rowOf} \cup free = 0 .. n + Cardinality(free) - 1

Tight(m) == TightMap(m.idToRow, m.freeRows, m.count)

TightInv == ~leaked => Tight(Memory) /\ Tight(meta)

\* The call in progress has not yet been answered for any id it works on.
PendingInv ==
  /\ lock = "none" => pend = NoClaims
  /\ item # None => content[item[1]] = NoClaim
  /\ item # None => lock \in {"add", "batch"}
  /\ \A id \in Ids : pend[id] # NoClaim => content[id] = NoClaim

\* An id the caller knows of has the same row in memory and on disk, and memory
\* already shows what the call in progress has done.
Kept(id) ==
  /\ Holds(Memory, id)
  /\ Holds(meta, id)
  /\ content[id] \in Vals => idToRow[id] = meta.idToRow[id]
  /\ pend[id] \in Vals => id \in Stored /\ mm[idToRow[id]] = pend[id]
  /\ pend[id] = Absent => id \notin Stored

ClaimInv == PendingInv /\ (~leaked => \A id \in Ids : Kept(id))

-----------------------------------------------------------------------------
(***************************************************************************)
(* Facts about the data.                                                   *)
(***************************************************************************)
LEMMA IdsFinite == \A S \in SUBSET Ids : IsFiniteSet(S) /\ Cardinality(S) \in Nat
  BY FS_Subset, FS_CardinalityType, StoreAssumption

\* Mapping a new id adds one to the number of ids; unmapping one takes it away.
LEMMA CountUp ==
  ASSUME NEW S \in SUBSET Ids, NEW id \in Ids \ S
  PROVE  Cardinality(S \cup {id}) = Cardinality(S) + 1
  BY IdsFinite, FS_AddElement

LEMMA CountDown ==
  ASSUME NEW S \in SUBSET Ids, NEW id \in S
  PROVE  /\ Cardinality(S \ {id}) = Cardinality(S) - 1
         /\ Cardinality(S) >= 1
<1>1. IsFiniteSet(S) /\ Cardinality(S) \in Nat
  BY IdsFinite
<1>2. Cardinality(S) # 0
  BY <1>1, FS_EmptySet
<1>3. Cardinality(S \ {id}) = Cardinality(S) - 1
  BY <1>1, FS_RemoveElement
<1> QED
  BY <1>1, <1>2, <1>3

\* The file never shrinks when it grows.
LEMMA GrowsEnough ==
  ASSUME capacity \in Nat \ {0}, count \in Nat
  PROVE  NewCapacity \in Nat /\ NewCapacity >= capacity
<1>1. \A c \in Nat, g \in Nat \ {0} : c * g \in Nat /\ c * g >= c
  OBVIOUS
<1>2. capacity * GrowthFactor \in Nat /\ capacity * GrowthFactor >= capacity
  BY <1>1, StoreAssumption
<1> QED
  BY <1>2 DEF NewCapacity, MaxOf

-----------------------------------------------------------------------------
(***************************************************************************)
(* Type correctness.                                                       *)
(***************************************************************************)
LEMMA TypeInit == Init => TypeInv
<1> SUFFICES ASSUME Init PROVE TypeInv
  OBVIOUS
<1>1. MapOK(Memory) /\ Counted(Memory)
  <2>1. DOMAIN idToRow = {}
    BY DEF Init
  <2> QED
    BY <2>1, FS_EmptySet, StoreAssumption DEF Init, MapOK, Memory, Counted
<1>2. MapOK(meta) /\ Counted(meta) /\ DOMAIN meta = {"idToRow", "freeRows", "count", "capacity"}
  BY <1>1 DEF Init, Memory
<1>3. meta.capacity <= capacity
  BY StoreAssumption DEF Init, Memory
<1>4. /\ mm \in [Rows -> Vals \cup {Zero}]
      /\ reading \in [Readers -> (Ids \X Rows) \cup {None}]
      /\ content \in [Ids -> Vals \cup {Absent, NoClaim}]
      /\ pend \in [Ids -> Vals \cup {Absent, NoClaim}]
  BY DEF Init, Rows, NoClaims
<1>5. /\ leaked \in BOOLEAN
      /\ handle \in {"open", "swapped", "closed"}
      /\ lock \in {"none", "add", "batch", "save"}
      /\ item \in (Ids \X Vals) \cup {None}
  BY DEF Init
<1> QED
  BY <1>1, <1>2, <1>3, <1>4, <1>5 DEF TypeInv, TypeOK, CountInv

\* What placing an item leaves of the typing, whichever call places it.
LEMMA PlaceTypes ==
  ASSUME TypeInv, NEW id \in Ids, NEW v \in Vals,
         \/ Overwrite(id, v)
         \/ AddReuse(id, v)
         \/ BatchReuse(id, v)
         \/ TakeFresh(id, v) /\ count < capacity
  PROVE  /\ MapOK(Memory)' /\ Counted(Memory)'
         /\ capacity' = capacity
         /\ leaked' \in BOOLEAN
         /\ mm' \in [Rows -> Vals \cup {Zero}]
<1> USE DEF TypeInv, TypeOK, CountInv, MapOK, Counted, Memory, Rows, Stored
<1>1. CASE Overwrite(id, v)
  BY <1>1 DEF Overwrite, memory
<1>2. CASE BatchReuse(id, v)
  BY <1>2 DEF BatchReuse
<1>3. ASSUME NEW row \in Rows, id \notin Stored, Register(id, row),
             capacity' = capacity, freeRows' \in SUBSET freeRows,
             leaked' = leaked, mm' = [mm EXCEPT ![row] = v]
      PROVE  /\ MapOK(Memory)' /\ Counted(Memory)'
             /\ leaked' \in BOOLEAN
             /\ mm' \in [Rows -> Vals \cup {Zero}]
  <2>1. DOMAIN idToRow' = Stored \cup {id}
    BY <1>3 DEF Register
  <2>2. idToRow' \in [Stored \cup {id} -> Rows]
    BY <1>3 DEF Register
  <2>3. count' = Cardinality(Stored \cup {id})
    BY <1>3, CountUp DEF Register
  <2>4. MapOK(Memory)'
    BY <1>3, <2>1, <2>2 DEF Register
  <2> QED
    BY <1>3, <2>1, <2>3, <2>4
<1>4. CASE AddReuse(id, v)
  <2>1. PICK row \in freeRows : /\ freeRows' = freeRows \ {row}
                                /\ mm' = [mm EXCEPT ![row] = v]
                                /\ Register(id, row)
    BY <1>4 DEF AddReuse
  <2>2. row \in Rows /\ capacity' = capacity /\ leaked' = leaked /\ id \notin Stored
    BY <1>4, <2>1 DEF AddReuse
  <2> HIDE DEF TypeInv, TypeOK, CountInv, MapOK, Counted, Memory, Rows, Stored
  <2> QED
    BY <1>3, <2>1, <2>2
<1>5. CASE TakeFresh(id, v) /\ count < capacity
  <2>1. count \in Rows
    BY <1>5
  <2>2. /\ id \notin Stored /\ Register(id, count) /\ capacity' = capacity
        /\ freeRows' = freeRows /\ leaked' = leaked /\ mm' = [mm EXCEPT ![count] = v]
    BY <1>5 DEF TakeFresh
  <2> HIDE DEF TypeInv, TypeOK, CountInv, MapOK, Counted, Memory, Rows, Stored
  <2> QED
    BY <1>3, <2>1, <2>2
<1> QED
  BY <1>1, <1>2, <1>4, <1>5

LEMMA TypeStep == TypeInv /\ [Next]_vars => TypeInv'
<1> SUFFICES ASSUME TypeInv, [Next]_vars PROVE TypeInv'
  OBVIOUS
<1> USE DEF TypeInv, TypeOK, CountInv
\* A step that leaves both maps and the matrix alone.
<1>a. ASSUME UNCHANGED <<memory, leaked, mm, meta>>,
             handle' \in {"open", "swapped", "closed"},
             lock' \in {"none", "add", "batch", "save"},
             item' \in (Ids \X Vals) \cup {None},
             reading' \in [Readers -> (Ids \X Rows) \cup {None}],
             content' \in [Ids -> Vals \cup {Absent, NoClaim}],
             pend' \in [Ids -> Vals \cup {Absent, NoClaim}]
      PROVE  TypeInv'
  BY <1>a DEF MapOK, Memory, memory, Counted, Rows
<1>b. NoClaims \in [Ids -> Vals \cup {Absent, NoClaim}]
  BY DEF NoClaims
<1>c. MapOK(Memory) /\ Counted(Memory) /\ capacity \in Nat \ {0} /\ count \in Nat
  BY DEF MapOK, Memory
<1>1. ASSUME NEW id \in Ids, NEW v \in Vals, AddCall(id, v) \/ BatchItem(id, v)
      PROVE  TypeInv'
  BY <1>a, <1>1 DEF AddCall, BatchItem, Idle, Forget, memory
<1>2. CASE BatchCall \/ GrowStart \/ BatchEnd
  BY <1>a, <1>2 DEF BatchCall, GrowStart, BatchEnd, Idle, memory
<1>3. CASE BatchRaise \/ SaveFails
  BY <1>a, <1>b, <1>3 DEF BatchRaise, SaveFails, memory
<1>4. CASE GrowEnd
  <2>1. NewCapacity \in Nat \ {0} /\ NewCapacity >= capacity
    BY <1>c, GrowsEnough
  <2>2. Rows \subseteq 0 .. NewCapacity - 1 /\ Rows' = 0 .. NewCapacity - 1
    BY <1>c, <1>4, <2>1 DEF Rows, GrowEnd
  <2>3. MapOK(Memory)' /\ Counted(Memory)' /\ meta.capacity <= capacity'
    BY <1>4, <2>1, <2>2, <1>c DEF GrowEnd, MapOK, Memory, Counted, Rows
  <2>4. mm' \in [Rows' -> Vals \cup {Zero}]
    BY <1>4, <2>2 DEF GrowEnd
  <2>5. reading' \in [Readers -> (Ids \X Rows') \cup {None}]
    BY <1>4, <2>2 DEF GrowEnd
  <2> QED
    BY <1>4, <2>3, <2>4, <2>5 DEF GrowEnd
<1>5. CASE Place
  <2>1. item[1] \in Ids /\ item[2] \in Vals
    BY <1>5 DEF Place
  <2>2. \/ Overwrite(item[1], item[2])
        \/ AddReuse(item[1], item[2])
        \/ BatchReuse(item[1], item[2])
        \/ TakeFresh(item[1], item[2]) /\ count < capacity
    BY <1>5, <1>c DEF Place, NeedsGrow, TakeFresh
  <2>3. /\ MapOK(Memory)' /\ Counted(Memory)' /\ capacity' = capacity
        /\ leaked' \in BOOLEAN /\ mm' \in [Rows -> Vals \cup {Zero}]
    BY <2>1, <2>2, PlaceTypes
  <2>4. Rows' = Rows
    BY <2>3 DEF Rows
  <2> QED
    BY <1>5, <2>1, <2>3, <2>4 DEF Place
<1>6. ASSUME NEW id \in Ids, Delete(id) PROVE TypeInv'
  <2>1. /\ id \in Stored /\ Stored \in SUBSET Ids /\ idToRow[id] \in Rows
        /\ Stored' = Stored \ {id} /\ idToRow' \in [Stored \ {id} -> Rows]
        /\ freeRows' \in SUBSET Rows /\ capacity' = capacity
    BY <1>6, <1>c DEF Delete, Stored, MapOK, Memory, Rows
  <2>2. count' = Cardinality(Stored') /\ count' \in Nat
    BY <1>6, <1>c, <2>1, CountDown, SMTT(30) DEF Delete, Counted, Memory, Stored
  <2>3. MapOK(Memory)' /\ Counted(Memory)'
    BY <1>c, <2>1, <2>2 DEF MapOK, Memory, Counted, Stored, Rows
  <2>4. mm' \in [Rows -> Vals \cup {Zero}] /\ Rows' = Rows
    BY <1>6, <2>1 DEF Delete, Rows
  <2> QED
    BY <1>6, <2>1, <2>3, <2>4 DEF Delete, Forget
<1>7. CASE SaveMeta
  <2>1. content' \in [Ids -> Vals \cup {Absent, NoClaim}]
    BY <1>7 DEF SaveMeta
  <2>2. UNCHANGED Memory /\ Rows' = Rows /\ meta' = Memory
    BY <1>7 DEF SaveMeta, memory, Memory, Rows
  <2>3. MapOK(Memory)' /\ Counted(Memory)' /\ MapOK(meta)' /\ Counted(meta)'
    BY <1>c, <2>2 DEF MapOK, Counted
  <2>4. meta'.capacity <= capacity'
        /\ DOMAIN meta' = {"idToRow", "freeRows", "count", "capacity"}
    BY <1>c, <2>2 DEF Memory
  <2> QED
    BY <1>7, <1>b, <2>1, <2>2, <2>3, <2>4 DEF SaveMeta
<1>8. CASE Flush \/ Close
  <2>2. UNCHANGED Memory /\ Rows' = Rows /\ meta' = Memory
    BY <1>8 DEF Flush, Close, memory, Memory, Rows
  <2>3. MapOK(Memory)' /\ Counted(Memory)' /\ MapOK(meta)' /\ Counted(meta)'
    BY <1>c, <2>2 DEF MapOK, Counted
  <2>4. meta'.capacity <= capacity'
        /\ DOMAIN meta' = {"idToRow", "freeRows", "count", "capacity"}
    BY <1>c, <2>2 DEF Memory
  <2> QED
    BY <1>8, <2>2, <2>3, <2>4 DEF Flush, Close
<1>9. CASE Restart
  <2>1. MapOK(Memory)' /\ Counted(Memory)' /\ MapOK(meta)' /\ Counted(meta)'
    BY <1>9 DEF Restart, MapOK, Memory, Counted
  <2>2. mm' \in [Rows' -> Vals \cup {Zero}]
    <3>1. Rows' = 0 .. meta.capacity - 1 /\ Rows' \subseteq Rows
      BY <1>9, <1>c DEF Restart, Rows, MapOK
    <3> QED
      BY <1>9, <3>1 DEF Restart
  <2> QED
    BY <1>9, <1>b, <2>1, <2>2, <1>c DEF Restart, MapOK
<1>10. ASSUME NEW r \in Readers, NEW id \in Ids, GetLookup(r, id) PROVE TypeInv'
  <2>1. <<id, idToRow[id]>> \in Ids \X Rows
    BY <1>10, <1>c DEF GetLookup, MapOK, Memory, Stored, Rows
  <2> QED
    BY <1>a, <1>10, <2>1 DEF GetLookup
<1>11. ASSUME NEW r \in Readers, GetFetch(r) PROVE TypeInv'
  BY <1>a, <1>11 DEF GetFetch
<1>12. CASE UNCHANGED vars
  BY <1>a, <1>12 DEF vars
<1> QED
  BY <1>1, <1>2, <1>3, <1>4, <1>5, <1>6, <1>7, <1>8, <1>9, <1>10, <1>11, <1>12 DEF Next

\* Every variable keeps its type and every mapped or free row, in memory and on
\* disk, lies inside the file, whatever crashes and whichever calls fail.
THEOREM TypeCorrect == Spec => []TypeOK
<1>1. TypeInv => TypeOK
  BY DEF TypeInv
<1> QED
  BY TypeInit, TypeStep, <1>1, PTL DEF Spec

-----------------------------------------------------------------------------
(***************************************************************************)
(* The row allocation stays tight.                                         *)
(***************************************************************************)
\* An empty free list: the next fresh row is number n.
LEMMA FreshTight ==
  ASSUME NEW f, NEW n \in Nat, NEW id, id \notin DOMAIN f, TightMap(f, {}, n),
         NEW g, g = [i \in DOMAIN f \cup {id} |-> IF i = id THEN n ELSE f[i]]
  PROVE  TightMap(g, {}, n + 1) /\ \A i \in DOMAIN f : f[i] # n
<1>1. {f[i] : i \in DOMAIN f} = 0 .. n - 1
  BY FS_EmptySet DEF TightMap
<1>2. DOMAIN g = DOMAIN f \cup {id} /\ g[id] = n /\ \A i \in DOMAIN f : g[i] = f[i]
  OBVIOUS
<1>3. \A i \in DOMAIN f : f[i] \in 0 .. n - 1 /\ f[i] # n
  BY <1>1
<1>4. {g[i] : i \in DOMAIN g} = {f[i] : i \in DOMAIN f} \cup {n}
  BY <1>2
<1>5. {g[i] : i \in DOMAIN g} = 0 .. n
  BY <1>1, <1>4
<1>6. \A i, j \in DOMAIN g : g[i] = g[j] => i = j
  BY <1>2, <1>3 DEF TightMap
<1>7. n + 1 + Cardinality({}) - 1 = n
  BY FS_EmptySet
<1>8. {g[i] : i \in DOMAIN g} \cup {} = 0 .. n + 1 + Cardinality({}) - 1
  BY <1>5, <1>7
<1> QED
  BY <1>3, <1>6, <1>8 DEF TightMap

\* A row taken off the free list and mapped.
LEMMA ReuseTight ==
  ASSUME NEW f, NEW F, IsFiniteSet(F), NEW n \in Nat, NEW id, id \notin DOMAIN f,
         TightMap(f, F, n), NEW row \in F,
         NEW g, g = [i \in DOMAIN f \cup {id} |-> IF i = id THEN row ELSE f[i]]
  PROVE  TightMap(g, F \ {row}, n + 1)
<1>1. Cardinality(F) \in Nat /\ Cardinality(F \ {row}) = Cardinality(F) - 1
  BY FS_CardinalityType, FS_RemoveElement
<1>2. DOMAIN g = DOMAIN f \cup {id} /\ g[id] = row /\ \A i \in DOMAIN f : g[i] = f[i]
  OBVIOUS
<1>3. {g[i] : i \in DOMAIN g} \cup (F \ {row}) = {f[i] : i \in DOMAIN f} \cup F
  BY <1>2
<1>4. n + 1 + Cardinality(F \ {row}) - 1 = n + Cardinality(F) - 1
  BY <1>1
<1>5. \A i, j \in DOMAIN g : g[i] = g[j] => i = j
  BY <1>2 DEF TightMap
<1>6. \A i \in DOMAIN g : g[i] \notin F \ {row}
  BY <1>2 DEF TightMap
<1> QED
  BY <1>3, <1>4, <1>5, <1>6 DEF TightMap

\* A row unmapped and put on the free list.
LEMMA FreeTight ==
  ASSUME NEW f, NEW F, IsFiniteSet(F), NEW n \in Nat, NEW id \in DOMAIN f,
         TightMap(f, F, n), NEW g, g = [i \in DOMAIN f \ {id} |-> f[i]]
  PROVE  TightMap(g, F \cup {f[id]}, n - 1)
<1>1. Cardinality(F) \in Nat /\ Cardinality(F \cup {f[id]}) = Cardinality(F) + 1
  BY FS_CardinalityType, FS_AddElement DEF TightMap
<1>2. DOMAIN g = DOMAIN f \ {id} /\ \A i \in DOMAIN g : g[i] = f[i]
  OBVIOUS
<1>3. {g[i] : i \in DOMAIN g} \cup (F \cup {f[id]}) = {f[i] : i \in DOMAIN f} \cup F
  BY <1>2
<1>4. n - 1 + Cardinality(F \cup {f[id]}) - 1 = n + Cardinality(F) - 1
  BY <1>1
<1>5. \A i, j \in DOMAIN g : g[i] = g[j] => i = j
  BY <1>2 DEF TightMap
<1>6. \A i \in DOMAIN g : g[i] \notin F \cup {f[id]}
  BY <1>2 DEF TightMap
<1> QED
  BY <1>3, <1>4, <1>5, <1>6 DEF TightMap

LEMMA FreeRowsFinite ==
  ASSUME TypeInv
  PROVE  /\ IsFiniteSet(freeRows)
         /\ count \in Nat /\ capacity \in Nat /\ Stored \in SUBSET Ids
         /\ idToRow \in [Stored -> Rows]
<1>1. /\ freeRows \in SUBSET Rows
      /\ count \in Nat /\ capacity \in Nat /\ Stored \in SUBSET Ids
      /\ idToRow \in [Stored -> Rows]
  BY DEF TypeInv, TypeOK, MapOK, Memory, Rows, Stored
<1>2. IsFiniteSet(Rows)
  BY <1>1, FS_Interval DEF Rows
<1> QED
  BY <1>1, <1>2, FS_Subset

LEMMA TightInit == Init => TightInv
<1> SUFFICES ASSUME Init PROVE TightInv
  OBVIOUS
<1>1. idToRow = [i \in {} |-> 0] /\ freeRows = {} /\ count = 0 /\ meta = Memory
  BY DEF Init
<1>2. TightMap(idToRow, freeRows, count)
  BY <1>1, FS_EmptySet DEF TightMap
<1> QED
  BY <1>1, <1>2 DEF TightInv, Tight, Memory

LEMMA TightStep == TypeInv /\ TightInv /\ [Next]_vars => TightInv'
<1> SUFFICES ASSUME TypeInv, TightInv, [Next]_vars, ~leaked' PROVE Tight(Memory)' /\ Tight(meta)'
  BY DEF TightInv
<1>a. ~leaked
  BY DEF Next, vars, memory, AddCall, BatchCall, BatchItem, GrowStart, GrowEnd, Place,
     Overwrite, AddReuse, BatchReuse, TakeFresh, BatchEnd, BatchRaise, Delete, SaveMeta,
     SaveFails, Flush, Close, Restart, GetLookup, GetFetch
<1>b. TightMap(idToRow, freeRows, count) /\ Tight(Memory) /\ Tight(meta)
  BY <1>a DEF TightInv, Tight, Memory
<1>c. ASSUME UNCHANGED <<idToRow, freeRows, count>>, meta' \in {meta, Memory}
      PROVE  Tight(Memory)' /\ Tight(meta)'
  BY <1>b, <1>c DEF Tight, Memory
<1>d. ASSUME UNCHANGED meta, TightMap(idToRow', freeRows', count')
      PROVE  Tight(Memory)' /\ Tight(meta)'
  BY <1>b, <1>d DEF Tight, Memory
<1>1. CASE \/ BatchCall \/ GrowStart \/ GrowEnd \/ BatchEnd \/ BatchRaise \/ SaveMeta
           \/ SaveFails \/ Flush \/ Close \/ UNCHANGED vars
  BY <1>c, <1>1 DEF BatchCall, GrowStart, GrowEnd, BatchEnd, BatchRaise, SaveMeta,
     SaveFails, Flush, Close, vars, memory
<1>2. CASE \/ \E id \in Ids, v \in Vals : AddCall(id, v) \/ BatchItem(id, v)
           \/ \E r \in Readers, id \in Ids : GetLookup(r, id)
           \/ \E r \in Readers : GetFetch(r)
  BY <1>c, <1>2 DEF AddCall, BatchItem, GetLookup, GetFetch, memory
<1>3. CASE Restart
  BY <1>b, <1>3 DEF Restart, Tight, Memory
<1>4. CASE Place
  <2> DEFINE id == item[1]
             v == item[2]
  <2>1. CASE Overwrite(id, v)
    BY <1>c, <1>4, <2>1 DEF Place, Overwrite, memory
  <2>2. CASE AddReuse(id, v)
    <3>1. PICK row \in freeRows : freeRows' = freeRows \ {row} /\ Register(id, row)
      BY <2>2 DEF AddReuse
    <3>2. id \notin DOMAIN idToRow
      BY <2>2 DEF AddReuse, Stored
    <3>3. TightMap(idToRow', freeRows', count')
      BY <1>b, <3>1, <3>2, FreeRowsFinite, ReuseTight DEF Register, Stored
    <3> QED
      BY <1>d, <1>4, <3>3 DEF Place
  <2>3. CASE TakeFresh(id, v)
    <3>1. id \notin DOMAIN idToRow /\ freeRows = {} /\ freeRows' = {} /\ Register(id, count)
      BY <2>3 DEF TakeFresh, Stored
    <3>2. TightMap(idToRow', freeRows', count')
      BY <1>b, <3>1, FreeRowsFinite, FreshTight DEF Register, Stored
    <3> QED
      BY <1>d, <1>4, <3>2 DEF Place
  <2>4. ~BatchReuse(id, v)
    BY DEF BatchReuse
  <2> QED
    BY <1>4, <2>1, <2>2, <2>3, <2>4 DEF Place
<1>5. ASSUME NEW id \in Ids, Delete(id) PROVE Tight(Memory)' /\ Tight(meta)'
  <2>1. /\ id \in DOMAIN idToRow /\ idToRow' = [i \in DOMAIN idToRow \ {id} |-> idToRow[i]]
        /\ freeRows' = freeRows \cup {idToRow[id]} /\ count' = count - 1 /\ meta' = meta
    BY <1>5 DEF Delete, Stored
  <2>2. TightMap(idToRow', freeRows', count')
    BY <1>b, <2>1, FreeRowsFinite, FreeTight
  <2> QED
    BY <1>d, <2>1, <2>2
<1> QED
  BY <1>1, <1>2, <1>3, <1>4, <1>5 DEF Next

\* No two ids share a row and no free row is in use, in memory or in meta.json,
\* until add_batch() drops a reclaimed row.
THEOREM RowsNeverShared == Spec => []RowsNotShared
<1>1. TypeInv /\ TightInv => RowsNotShared
  BY DEF TightInv, Tight, TightMap, RowsNotShared, RowsInjective
<1>2. Init => TypeInv /\ TightInv
  BY TypeInit, TightInit
<1>3. TypeInv /\ TightInv /\ [Next]_vars => (TypeInv /\ TightInv)'
  BY TypeStep, TightStep
<1> QED
  BY <1>1, <1>2, <1>3, PTL DEF Spec

-----------------------------------------------------------------------------
(***************************************************************************)
(* Acknowledged content survives.                                          *)
(***************************************************************************)
LEMMA ClaimInit == Init => ClaimInv
<1> SUFFICES ASSUME Init PROVE ClaimInv
  OBVIOUS
<1>1. \A id \in Ids : content[id] = Absent /\ pend[id] = NoClaim
  BY DEF Init, NoClaims
<1>2. Stored = {} /\ meta = Memory
  BY DEF Init, Stored
<1> QED
  BY <1>1, <1>2, StoreAssumption DEF Init, ClaimInv, PendingInv, Kept, Holds, Memory, Stored

\* Placing v for id keeps every other claimed vector in place, since no claimed
\* row is free or equal to the next fresh row, and makes the row of id hold v.
LEMMA PlaceKeeps ==
  ASSUME TypeInv, TightInv, ~leaked', NEW id \in Ids, NEW v \in Vals,
         \/ Overwrite(id, v)
         \/ AddReuse(id, v)
         \/ BatchReuse(id, v)
         \/ TakeFresh(id, v) /\ count < capacity
  PROVE  /\ ~leaked
         /\ Stored' = Stored \cup {id}
         /\ mm'[idToRow'[id]] = v
         /\ \A i \in Stored \ {id} : /\ idToRow'[i] = idToRow[i]
                                     /\ mm'[idToRow'[i]] = mm[idToRow[i]]
<1>1. ~BatchReuse(id, v) /\ ~leaked
  BY DEF Overwrite, AddReuse, BatchReuse, TakeFresh
<1>2. TightMap(idToRow, freeRows, count)
  BY <1>1 DEF TightInv, Tight, Memory
<1>3. /\ freeRows \in SUBSET Rows /\ idToRow \in [Stored -> Rows]
      /\ mm \in [Rows -> Vals \cup {Zero}] /\ count \in Nat /\ capacity \in Nat
  BY DEF TypeInv, TypeOK, MapOK, Memory, Rows, Stored
<1>4. CASE Overwrite(id, v)
  BY <1>1, <1>2, <1>3, <1>4 DEF Overwrite, memory, TightMap, Stored
<1>5. ASSUME NEW row \in Rows, id \notin Stored, Register(id, row),
             mm' = [mm EXCEPT ![row] = v], \A i \in Stored : idToRow[i] # row
      PROVE  /\ Stored' = Stored \cup {id}
             /\ mm'[idToRow'[id]] = v
             /\ \A i \in Stored \ {id} : /\ idToRow'[i] = idToRow[i]
                                         /\ mm'[idToRow'[i]] = mm[idToRow[i]]
  <2>1. Stored' = Stored \cup {id} /\ idToRow'[id] = row
    BY <1>5 DEF Register, Stored
  <2>2. \A i \in Stored : idToRow'[i] = idToRow[i]
    BY <1>5 DEF Register
  <2> QED
    BY <1>3, <1>5, <2>1, <2>2
<1>6. CASE AddReuse(id, v)
  <2>1. PICK row \in freeRows : Register(id, row) /\ mm' = [mm EXCEPT ![row] = v]
    BY <1>6 DEF AddReuse
  <2>2. \A i \in Stored : idToRow[i] # row
    BY <1>2 DEF TightMap, Stored
  <2>3. row \in Rows /\ id \notin Stored
    BY <1>3, <1>6 DEF AddReuse
  <2> QED
    BY <1>1, <1>5, <2>1, <2>2, <2>3
<1>7. CASE TakeFresh(id, v) /\ count < capacity
  <2>1. freeRows = {} /\ id \notin Stored /\ Register(id, count) /\ mm' = [mm EXCEPT ![count] = v]
    BY <1>7 DEF TakeFresh
  <2>2. \A i \in Stored : idToRow[i] # count
    BY <1>2, <1>3, <2>1, FreshTight DEF Stored
  <2>3. count \in Rows
    BY <1>3, <1>7 DEF Rows
  <2> QED
    BY <1>1, <1>5, <2>1, <2>2, <2>3
<1> QED
  BY <1>1, <1>4, <1>6, <1>7

LEMMA PendingStep == TypeInv /\ PendingInv /\ [Next]_vars => PendingInv'
<1> SUFFICES ASSUME TypeInv, PendingInv, [Next]_vars PROVE PendingInv'
  OBVIOUS
<1> USE DEF PendingInv
<1>t. /\ content \in [Ids -> Vals \cup {Absent, NoClaim}]
      /\ pend \in [Ids -> Vals \cup {Absent, NoClaim}]
      /\ item \in (Ids \X Vals) \cup {None}
  BY DEF TypeInv, TypeOK
<1>1. ASSUME NEW id \in Ids, NEW v \in Vals, AddCall(id, v) \/ BatchItem(id, v)
      PROVE  PendingInv'
  <2>1. /\ item' = <<id, v>> /\ pend' = pend /\ lock' \in {"add", "batch"}
        /\ content' = [content EXCEPT ![id] = NoClaim]
    BY <1>1 DEF AddCall, BatchItem, Forget
  <2> QED
    BY <1>t, <2>1
<1>2. CASE BatchCall \/ GrowStart \/ BatchEnd \/ Flush \/ Close \/ GrowEnd \/ UNCHANGED vars
  BY <1>2 DEF BatchCall, GrowStart, BatchEnd, Flush, Close, GrowEnd, Idle, vars
<1>3. CASE BatchRaise \/ SaveFails \/ Restart
  BY <1>3 DEF BatchRaise, SaveFails, Restart, NoClaims
<1>4. CASE Place
  <2>1. /\ item # None /\ item' = None /\ lock' # "none"
        /\ content' = content /\ pend' = [pend EXCEPT ![item[1]] = item[2]]
    BY <1>4 DEF Place
  <2> QED
    BY <1>t, <2>1
<1>5. ASSUME NEW id \in Ids, Delete(id) PROVE PendingInv'
  <2>1. /\ lock = "none" /\ item' = item /\ lock' = "save"
        /\ content' = [content EXCEPT ![id] = NoClaim] /\ pend' = [pend EXCEPT ![id] = Absent]
    BY <1>5 DEF Delete, Idle, Forget
  <2> QED
    BY <1>t, <2>1
<1>6. CASE SaveMeta
  BY <1>t, <1>6 DEF SaveMeta, NoClaims
<1>7. CASE \/ \E r \in Readers, id \in Ids : GetLookup(r, id)
           \/ \E r \in Readers : GetFetch(r)
  BY <1>7 DEF GetLookup, GetFetch
<1> QED
  BY <1>1, <1>2, <1>3, <1>4, <1>5, <1>6, <1>7 DEF Next

LEMMA ClaimStep == TypeInv /\ TightInv /\ ClaimInv /\ [Next]_vars => ClaimInv'
<1> SUFFICES ASSUME TypeInv, TightInv, ClaimInv, [Next]_vars, ~leaked', NEW i \in Ids
             PROVE  Kept(i)'
  BY PendingStep DEF ClaimInv
<1>l. ~leaked
  BY DEF Next, vars, memory, AddCall, BatchCall, BatchItem, GrowStart, GrowEnd, Place,
     Overwrite, AddReuse, BatchReuse, TakeFresh, BatchEnd, BatchRaise, Delete, SaveMeta,
     SaveFails, Flush, Close, Restart, GetLookup, GetFetch
<1>k. PendingInv /\ Kept(i)
  BY <1>l DEF ClaimInv
<1>t. /\ content \in [Ids -> Vals \cup {Absent, NoClaim}]
      /\ pend \in [Ids -> Vals \cup {Absent, NoClaim}]
      /\ item \in (Ids \X Vals) \cup {None}
      /\ mm \in [Rows -> Vals \cup {Zero}]
      /\ idToRow \in [Stored -> Rows]
      /\ meta.idToRow \in [DOMAIN meta.idToRow -> 0 .. meta.capacity - 1]
      /\ capacity \in Nat \ {0} /\ count \in Nat
      /\ meta.capacity \in Nat /\ meta.capacity <= capacity
      /\ NoClaim \notin Vals /\ Absent \notin Vals /\ NoClaim # Absent
  BY StoreAssumption DEF TypeInv, TypeOK, MapOK, Memory, Rows, Stored
<1>a. ASSUME UNCHANGED <<idToRow, mm, meta>>,
             content'[i] \in {content[i], NoClaim}, pend'[i] \in {pend[i], NoClaim}
      PROVE  Kept(i)'
  BY <1>a, <1>k, <1>t DEF Kept, Holds, Memory, Stored
<1>1. ASSUME NEW id \in Ids, NEW v \in Vals, AddCall(id, v) \/ BatchItem(id, v)
      PROVE  Kept(i)'
  BY <1>a, <1>t, <1>1 DEF AddCall, BatchItem, Forget, memory
<1>2. CASE \/ BatchCall \/ GrowStart \/ BatchEnd \/ BatchRaise \/ SaveFails \/ UNCHANGED vars
           \/ \E r \in Readers, id \in Ids : GetLookup(r, id)
           \/ \E r \in Readers : GetFetch(r)
  BY <1>a, <1>2 DEF BatchCall, GrowStart, BatchEnd, BatchRaise, SaveFails, vars, memory,
     GetLookup, GetFetch, NoClaims
<1>3. CASE GrowEnd
  <2>1. UNCHANGED <<idToRow, meta, content, pend>>
    BY <1>3 DEF GrowEnd
  <2>2. \A r \in Rows : mm'[r] = mm[r]
    <3>1. Rows \subseteq 0 .. NewCapacity - 1
      BY <1>t, GrowsEnough DEF Rows
    <3> QED
      BY <1>3, <3>1 DEF GrowEnd
  <2>3. 0 .. meta.capacity - 1 \subseteq Rows
    BY <1>t DEF Rows
  <2> QED
    BY <1>k, <1>t, <2>1, <2>2, <2>3 DEF Kept, Holds, Memory, Stored
<1>4. CASE Place
  <2> DEFINE id == item[1]
             v == item[2]
  <2>1. id \in Ids /\ v \in Vals /\ content[id] = NoClaim
    BY <1>4, <1>k, <1>t DEF Place, PendingInv
  <2>2. \/ Overwrite(id, v)
        \/ AddReuse(id, v)
        \/ BatchReuse(id, v)
        \/ TakeFresh(id, v) /\ count < capacity
    BY <1>4, <1>t DEF Place, NeedsGrow, TakeFresh
  <2>3. /\ Stored' = Stored \cup {id}
        /\ mm'[idToRow'[id]] = v
        /\ \A j \in Stored \ {id} : /\ idToRow'[j] = idToRow[j]
                                    /\ mm'[idToRow'[j]] = mm[idToRow[j]]
    <3> HIDE DEF id, v
    <3> QED
      BY <2>1, <2>2, PlaceKeeps
  <2>4. /\ content' = content /\ meta' = meta
        /\ pend' = [pend EXCEPT ![id] = v]
    BY <1>4 DEF Place
  <2> HIDE DEF id, v
  <2>5. CASE i = id
    <3>1. pend'[i] = v
      BY <1>t, <2>1, <2>4, <2>5
    <3> QED
      BY <1>k, <1>t, <2>1, <2>3, <2>4, <2>5, <3>1 DEF Kept, Holds, Memory, Stored
  <2>6. CASE i # id
    <3>1. pend'[i] = pend[i]
      BY <1>t, <2>4, <2>6
    <3>2. /\ i \in DOMAIN idToRow' <=> i \in DOMAIN idToRow
          /\ i \in DOMAIN idToRow => /\ idToRow'[i] = idToRow[i]
                                     /\ mm'[idToRow[i]] = mm[idToRow[i]]
      BY <2>3, <2>6 DEF Stored
    <3> QED
      BY <1>k, <1>t, <2>4, <3>1, <3>2 DEF Kept, Holds, Memory, Stored
  <2> QED
    BY <2>5, <2>6
<1>5. ASSUME NEW id \in Ids, Delete(id) PROVE Kept(i)'
  <2>1. /\ id \in Stored /\ meta' = meta
        /\ idToRow' = [j \in Stored \ {id} |-> idToRow[j]]
        /\ mm' = [mm EXCEPT ![idToRow[id]] = Zero]
        /\ content' = [content EXCEPT ![id] = NoClaim]
        /\ pend' = [pend EXCEPT ![id] = Absent]
    BY <1>5 DEF Delete, Forget
  <2>2. CASE i = id
    BY <1>k, <1>t, <2>1, <2>2 DEF Kept, Holds, Memory, Stored
  <2>3. CASE i # id
    <3>1. content'[i] = content[i] /\ pend'[i] = pend[i]
      BY <1>t, <2>1, <2>3
    <3>2. i \in Stored => idToRow[i] # idToRow[id]
      BY <1>l, <2>1, <2>3 DEF TightInv, Tight, TightMap, Memory, Stored
    <3>3. /\ i \in DOMAIN idToRow' <=> i \in DOMAIN idToRow
          /\ i \in DOMAIN idToRow => /\ idToRow'[i] = idToRow[i]
                                     /\ mm'[idToRow[i]] = mm[idToRow[i]]
      BY <1>t, <2>1, <2>3, <3>2 DEF Stored
    <3> QED
      BY <1>k, <1>t, <2>1, <3>1, <3>3 DEF Kept, Holds, Memory, Stored
  <2> QED
    BY <2>2, <2>3
<1>6. CASE SaveMeta
  <2>1. UNCHANGED <<idToRow, mm>> /\ meta'.idToRow = idToRow /\ pend'[i] = NoClaim
    BY <1>6 DEF SaveMeta, memory, Memory, NoClaims
  <2>2. content'[i] = IF pend[i] # NoClaim THEN pend[i] ELSE content[i]
    BY <1>6 DEF SaveMeta
  <2> QED
    BY <1>k, <1>t, <2>1, <2>2 DEF Kept, Holds, Memory, Stored
<1>7. CASE Flush \/ Close
  <2>1. UNCHANGED <<idToRow, mm, content, pend>> /\ meta'.idToRow = idToRow
    BY <1>7 DEF Flush, Close, memory, Memory
  <2> QED
    BY <1>k, <2>1 DEF Kept, Holds, Memory, Stored
<1>8. CASE Restart
  <2>1. /\ idToRow' = meta.idToRow /\ content' = content /\ meta' = meta
        /\ mm' = [r \in 0 .. meta.capacity - 1 |-> mm[r]] /\ pend'[i] = NoClaim
    BY <1>8 DEF Restart, NoClaims
  <2> QED
    BY <1>k, <1>t, <2>1 DEF Kept, Holds, Memory, Stored
<1> QED
  BY <1>1, <1>2, <1>3, <1>4, <1>5, <1>6, <1>7, <1>8 DEF Next

\* What a caller was told stays true in memory and after a crash at any point,
\* until add_batch() drops a reclaimed row.
THEOREM AcknowledgedSurvives == Spec => []AcknowledgedDurable
<1>1. ClaimInv => AcknowledgedDurable
  BY DEF ClaimInv, Kept, AcknowledgedDurable
<1>2. Init => TypeInv /\ TightInv /\ ClaimInv
  BY TypeInit, TightInit, ClaimInit
<1>3. TypeInv /\ TightInv /\ ClaimInv /\ [Next]_vars => (TypeInv /\ TightInv /\ ClaimInv)'
  BY TypeStep, TightStep, ClaimStep
<1> QED
  BY <1>1, <1>2, <1>3, PTL DEF Spec

-----------------------------------------------------------------------------
(***************************************************************************)
(* Rows stay where they are.                                               *)
(***************************************************************************)
\* Whatever the next step of a call is, it gives a row to an id that has none or takes one
\* from an id for good: growing, overwriting and reusing freed rows move nobody.
LEMMA NobodyMoves ==
  ASSUME Next, ~Restart, NEW id \in Stored \cap Stored' PROVE idToRow'[id] = idToRow[id]
<1>1. CASE Place
  <2>1. CASE UNCHANGED idToRow
    BY <2>1
  <2>2. CASE item[1] \notin Stored /\ \E row : Register(item[1], row)
    BY <2>2 DEF Register, Stored
  <2> QED
    BY <1>1, <2>1, <2>2 DEF Place, Overwrite, AddReuse, BatchReuse, TakeFresh, memory
<1>2. ASSUME NEW i \in Ids, Delete(i) PROVE idToRow'[id] = idToRow[id]
  BY <1>2 DEF Delete, Stored
<1>3. CASE UNCHANGED idToRow
  BY <1>3
<1> QED
  BY <1>1, <1>2, <1>3 DEF Next, AddCall, BatchCall, BatchItem, GrowStart, GrowEnd, BatchEnd, BatchRaise,
    SaveMeta, SaveFails, Flush, Close, GetLookup, GetFetch, memory

\* While the process lives, an id that stays stored keeps its row, so that a get() which
\* looked the row up before the lock was free reads the right one.
THEOREM RowsStay == Spec => StoredIdsKeepTheirRow
<1>1. [Next]_vars => [\/ Restart
                     \/ \A id \in Stored \cap Stored' : idToRow'[id] = idToRow[id]]_vars
  BY NobodyMoves
<1> QED
  BY <1>1, PTL DEF Spec, StoredIdsKeepTheirRow

=============================================================================
