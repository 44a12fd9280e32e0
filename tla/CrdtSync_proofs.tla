--------------------------- MODULE CrdtSync_proofs ---------------------------
(***************************************************************************)
(* Type correctness, convergence and causality of CrdtSync, for any number *)
(* of regions, ids, stamps, operations and deltas.  A region's set is the  *)
(* last-writer-wins image of the operations it has seen: true of every     *)
(* region and of every delta in transit (DeltasLww), hence of their merge. *)
(* A clock slot counts a prefix of one region's operations (KnowledgeInv), *)
(* and a counter slot at least one while nobody has restarted (HeldInv).   *)
(***************************************************************************)
EXTENDS CrdtSync, FiniteSetTheorems, TLAPS

\* Clocks and counters never run ahead of the operations issued.
Capped(clock) == \A m \in Regions : clock[m] <= Cardinality(ops)

Counted ==
  /\ IsFiniteSet(ops)
  /\ Cardinality(ops) + restarts <= MaxOps
  /\ \A o \in ops : o.num <= Cardinality(ops)
  /\ \A r \in Regions : Capped(counts[r])
  /\ \A r \in Regions, id \in Ids : Capped(clocks[r][id])
  /\ \A d \in deltas : Capped(d.counts)
  /\ \A d \in deltas, id \in Ids : Capped(d.clocks[id])

DeltasLww ==
  \A d \in deltas, id \in Ids :
    IsNewestAdd(d.adds[id], d.seen, id) /\ IsNewestRemove(d.removes[id], d.seen, id)

CrdtInv == CrdtTypeOK /\ Counted /\ SetIsLastWriterWins /\ DeltasLww

-----------------------------------------------------------------------------
(* What one operation, and one merge, make of a set *)

LEMMA NewestAddInsert ==
  ASSUME NEW S, NEW id \in Ids, NEW old \in Entry \cup {None}, NEW o \in Op,
         S \subseteq Op, o.id = id, o.kind = "insert", IsNewestAdd(old, S, id),
         NEW entry \in Entry, entry.ts = o.ts, entry.val = o.num
  PROVE  IsNewestAdd(IF AddWins(entry, old) THEN entry ELSE old, S \cup {o}, id)
<1>1. entry # None
  BY CrdtAssumption DEF Entry
<1>2. CASE old = None
  BY <1>1, <1>2 DEF IsNewestAdd, AddWins, OfKind, Op, Entry
<1>3. CASE old # None /\ entry.ts >= old.ts
  BY <1>1, <1>3 DEF IsNewestAdd, AddWins, OfKind, Op, Entry
<1>4. CASE old # None /\ ~(entry.ts >= old.ts)
  BY <1>1, <1>4 DEF IsNewestAdd, AddWins, OfKind, Op, Entry
<1> QED BY <1>2, <1>3, <1>4

\* An operation of another kind, or on another id, leaves the newest entry alone.
LEMMA NewestAddOther ==
  ASSUME NEW S, NEW id, NEW entry, NEW o, o.id # id \/ o.kind # "insert",
         IsNewestAdd(entry, S, id)
  PROVE  IsNewestAdd(entry, S \cup {o}, id)
<1>1. OfKind(S \cup {o}, id, "insert") = OfKind(S, id, "insert")
  BY DEF OfKind
<1> QED BY <1>1 DEF IsNewestAdd

LEMMA NewestRemoveDelete ==
  ASSUME NEW S, NEW id \in Ids, NEW old \in 0 .. MaxTs, NEW o \in Op,
         S \subseteq Op, o.id = id, o.kind = "delete", IsNewestRemove(old, S, id)
  PROVE  IsNewestRemove(Larger(old, o.ts), S \cup {o}, id)
BY CrdtAssumption DEF IsNewestRemove, Larger, OfKind, Op

LEMMA NewestRemoveOther ==
  ASSUME NEW S, NEW id, NEW ts, NEW o, o.id # id \/ o.kind # "delete",
         IsNewestRemove(ts, S, id)
  PROVE  IsNewestRemove(ts, S \cup {o}, id)
<1>1. OfKind(S \cup {o}, id, "delete") = OfKind(S, id, "delete")
  BY DEF OfKind
<1> QED BY <1>1 DEF IsNewestRemove

LEMMA NewestAddMerge ==
  ASSUME NEW S, NEW T, NEW id \in Ids, S \subseteq Op, T \subseteq Op,
         NEW a \in Entry \cup {None}, NEW b \in Entry \cup {None},
         IsNewestAdd(a, S, id), IsNewestAdd(b, T, id)
  PROVE  IsNewestAdd(MergeAdd(a, b), S \cup T, id)
<1>1. CASE b = None
  BY <1>1 DEF IsNewestAdd, MergeAdd, OfKind
<1>2. CASE b # None /\ a = None
  BY <1>2 DEF IsNewestAdd, MergeAdd, OfKind
<1>3. CASE b # None /\ a # None /\ b.ts >= a.ts
  BY <1>3 DEF IsNewestAdd, MergeAdd, OfKind, Op, Entry
<1>4. CASE b # None /\ a # None /\ ~(b.ts >= a.ts)
  BY <1>4 DEF IsNewestAdd, MergeAdd, OfKind, Op, Entry
<1> QED BY <1>1, <1>2, <1>3, <1>4

LEMMA NewestRemoveMerge ==
  ASSUME NEW S, NEW T, NEW id \in Ids, S \subseteq Op, T \subseteq Op,
         NEW a \in 0 .. MaxTs, NEW b \in 0 .. MaxTs,
         IsNewestRemove(a, S, id), IsNewestRemove(b, T, id)
  PROVE  IsNewestRemove(Larger(a, b), S \cup T, id)
BY CrdtAssumption DEF IsNewestRemove, Larger, OfKind, Op

-----------------------------------------------------------------------------
(* Type correctness *)

LEMMA EntryFacts ==
  /\ None \notin Entry
  /\ \A e \in Entry : e.ts \in 1 .. MaxTs /\ e.val \in 1 .. MaxOps
BY CrdtAssumption DEF Entry

\* Only the counter of a delta changes, and whose it is.
CopyOf(e, d) ==
  /\ e.adds = d.adds /\ e.removes = d.removes /\ e.clocks = d.clocks
  /\ e.seen = d.seen /\ e.known = d.known

DeltasCopied == \A e \in deltas' : \E d \in deltas : CopyOf(e, d)
DeltasSame == \A e \in deltas' : e \in Delta /\ \E d \in deltas : CopyOf(e, d) /\ e.counts = d.counts

LEMMA CutCopies ==
  ASSUME CrdtTypeOK, NEW r, CutDeltas(r) \/ (\E d \in deltas : SerializeDelta(d)) \/ UNCHANGED deltas
  PROVE  DeltasSame /\ DeltasCopied
<1>1. \A d \in deltas : d \in Delta
  BY DEF CrdtTypeOK
<1>2. ASSUME NEW d \in deltas
      PROVE  Cut(d) \in Delta /\ CopyOf(Cut(d), d) /\ Cut(d).counts = d.counts
  BY <1>1 DEF Cut, Delta, CopyOf
<1>3. \A d : CopyOf(d, d)
  BY DEF CopyOf
<1>4. DeltasSame
  BY <1>1, <1>2, <1>3 DEF CutDeltas, SerializeDelta, DeltasSame
<1> QED
  BY <1>4 DEF DeltasSame, DeltasCopied

\* Growing adds the insert to the slot of the region that makes it.
LEMMA GrownCopies ==
  ASSUME CrdtTypeOK, NEW r \in Regions, deltas' = {Grown(r, d) : d \in deltas},
         \A d \in deltas : d.counts[r] + 1 \in 0 .. MaxOps
  PROVE  /\ DeltasCopied
         /\ \A e \in deltas' : e \in Delta /\ \E d \in deltas :
              CopyOf(e, d) /\ e.counts \in {d.counts, [d.counts EXCEPT ![r] = @ + 1]}
<1>1. \A d \in deltas : d \in Delta
  BY DEF CrdtTypeOK
<1>2. ASSUME NEW d \in deltas
      PROVE  /\ Grown(r, d) \in Delta /\ CopyOf(Grown(r, d), d)
             /\ Grown(r, d).counts \in {d.counts, [d.counts EXCEPT ![r] = @ + 1]}
  <2>1. d \in Delta /\ d.counts[r] + 1 \in 0 .. MaxOps /\ d.counts \in Clock
    BY <1>1 DEF Delta
  <2>2. [d.counts EXCEPT ![r] = @ + 1] \in Clock
    BY <2>1 DEF Clock
  <2> QED
    BY <2>1, <2>2 DEF Grown, Delta, CopyOf
<1> QED
  BY <1>2 DEF DeltasCopied

LEMMA InsertCopies ==
  ASSUME CrdtTypeOK, Counted, NEW r \in Writers, NEW id \in Ids, NEW ts \in 1 .. MaxTs,
         LocalInsert(r, id, ts)
  PROVE  /\ DeltasCopied
         /\ \A e \in deltas' : e \in Delta /\ \E d \in deltas :
              CopyOf(e, d) /\ e.counts \in {d.counts, [d.counts EXCEPT ![r] = @ + 1]}
<1>1. r \in Regions /\ deltas' = {Grown(r, d) : d \in deltas} /\ Cardinality(ops) + restarts < MaxOps
  BY CrdtAssumption DEF LocalInsert
<1>2. Cardinality(ops) \in Nat /\ restarts \in Nat /\ MaxOps \in Nat
  BY CrdtAssumption, FS_CardinalityType DEF Counted, CrdtTypeOK
<1>3. ASSUME NEW d \in deltas PROVE d.counts[r] + 1 \in 0 .. MaxOps
  <2>1. d.counts[r] \in Nat /\ d.counts[r] <= Cardinality(ops)
    BY <1>1 DEF CrdtTypeOK, Counted, Capped, Delta, Clock
  <2> QED BY <1>1, <1>2, <2>1
<1> QED
  BY <1>1, <1>3, GrownCopies

\* What that makes of the types.
LEMMA CopiesType ==
  ASSUME CrdtTypeOK, Counted, ops \subseteq ops', Cardinality(ops') \in Nat,
         Cardinality(ops) <= Cardinality(ops'), DeltasCopied, \A e \in deltas' : e \in Delta,
         \A e \in deltas', m \in Regions : e.counts[m] <= Cardinality(ops')
  PROVE  /\ \A d \in deltas' : d \in Delta /\ d.seen \subseteq ops' /\ d.known \subseteq ops'
         /\ \A d \in deltas' : Capped(d.counts)'
         /\ \A d \in deltas', i \in Ids : Capped(d.clocks[i])'
<1>1. ASSUME NEW e \in deltas', NEW i \in Ids, NEW m \in Regions
      PROVE  e.clocks[i][m] <= Cardinality(ops')
  <2>1. PICK d \in deltas : CopyOf(e, d)
    BY DEF DeltasCopied
  <2>2. d.clocks[i][m] \in Nat /\ d.clocks[i][m] <= Cardinality(ops)
    BY DEF CrdtTypeOK, Counted, Capped, Delta, Clock
  <2>3. Cardinality(ops) \in Nat
    BY FS_CardinalityType DEF Counted
  <2>4. e.clocks[i][m] = d.clocks[i][m]
    BY <2>1 DEF CopyOf
  <2> QED
    BY <2>2, <2>3, <2>4
<1>2. ASSUME NEW e \in deltas' PROVE e.seen \subseteq ops' /\ e.known \subseteq ops'
  <2>1. PICK d \in deltas : CopyOf(e, d)
    BY DEF DeltasCopied
  <2> QED
    BY <2>1 DEF CopyOf, CrdtTypeOK
<1> QED
  BY <1>1, <1>2 DEF Capped

\* The same of a step that issues nothing.
LEMMA SameType ==
  ASSUME CrdtTypeOK, Counted, ops' = ops, DeltasSame
  PROVE  /\ \A d \in deltas' : d \in Delta /\ d.seen \subseteq ops' /\ d.known \subseteq ops'
         /\ \A d \in deltas' : Capped(d.counts)'
         /\ \A d \in deltas', i \in Ids : Capped(d.clocks[i])'
<1>1. Cardinality(ops) \in Nat
  BY FS_CardinalityType DEF Counted
<1>2. DeltasCopied /\ \A e \in deltas' : e \in Delta
  BY DEF DeltasSame, DeltasCopied
<1>3. ASSUME NEW e \in deltas', NEW m \in Regions PROVE e.counts[m] <= Cardinality(ops')
  BY DEF DeltasSame, Counted, Capped
<1> QED
  BY <1>1, <1>2, <1>3, CopiesType

\* The operation a local call issues, and the counts it leaves.
NewOp(r, id, kind, ts) ==
  [num |-> Cardinality(ops) + 1, region |-> r, id |-> id, kind |-> kind, ts |-> ts,
   deps |-> {o.num : o \in OnId(known[r], id)}]

LEMMA IssueFacts ==
  ASSUME CrdtTypeOK, Counted, NEW r \in Writers, NEW id \in Ids, NEW ts \in 1 .. MaxTs,
         NEW kind \in {"insert", "delete"}, Cardinality(ops) + restarts < MaxOps,
         Issue(r, id, kind, ts)
  PROVE  /\ NewOp(r, id, kind, ts) \in Op
         /\ ops' = ops \cup {NewOp(r, id, kind, ts)}
         /\ NewOp(r, id, kind, ts) \notin ops
         /\ IsFiniteSet(ops')
         /\ Cardinality(ops') = Cardinality(ops) + 1
         /\ Cardinality(ops) \in Nat
         /\ restarts \in Nat
         /\ Cardinality(ops) + 1 \in 1 .. MaxOps
<1> DEFINE op == NewOp(r, id, kind, ts)
<1>0. r \in Regions
  BY CrdtAssumption
<1>1. Cardinality(ops) \in Nat /\ restarts \in Nat /\ MaxOps \in Nat
  BY FS_CardinalityType, CrdtAssumption DEF Counted, CrdtTypeOK
<1>2. Cardinality(ops) + 1 \in 1 .. MaxOps
  BY <1>1
<1>3. OnId(known[r], id) \subseteq Op
  BY <1>0 DEF CrdtTypeOK, OnId
<1>4. {o.num : o \in OnId(known[r], id)} \subseteq 1 .. MaxOps
  BY <1>3 DEF Op
<1>5. op \in Op
  BY <1>0, <1>2, <1>4 DEF Op, NewOp
<1>6. op.num = Cardinality(ops) + 1
  BY DEF NewOp
<1>7. op \notin ops
  BY <1>1, <1>6 DEF Counted
<1>8. ops' = ops \cup {op}
  BY DEF Issue, NewOp
<1>9. IsFiniteSet(ops') /\ Cardinality(ops') = Cardinality(ops) + 1
  BY <1>7, <1>8, FS_AddElement DEF Counted
<1> QED BY <1>1, <1>2, <1>5, <1>7, <1>8, <1>9

\* What both local operations do to the clocks and the histories.
LEMMA IssueType ==
  ASSUME CrdtTypeOK, Counted, NEW r \in Writers, NEW id \in Ids, NEW ts \in 1 .. MaxTs,
         NEW kind \in {"insert", "delete"}, Cardinality(ops) + restarts < MaxOps,
         Issue(r, id, kind, ts), UNCHANGED <<conflicts, restarts, clockLost>>,
         DeltasCopied, \A e \in deltas' : e \in Delta,
         \A e \in deltas', m \in Regions : e.counts[m] <= Cardinality(ops) + 1
  PROVE  /\ clocks' \in [Regions -> [Ids -> Clock]]
         /\ \A s \in Regions, i \in Ids : Capped(clocks[s][i])'
         /\ ops' \subseteq Op
         /\ seen' \in [Regions -> SUBSET ops']
         /\ known' \in [Regions -> SUBSET ops']
         /\ \A d \in deltas' : d \in Delta /\ d.seen \subseteq ops' /\ d.known \subseteq ops'
         /\ Cardinality(ops') + restarts' <= MaxOps
         /\ \A o \in ops' : o.num <= Cardinality(ops')
         /\ \A d \in deltas' : Capped(d.counts)'
         /\ \A d \in deltas', i \in Ids : Capped(d.clocks[i])'
<1> DEFINE op == NewOp(r, id, kind, ts)
<1>0. r \in Regions
  BY CrdtAssumption
<1>1. /\ op \in Op /\ ops' = ops \cup {op} /\ Cardinality(ops') = Cardinality(ops) + 1
      /\ Cardinality(ops) \in Nat /\ restarts \in Nat /\ Cardinality(ops) + 1 \in 1 .. MaxOps
  BY IssueFacts
<1>2. /\ seen' = [seen EXCEPT ![r] = @ \cup {op}]
      /\ known' = [known EXCEPT ![r] = @ \cup {op}]
      /\ clocks' = [clocks EXCEPT ![r][id][r] = @ + 1]
  BY DEF Issue, NewOp
<1>3. \A s \in Regions, i \in Ids, m \in Regions :
        clocks[s][i][m] \in 0 .. MaxOps /\ clocks[s][i][m] <= Cardinality(ops)
  BY DEF CrdtTypeOK, Counted, Capped, Clock
<1>4. clocks[r][id][r] + 1 \in 0 .. MaxOps
  <2>1. clocks[r][id][r] \in Nat /\ clocks[r][id][r] <= Cardinality(ops)
    BY <1>0, <1>3
  <2> QED BY <2>1, <1>1, CrdtAssumption
<1>5. clocks' \in [Regions -> [Ids -> Clock]]
  BY <1>0, <1>2, <1>4 DEF CrdtTypeOK, Clock
<1>6. ASSUME NEW s \in Regions, NEW i \in Ids, NEW m \in Regions
      PROVE  clocks'[s][i][m] <= Cardinality(ops')
  <2>1. clocks'[s][i][m] = clocks[s][i][m] \/ clocks'[s][i][m] = clocks[s][i][m] + 1
    BY <1>0, <1>2 DEF CrdtTypeOK, Clock
  <2> QED BY <2>1, <1>1, <1>3
<1>7. ops' \subseteq Op /\ \A o \in ops' : o.num <= Cardinality(ops')
  <2>1. op.num = Cardinality(ops) + 1
    BY DEF NewOp
  <2>2. \A o \in ops : o.num \in Nat /\ o.num <= Cardinality(ops)
    BY DEF CrdtTypeOK, Counted, Op
  <2> QED BY <2>1, <2>2, <1>1 DEF CrdtTypeOK
<1>8. seen' \in [Regions -> SUBSET ops'] /\ known' \in [Regions -> SUBSET ops']
  BY <1>0, <1>1, <1>2 DEF CrdtTypeOK
<1>10. Cardinality(ops') + restarts' <= MaxOps
  BY <1>1, CrdtAssumption
<1>11. /\ \A d \in deltas' : d \in Delta /\ d.seen \subseteq ops' /\ d.known \subseteq ops'
       /\ \A d \in deltas' : Capped(d.counts)'
       /\ \A d \in deltas', i \in Ids : Capped(d.clocks[i])'
  <2>1. ops \subseteq ops' /\ Cardinality(ops') \in Nat /\ Cardinality(ops) <= Cardinality(ops')
    BY <1>1
  <2>2. \A e \in deltas', m \in Regions : e.counts[m] <= Cardinality(ops')
    BY <1>1
  <2> QED BY <2>1, <2>2, CopiesType
<1> QED BY <1>5, <1>6, <1>7, <1>8, <1>10, <1>11 DEF Capped

LEMMA InsertType ==
  ASSUME CrdtTypeOK, Counted, NEW r \in Writers, NEW id \in Ids, NEW ts \in 1 .. MaxTs,
         LocalInsert(r, id, ts)
  PROVE  CrdtTypeOK' /\ Counted'
<1> DEFINE entry == [ts |-> ts, val |-> Cardinality(ops) + 1]
<1>0. r \in Regions
  BY CrdtAssumption
<1>1. /\ Cardinality(ops) + restarts < MaxOps /\ Issue(r, id, "insert", ts)
      /\ UNCHANGED <<removes, conflicts, flagged, restarts, clockLost>>
      /\ counts' = [counts EXCEPT ![r][r] = @ + 1] /\ deltas' = {Grown(r, d) : d \in deltas}
      /\ adds' = IF AddWins(entry, adds[r][id]) THEN [adds EXCEPT ![r][id] = entry] ELSE adds
  BY DEF LocalInsert
<1>2. /\ IsFiniteSet(ops') /\ Cardinality(ops') = Cardinality(ops) + 1
      /\ Cardinality(ops) \in Nat /\ Cardinality(ops) + 1 \in 1 .. MaxOps
  BY <1>1, IssueFacts
<1>3. entry \in Entry
  BY <1>2 DEF Entry
<1>4. adds' \in [Regions -> [Ids -> Entry \cup {None}]]
  BY <1>0, <1>1, <1>3 DEF CrdtTypeOK
<1>5. \A s, m \in Regions : counts[s][m] \in Nat /\ counts[s][m] <= Cardinality(ops)
  BY DEF CrdtTypeOK, Counted, Capped, Clock
<1>6. counts[r][r] + 1 \in 0 .. MaxOps
  <2>1. counts[r][r] \in Nat /\ counts[r][r] <= Cardinality(ops)
    BY <1>0, <1>5
  <2> QED BY <2>1, <1>2, CrdtAssumption
<1>7. counts' \in [Regions -> Clock]
  BY <1>0, <1>1, <1>6 DEF CrdtTypeOK, Clock
<1>8. ASSUME NEW s \in Regions, NEW m \in Regions
      PROVE  counts'[s][m] <= Cardinality(ops')
  <2>1. counts'[s][m] = counts[s][m] \/ counts'[s][m] = counts[s][m] + 1
    BY <1>0, <1>1 DEF CrdtTypeOK, Clock
  <2> QED BY <2>1, <1>2, <1>5
<1>11. /\ DeltasCopied /\ \A e \in deltas' : e \in Delta
       /\ \A e \in deltas', m \in Regions : e.counts[m] <= Cardinality(ops) + 1
  <2>1. ASSUME NEW d \in deltas, NEW m \in Regions
        PROVE  d.counts[m] \in Nat /\ d.counts[m] <= Cardinality(ops)
    BY DEF CrdtTypeOK, Counted, Capped, Delta, Clock
  <2>2. \A d \in deltas : d.counts[r] + 1 \in 0 .. MaxOps
    BY <1>0, <1>2, <2>1, CrdtAssumption
  <2>3. /\ DeltasCopied
        /\ \A e \in deltas' : e \in Delta /\ \E d \in deltas :
             CopyOf(e, d) /\ e.counts \in {d.counts, [d.counts EXCEPT ![r] = @ + 1]}
    BY <1>0, <1>1, <2>2, GrownCopies
  <2>4. ASSUME NEW e \in deltas', NEW m \in Regions PROVE e.counts[m] <= Cardinality(ops) + 1
    <3>1. PICK d \in deltas : e.counts \in {d.counts, [d.counts EXCEPT ![r] = @ + 1]}
      BY <2>3
    <3>2. e.counts[m] \in {d.counts[m], d.counts[m] + 1}
      BY <3>1 DEF CrdtTypeOK, Delta, Clock
    <3> QED
      BY <1>2, <2>1, <3>2
  <2> QED
    BY <2>3, <2>4
<1>9. CrdtTypeOK'
  BY <1>1, <1>4, <1>7, <1>11, IssueType DEF CrdtTypeOK
<1>10. Counted'
  BY <1>1, <1>2, <1>8, <1>11, IssueType DEF Counted, Capped
<1> QED BY <1>9, <1>10

LEMMA DeleteType ==
  ASSUME CrdtTypeOK, Counted, NEW r \in Writers, NEW id \in Ids, NEW ts \in 1 .. MaxTs,
         LocalDelete(r, id, ts)
  PROVE  CrdtTypeOK' /\ Counted'
<1>0. r \in Regions
  BY CrdtAssumption
<1>1. /\ Cardinality(ops) + restarts < MaxOps /\ Issue(r, id, "delete", ts)
      /\ UNCHANGED <<adds, counts, conflicts, deltas, flagged, restarts, clockLost>>
      /\ removes' = [removes EXCEPT ![r][id] = Larger(@, ts)]
  BY DEF LocalDelete
<1>2. /\ IsFiniteSet(ops') /\ Cardinality(ops') = Cardinality(ops) + 1
      /\ Cardinality(ops) \in Nat
  BY <1>1, IssueFacts
<1>3. Larger(removes[r][id], ts) \in 0 .. MaxTs
  BY <1>0, CrdtAssumption DEF CrdtTypeOK, Larger
<1>4. removes' \in [Regions -> [Ids -> 0 .. MaxTs]]
  BY <1>0, <1>1, <1>3 DEF CrdtTypeOK
<1>5. ASSUME NEW s \in Regions, NEW m \in Regions
      PROVE  counts'[s][m] <= Cardinality(ops')
  <2>1. counts[s][m] \in Nat /\ counts[s][m] <= Cardinality(ops)
    BY DEF CrdtTypeOK, Counted, Capped, Clock
  <2> QED BY <2>1, <1>1, <1>2
<1>8. /\ DeltasCopied /\ \A e \in deltas' : e \in Delta
      /\ \A e \in deltas', m \in Regions : e.counts[m] <= Cardinality(ops) + 1
  <2>1. DeltasCopied /\ \A e \in deltas' : e \in Delta
    BY <1>1, CutCopies DEF DeltasSame
  <2>2. ASSUME NEW e \in deltas, NEW m \in Regions PROVE e.counts[m] <= Cardinality(ops) + 1
    <3>1. e.counts[m] \in Nat /\ e.counts[m] <= Cardinality(ops)
      BY DEF CrdtTypeOK, Counted, Capped, Delta, Clock
    <3> QED
      BY <1>2, <3>1
  <2> QED
    BY <1>1, <2>1, <2>2
<1>6. CrdtTypeOK'
  BY <1>1, <1>4, <1>8, IssueType DEF CrdtTypeOK
<1>7. Counted'
  BY <1>1, <1>2, <1>5, <1>8, IssueType DEF Counted, Capped
<1> QED BY <1>6, <1>7

\* The data part of both merges.
LEMMA MergeDataType ==
  ASSUME CrdtTypeOK, Counted, NEW r \in Regions, NEW d \in deltas, MergeData(r, d),
         UNCHANGED ops
  PROVE  /\ adds' \in [Regions -> [Ids -> Entry \cup {None}]]
         /\ removes' \in [Regions -> [Ids -> 0 .. MaxTs]]
         /\ counts' \in [Regions -> Clock]
         /\ seen' \in [Regions -> SUBSET ops']
         /\ \A s \in Regions : Capped(counts[s])'
<1>1. /\ d.adds \in [Ids -> Entry \cup {None}] /\ d.removes \in [Ids -> 0 .. MaxTs]
      /\ d.counts \in Clock /\ d.seen \subseteq ops
  BY DEF CrdtTypeOK, Delta
<1>2. \A id \in Ids : MergeAdd(adds[r][id], d.adds[id]) \in Entry \cup {None}
  BY <1>1 DEF CrdtTypeOK, MergeAdd
<1>3. adds' \in [Regions -> [Ids -> Entry \cup {None}]]
  BY <1>2 DEF CrdtTypeOK, MergeData
<1>4. \A id \in Ids : Larger(removes[r][id], d.removes[id]) \in 0 .. MaxTs
  BY <1>1 DEF CrdtTypeOK, Larger
<1>5. removes' \in [Regions -> [Ids -> 0 .. MaxTs]]
  BY <1>4 DEF CrdtTypeOK, MergeData
<1>6. \A m \in Regions : Larger(counts[r][m], d.counts[m]) \in 0 .. MaxOps
  BY <1>1 DEF CrdtTypeOK, Larger, Clock
<1>7. counts' \in [Regions -> Clock]
  BY <1>6 DEF CrdtTypeOK, MergeData, Clock
<1>8. seen' \in [Regions -> SUBSET ops']
  BY <1>1 DEF CrdtTypeOK, MergeData
<1>9. ASSUME NEW s \in Regions, NEW m \in Regions
      PROVE  counts'[s][m] <= Cardinality(ops')
  <2>1. counts'[s][m] = counts[s][m] \/ counts'[s][m] = Larger(counts[s][m], d.counts[m])
    BY DEF CrdtTypeOK, MergeData, Clock
  <2>2. counts[s][m] <= Cardinality(ops) /\ d.counts[m] <= Cardinality(ops)
    BY DEF Counted, Capped
  <2> QED BY <2>1, <2>2 DEF Larger
<1> QED BY <1>3, <1>5, <1>7, <1>8, <1>9 DEF Capped

LEMMA MergeDeltaType ==
  ASSUME CrdtTypeOK, Counted, NEW r \in Regions, NEW d \in deltas, MergeDelta(r, d)
  PROVE  CrdtTypeOK' /\ Counted'
<1>1. /\ MergeData(r, d) /\ CutDeltas(r) /\ UNCHANGED <<ops, restarts, clockLost>>
      /\ clocks' = [clocks EXCEPT ![r] = MergeClocks(r, d)]
      /\ known' = [known EXCEPT ![r] = @ \cup d.known]
      /\ conflicts' = [conflicts EXCEPT ![r] = @ \cup Reported(r, d)]
  BY DEF MergeDelta
<1>2. d.clocks \in [Ids -> Clock] /\ d.known \subseteq ops
  BY DEF CrdtTypeOK, Delta
<1>3. MergeClocks(r, d) \in [Ids -> Clock]
  BY <1>2 DEF CrdtTypeOK, MergeClocks, Larger, Clock
<1>4. clocks' \in [Regions -> [Ids -> Clock]]
  BY <1>1, <1>3 DEF CrdtTypeOK
<1>5. known' \in [Regions -> SUBSET ops'] /\ conflicts' \in [Regions -> SUBSET Ids]
  BY <1>1, <1>2 DEF CrdtTypeOK, Reported
<1>6. ASSUME NEW s \in Regions, NEW id \in Ids, NEW m \in Regions
      PROVE  clocks'[s][id][m] <= Cardinality(ops')
  <2>1. clocks'[s][id][m] = clocks[s][id][m]
          \/ clocks'[s][id][m] = Larger(clocks[s][id][m], d.clocks[id][m])
    BY <1>1 DEF CrdtTypeOK, MergeClocks, Clock
  <2>2. clocks[s][id][m] <= Cardinality(ops) /\ d.clocks[id][m] <= Cardinality(ops)
    BY DEF Counted, Capped
  <2> QED BY <1>1, <2>1, <2>2 DEF Larger
<1>9. DeltasSame
  BY <1>1, CutCopies
<1>7. CrdtTypeOK'
  BY <1>1, <1>4, <1>5, <1>9, MergeDataType, SameType DEF CrdtTypeOK
<1>8. Counted'
  BY <1>1, <1>6, <1>9, MergeDataType, SameType DEF Counted, Capped
<1> QED BY <1>7, <1>8

LEMMA MergeRemoteStateType ==
  ASSUME CrdtTypeOK, Counted, NEW r \in Regions, NEW d \in deltas, MergeRemoteState(r, d)
  PROVE  CrdtTypeOK' /\ Counted'
<1>1. MergeData(r, d) /\ CutDeltas(r)
      /\ UNCHANGED <<clocks, conflicts, ops, known, flagged, restarts, clockLost>>
  BY DEF MergeRemoteState
<1>4. DeltasSame
  BY <1>1, CutCopies
<1>2. CrdtTypeOK'
  BY <1>1, <1>4, MergeDataType, SameType DEF CrdtTypeOK
<1>3. Counted'
  BY <1>1, <1>4, MergeDataType, SameType DEF Counted, Capped
<1> QED BY <1>2, <1>3

LEMMA ProduceDeltaType ==
  ASSUME CrdtTypeOK, Counted, NEW r \in Regions, ProduceDelta(r)
  PROVE  CrdtTypeOK' /\ Counted'
<1> DEFINE d == [sharer |-> IF r \in Writers THEN r ELSE None, adds |-> adds[r], removes |-> removes[r], counts |-> counts[r],
                 clocks |-> clocks[r], seen |-> seen[r], known |-> known[r]]
<1>1. /\ deltas' = deltas \cup {d}
      /\ UNCHANGED <<data, clocks, conflicts, ops, seen, known, flagged, restarts, clockLost>>
  BY DEF ProduceDelta
<1>2. seen[r] \subseteq ops /\ known[r] \subseteq ops /\ ops \subseteq Op
  BY DEF CrdtTypeOK
<1>3. d \in Delta
  BY <1>2 DEF CrdtTypeOK, Delta
<1>4. CrdtTypeOK'
  BY <1>1, <1>2, <1>3 DEF CrdtTypeOK, data
<1>5. Counted'
  BY <1>1 DEF Counted, Capped, data
<1> QED BY <1>4, <1>5

LEMMA SerializeDeltaType ==
  ASSUME CrdtTypeOK, Counted, NEW d \in deltas, SerializeDelta(d)
  PROVE  CrdtTypeOK' /\ Counted'
<1>1. DeltasSame
  BY CutCopies
<1>2. UNCHANGED <<data, clocks, conflicts, ops, seen, known, restarts, clockLost>>
  BY DEF SerializeDelta
<1>3. CrdtTypeOK'
  BY <1>1, <1>2, SameType DEF CrdtTypeOK, data
<1>4. Counted'
  BY <1>1, <1>2, SameType DEF Counted, Capped, data
<1> QED BY <1>3, <1>4

LEMMA ResolveConflictType ==
  ASSUME CrdtTypeOK, Counted, NEW r \in Regions, NEW id \in Ids, ResolveConflict(r, id)
  PROVE  CrdtTypeOK' /\ Counted'
<1>1. CrdtTypeOK'
  BY DEF CrdtTypeOK, ResolveConflict, data
<1>2. Counted'
  BY DEF Counted, Capped, ResolveConflict, data
<1> QED BY <1>1, <1>2

LEMMA RestartType ==
  ASSUME CrdtTypeOK, Counted, NEW r \in Restarters, Restart(r)
  PROVE  CrdtTypeOK' /\ Counted'
<1>0. r \in Regions
  BY CrdtAssumption
<1>1. Cardinality(ops) \in Nat /\ restarts \in Nat /\ MaxOps \in Nat /\ MaxTs \in Nat
  BY FS_CardinalityType, CrdtAssumption DEF Counted, CrdtTypeOK
<1>2. NoClock \in Clock /\ \A m \in Regions : NoClock[m] <= Cardinality(ops)
  BY <1>1 DEF NoClock, Clock
<1>3. /\ Cardinality(ops) + restarts < MaxOps /\ restarts' = restarts + 1
      /\ CutDeltas(r) /\ UNCHANGED <<ops, flagged>>
      /\ adds' = [adds EXCEPT ![r] = [id \in Ids |-> None]]
      /\ removes' = [removes EXCEPT ![r] = [id \in Ids |-> 0]]
      /\ counts' = [counts EXCEPT ![r] = NoClock]
      /\ conflicts' = [conflicts EXCEPT ![r] = {}]
      /\ seen' = [seen EXCEPT ![r] = {}]
  BY DEF Restart
<1>4. \/ UNCHANGED <<clocks, known, clockLost>>
      \/ /\ clocks' = [clocks EXCEPT ![r] = [id \in Ids |-> NoClock]]
         /\ known' = [known EXCEPT ![r] = {}]
         /\ clockLost' = TRUE
  BY DEF Restart
<1>5. /\ adds' \in [Regions -> [Ids -> Entry \cup {None}]]
      /\ removes' \in [Regions -> [Ids -> 0 .. MaxTs]]
      /\ counts' \in [Regions -> Clock]
      /\ conflicts' \in [Regions -> SUBSET Ids]
      /\ seen' \in [Regions -> SUBSET ops']
  BY <1>0, <1>1, <1>2, <1>3 DEF CrdtTypeOK
<1>6. clocks' \in [Regions -> [Ids -> Clock]] /\ known' \in [Regions -> SUBSET ops']
  <2>1. CASE UNCHANGED <<clocks, known, clockLost>>
    BY <2>1, <1>3 DEF CrdtTypeOK
  <2>2. CASE /\ clocks' = [clocks EXCEPT ![r] = [id \in Ids |-> NoClock]]
             /\ known' = [known EXCEPT ![r] = {}]
    <3>1. [id \in Ids |-> NoClock] \in [Ids -> Clock]
      BY <1>2
    <3>2. clocks' \in [Regions -> [Ids -> Clock]]
      BY <2>2, <3>1 DEF CrdtTypeOK
    <3> QED BY <2>2, <3>2, <1>3 DEF CrdtTypeOK
  <2> QED BY <1>4, <2>1, <2>2
<1>7. clockLost' \in BOOLEAN
  BY <1>4 DEF CrdtTypeOK
<1>8. restarts' \in 0 .. MaxOps /\ Cardinality(ops') + restarts' <= MaxOps
  BY <1>1, <1>3
<1>13. DeltasSame
  BY <1>3, CutCopies
<1>9. CrdtTypeOK'
  BY <1>3, <1>5, <1>6, <1>7, <1>8, <1>13, SameType DEF CrdtTypeOK
<1>10. \A s \in Regions : Capped(counts[s])'
  BY <1>0, <1>2, <1>3 DEF CrdtTypeOK, Counted, Capped
<1>11. ASSUME NEW s \in Regions, NEW id \in Ids
       PROVE  Capped(clocks[s][id])'
  <2>1. clocks'[s][id] = clocks[s][id] \/ clocks'[s][id] = NoClock
    <3>1. CASE UNCHANGED clocks
      BY <3>1
    <3>2. CASE clocks' = [clocks EXCEPT ![r] = [i \in Ids |-> NoClock]]
      <4>1. clocks'[s] = IF s = r THEN [i \in Ids |-> NoClock] ELSE clocks[s]
        BY <3>2 DEF CrdtTypeOK
      <4> QED BY <4>1
    <3> QED BY <1>4, <3>1, <3>2
  <2> QED BY <2>1, <1>2, <1>3 DEF Counted, Capped
<1>12. Counted'
  BY <1>3, <1>8, <1>10, <1>11, <1>13, SameType DEF Counted, Capped
<1> QED BY <1>9, <1>12

LEMMA TypeInit == CrdtInit => CrdtTypeOK /\ Counted
<1> SUFFICES ASSUME CrdtInit PROVE CrdtTypeOK /\ Counted
  OBVIOUS
<1>1. IsFiniteSet(ops) /\ Cardinality(ops) = 0
  BY FS_EmptySet DEF CrdtInit
<1>2. MaxOps \in Nat /\ MaxTs \in Nat
  BY CrdtAssumption
<1>3. NoClock \in Clock
  BY <1>2 DEF NoClock, Clock
<1>5. /\ adds \in [Regions -> [Ids -> Entry \cup {None}]]
      /\ removes \in [Regions -> [Ids -> 0 .. MaxTs]]
      /\ counts \in [Regions -> Clock]
  BY <1>2, <1>3 DEF CrdtInit
<1>6. clocks \in [Regions -> [Ids -> Clock]]
  <2>1. [id \in Ids |-> NoClock] \in [Ids -> Clock]
    BY <1>3
  <2> QED BY <2>1 DEF CrdtInit
<1>7. /\ ops \subseteq Op /\ seen \in [Regions -> SUBSET ops] /\ known \in [Regions -> SUBSET ops]
      /\ conflicts \in [Regions -> SUBSET Ids] /\ deltas = {}
  BY DEF CrdtInit
<1>8. restarts \in 0 .. MaxOps /\ clockLost \in BOOLEAN
  <2>1. restarts = 0 /\ clockLost = FALSE
    BY DEF CrdtInit
  <2>2. restarts \in 0 .. MaxOps
    BY <2>1, <1>2
  <2> QED BY <2>1, <2>2
<1>9. CrdtTypeOK
  BY <1>5, <1>6, <1>7, <1>8 DEF CrdtTypeOK
<1>4. Counted
  <2>1. \A r \in Regions : Capped(counts[r])
    BY <1>1 DEF CrdtInit, Capped, NoClock
  <2>2. \A r \in Regions, id \in Ids : Capped(clocks[r][id])
    BY <1>1 DEF CrdtInit, Capped, NoClock
  <2> QED BY <1>1, <1>2, <2>1, <2>2 DEF CrdtInit, Counted
<1> QED BY <1>4, <1>9

LEMMA TypeStep == CrdtTypeOK /\ Counted /\ [CrdtNext]_crdtVars => CrdtTypeOK' /\ Counted'
<1> SUFFICES ASSUME CrdtTypeOK, Counted, [CrdtNext]_crdtVars PROVE CrdtTypeOK' /\ Counted'
  OBVIOUS
<1>1. ASSUME NEW r \in Writers, NEW id \in Ids, NEW ts \in 1 .. MaxTs,
             LocalInsert(r, id, ts) \/ LocalDelete(r, id, ts)
      PROVE  CrdtTypeOK' /\ Counted'
  BY <1>1, InsertType, DeleteType
<1>2. ASSUME NEW r \in Regions, ProduceDelta(r) PROVE CrdtTypeOK' /\ Counted'
  BY <1>2, ProduceDeltaType
<1>3. ASSUME NEW r \in Regions, NEW d \in deltas, MergeDelta(r, d) PROVE CrdtTypeOK' /\ Counted'
  BY <1>3, MergeDeltaType
<1>4. ASSUME NEW r \in Importers, NEW d \in deltas, MergeRemoteState(r, d)
      PROVE  CrdtTypeOK' /\ Counted'
  BY <1>4, MergeRemoteStateType, CrdtAssumption
<1>5. ASSUME NEW r \in Regions, NEW id \in Ids, ResolveConflict(r, id)
      PROVE  CrdtTypeOK' /\ Counted'
  BY <1>5, ResolveConflictType
<1>6. ASSUME NEW r \in Restarters, Restart(r) PROVE CrdtTypeOK' /\ Counted'
  BY <1>6, RestartType
<1>7. CASE UNCHANGED crdtVars
  <2>1. CrdtTypeOK'
    BY <1>7 DEF CrdtTypeOK, crdtVars, data
  <2>2. Counted'
    BY <1>7 DEF Counted, Capped, crdtVars, data
  <2> QED BY <2>1, <2>2
<1>8. ASSUME NEW d \in deltas, SerializeDelta(d) PROVE CrdtTypeOK' /\ Counted'
  BY <1>8, SerializeDeltaType
<1> QED BY <1>1, <1>2, <1>3, <1>4, <1>5, <1>6, <1>7, <1>8 DEF CrdtNext

-----------------------------------------------------------------------------
(* Last writer wins *)

\* What SetIsLastWriterWins says of one region and one id.
LwwAt(r, id) ==
  IsNewestAdd(adds[r][id], seen[r], id) /\ IsNewestRemove(removes[r][id], seen[r], id)

LEMMA InsertLww ==
  ASSUME CrdtTypeOK, Counted, SetIsLastWriterWins, NEW r \in Writers, NEW id \in Ids,
         NEW ts \in 1 .. MaxTs, LocalInsert(r, id, ts), NEW s \in Regions, NEW i \in Ids
  PROVE  LwwAt(s, i)'
<1> DEFINE op == NewOp(r, id, "insert", ts)
           entry == [ts |-> ts, val |-> Cardinality(ops) + 1]
<1>0. r \in Regions
  BY CrdtAssumption
<1>1. /\ Issue(r, id, "insert", ts) /\ Cardinality(ops) + restarts < MaxOps
      /\ removes' = removes
      /\ adds' = IF AddWins(entry, adds[r][id]) THEN [adds EXCEPT ![r][id] = entry] ELSE adds
  BY DEF LocalInsert
<1>2. op \in Op /\ Cardinality(ops) + 1 \in 1 .. MaxOps
  BY <1>1, IssueFacts
<1>3. /\ seen' = [seen EXCEPT ![r] = @ \cup {op}]
      /\ op.id = id /\ op.kind = "insert" /\ op.ts = ts /\ op.num = Cardinality(ops) + 1
  BY <1>1 DEF Issue, NewOp
<1>4. /\ entry \in Entry /\ entry.ts = op.ts /\ entry.val = op.num
  BY <1>2, <1>3 DEF Entry
<1>5. LwwAt(s, i) /\ seen[s] \subseteq Op /\ adds[s][i] \in Entry \cup {None}
  BY DEF SetIsLastWriterWins, LwwAt, CrdtTypeOK
<1>6. CASE s # r
  BY <1>0, <1>1, <1>3, <1>5, <1>6 DEF CrdtTypeOK, LwwAt
<1>7. CASE s = r /\ i # id
  <2>1. adds'[s][i] = adds[s][i] /\ seen'[s] = seen[s] \cup {op}
    BY <1>0, <1>1, <1>3, <1>7 DEF CrdtTypeOK
  <2>2. IsNewestAdd(adds[s][i], seen[s] \cup {op}, i)
    BY <1>3, <1>5, <1>7, NewestAddOther DEF LwwAt
  <2>3. IsNewestRemove(removes[s][i], seen[s] \cup {op}, i)
    BY <1>3, <1>5, <1>7, NewestRemoveOther DEF LwwAt
  <2> QED BY <1>1, <2>1, <2>2, <2>3 DEF LwwAt
<1>8. CASE s = r /\ i = id
  <2>1. /\ adds'[s][i] = IF AddWins(entry, adds[s][i]) THEN entry ELSE adds[s][i]
        /\ seen'[s] = seen[s] \cup {op}
    BY <1>0, <1>1, <1>3, <1>8 DEF CrdtTypeOK
  <2>2. IsNewestAdd(IF AddWins(entry, adds[s][i]) THEN entry ELSE adds[s][i], seen[s] \cup {op}, i)
    BY <1>2, <1>3, <1>4, <1>5, <1>8, NewestAddInsert DEF LwwAt
  <2>3. IsNewestRemove(removes[s][i], seen[s] \cup {op}, i)
    BY <1>3, <1>5, <1>8, NewestRemoveOther DEF LwwAt
  <2> QED BY <1>1, <2>1, <2>2, <2>3 DEF LwwAt
<1> QED BY <1>6, <1>7, <1>8

LEMMA DeleteLww ==
  ASSUME CrdtTypeOK, Counted, SetIsLastWriterWins, NEW r \in Writers, NEW id \in Ids,
         NEW ts \in 1 .. MaxTs, LocalDelete(r, id, ts), NEW s \in Regions, NEW i \in Ids
  PROVE  LwwAt(s, i)'
<1> DEFINE op == NewOp(r, id, "delete", ts)
<1>0. r \in Regions
  BY CrdtAssumption
<1>1. /\ Issue(r, id, "delete", ts) /\ Cardinality(ops) + restarts < MaxOps
      /\ adds' = adds
      /\ removes' = [removes EXCEPT ![r][id] = Larger(@, ts)]
  BY DEF LocalDelete
<1>2. op \in Op
  BY <1>1, IssueFacts
<1>3. /\ seen' = [seen EXCEPT ![r] = @ \cup {op}]
      /\ op.id = id /\ op.kind = "delete" /\ op.ts = ts
  BY <1>1 DEF Issue, NewOp
<1>5. LwwAt(s, i) /\ seen[s] \subseteq Op /\ removes[s][i] \in 0 .. MaxTs
  BY DEF SetIsLastWriterWins, LwwAt, CrdtTypeOK
<1>6. CASE s # r
  BY <1>0, <1>1, <1>3, <1>5, <1>6 DEF CrdtTypeOK, LwwAt
<1>7. CASE s = r /\ i # id
  <2>1. removes'[s][i] = removes[s][i] /\ seen'[s] = seen[s] \cup {op}
    BY <1>0, <1>1, <1>3, <1>7 DEF CrdtTypeOK
  <2>2. IsNewestAdd(adds[s][i], seen[s] \cup {op}, i)
    BY <1>3, <1>5, <1>7, NewestAddOther DEF LwwAt
  <2>3. IsNewestRemove(removes[s][i], seen[s] \cup {op}, i)
    BY <1>3, <1>5, <1>7, NewestRemoveOther DEF LwwAt
  <2> QED BY <1>1, <2>1, <2>2, <2>3 DEF LwwAt
<1>8. CASE s = r /\ i = id
  <2>1. /\ removes'[s][i] = Larger(removes[s][i], op.ts)
        /\ seen'[s] = seen[s] \cup {op}
    BY <1>0, <1>1, <1>3, <1>8 DEF CrdtTypeOK
  <2>2. IsNewestRemove(Larger(removes[s][i], op.ts), seen[s] \cup {op}, i)
    BY <1>2, <1>3, <1>5, <1>8, NewestRemoveDelete DEF LwwAt
  <2>3. IsNewestAdd(adds[s][i], seen[s] \cup {op}, i)
    BY <1>3, <1>5, <1>8, NewestAddOther DEF LwwAt
  <2> QED BY <1>1, <2>1, <2>2, <2>3 DEF LwwAt
<1> QED BY <1>6, <1>7, <1>8

LEMMA MergeLww ==
  ASSUME CrdtTypeOK, SetIsLastWriterWins, DeltasLww, NEW r \in Regions, NEW d \in deltas,
         MergeData(r, d), NEW s \in Regions, NEW i \in Ids
  PROVE  LwwAt(s, i)'
<1>1. /\ LwwAt(s, i) /\ seen[s] \subseteq Op
      /\ adds[s][i] \in Entry \cup {None} /\ removes[s][i] \in 0 .. MaxTs
  BY DEF SetIsLastWriterWins, LwwAt, CrdtTypeOK
<1>2. /\ d.seen \subseteq Op /\ d.adds[i] \in Entry \cup {None} /\ d.removes[i] \in 0 .. MaxTs
      /\ IsNewestAdd(d.adds[i], d.seen, i) /\ IsNewestRemove(d.removes[i], d.seen, i)
  BY DEF CrdtTypeOK, DeltasLww, Delta
<1>3. CASE s # r
  BY <1>1, <1>3 DEF CrdtTypeOK, MergeData, LwwAt
<1>4. CASE s = r
  <2>1. /\ adds'[s][i] = MergeAdd(adds[s][i], d.adds[i])
        /\ removes'[s][i] = Larger(removes[s][i], d.removes[i])
        /\ seen'[s] = seen[s] \cup d.seen
    BY <1>4 DEF CrdtTypeOK, MergeData
  <2>2. IsNewestAdd(MergeAdd(adds[s][i], d.adds[i]), seen[s] \cup d.seen, i)
    BY <1>1, <1>2, NewestAddMerge DEF LwwAt
  <2>3. IsNewestRemove(Larger(removes[s][i], d.removes[i]), seen[s] \cup d.seen, i)
    BY <1>1, <1>2, NewestRemoveMerge DEF LwwAt
  <2> QED BY <2>1, <2>2, <2>3 DEF LwwAt
<1> QED BY <1>3, <1>4

LEMMA RestartLww ==
  ASSUME CrdtTypeOK, SetIsLastWriterWins, NEW r \in Restarters, Restart(r),
         NEW s \in Regions, NEW i \in Ids
  PROVE  LwwAt(s, i)'
<1>0. r \in Regions
  BY CrdtAssumption
<1>1. LwwAt(s, i)
  BY DEF SetIsLastWriterWins, LwwAt
<1>2. CASE s # r
  BY <1>0, <1>1, <1>2 DEF CrdtTypeOK, Restart, LwwAt
<1>3. CASE s = r
  <2>1. adds'[s][i] = None /\ removes'[s][i] = 0 /\ seen'[s] = {}
    BY <1>0, <1>3 DEF CrdtTypeOK, Restart
  <2> QED BY <2>1 DEF LwwAt, IsNewestAdd, IsNewestRemove, OfKind
<1> QED BY <1>2, <1>3

LEMMA ProduceDeltaLww ==
  ASSUME SetIsLastWriterWins, DeltasLww, NEW r \in Regions, ProduceDelta(r)
  PROVE  DeltasLww'
BY DEF SetIsLastWriterWins, DeltasLww, ProduceDelta

LEMMA LwwStep == CrdtInv /\ [CrdtNext]_crdtVars => SetIsLastWriterWins' /\ DeltasLww'
<1> SUFFICES ASSUME CrdtInv, [CrdtNext]_crdtVars PROVE SetIsLastWriterWins' /\ DeltasLww'
  OBVIOUS
<1> USE DEF CrdtInv
<1>1. SetIsLastWriterWins' <=> \A s \in Regions, i \in Ids : LwwAt(s, i)'
  BY DEF SetIsLastWriterWins, LwwAt
<1>2. UNCHANGED <<adds, removes, seen>> => SetIsLastWriterWins'
  BY DEF SetIsLastWriterWins
<1>3. DeltasCopied => DeltasLww'
  BY DEF DeltasLww, DeltasCopied, CopyOf
<1>12. UNCHANGED deltas => DeltasCopied
  BY DEF DeltasCopied, CopyOf
<1>13. \A r : CutDeltas(r) => DeltasCopied
  BY CutCopies
<1>4. ASSUME NEW r \in Writers, NEW id \in Ids, NEW ts \in 1 .. MaxTs, LocalInsert(r, id, ts)
      PROVE  SetIsLastWriterWins' /\ DeltasLww'
  <2>1. DeltasCopied
    <3>1. deltas' = {Grown(r, d) : d \in deltas} /\ \A d \in deltas : CopyOf(Grown(r, d), d)
      BY <1>4 DEF LocalInsert, Grown, CopyOf, CrdtTypeOK, Delta
    <3> QED
      BY <3>1 DEF DeltasCopied
  <2> QED BY <1>1, <1>3, <1>4, <2>1, InsertLww
<1>5. ASSUME NEW r \in Writers, NEW id \in Ids, NEW ts \in 1 .. MaxTs, LocalDelete(r, id, ts)
      PROVE  SetIsLastWriterWins' /\ DeltasLww'
  <2>1. DeltasCopied
    BY <1>5, <1>12 DEF LocalDelete
  <2> QED BY <1>1, <1>3, <1>5, <2>1, DeleteLww
<1>6. ASSUME NEW r \in Regions, NEW d \in deltas, MergeDelta(r, d) \/ MergeRemoteState(r, d)
      PROVE  SetIsLastWriterWins' /\ DeltasLww'
  <2>1. MergeData(r, d) /\ DeltasCopied
    BY <1>6, <1>13 DEF MergeDelta, MergeRemoteState
  <2> QED BY <1>1, <1>3, <2>1, MergeLww
<1>7. ASSUME NEW r \in Regions, ProduceDelta(r) PROVE SetIsLastWriterWins' /\ DeltasLww'
  <2>1. UNCHANGED <<adds, removes, seen>>
    BY <1>7 DEF ProduceDelta, data
  <2> QED BY <1>2, <1>7, <2>1, ProduceDeltaLww
<1>8. ASSUME NEW r \in Restarters, Restart(r) PROVE SetIsLastWriterWins' /\ DeltasLww'
  <2>1. DeltasCopied
    BY <1>8, <1>13 DEF Restart
  <2> QED BY <1>1, <1>3, <1>8, <2>1, RestartLww
<1>9. ASSUME NEW r \in Regions, NEW id \in Ids, ResolveConflict(r, id)
      PROVE  SetIsLastWriterWins' /\ DeltasLww'
  BY <1>2, <1>3, <1>9, <1>12 DEF ResolveConflict, data
<1>10. CASE UNCHANGED crdtVars
  BY <1>2, <1>3, <1>10, <1>12 DEF crdtVars, data
<1>11. Importers \subseteq Regions
  BY CrdtAssumption
<1>14. ASSUME NEW d \in deltas, SerializeDelta(d) PROVE SetIsLastWriterWins' /\ DeltasLww'
  <2>1. UNCHANGED <<adds, removes, seen>> /\ DeltasCopied
    BY <1>14, CutCopies DEF SerializeDelta, data
  <2> QED BY <1>2, <1>3, <2>1
<1> QED BY <1>4, <1>5, <1>6, <1>7, <1>8, <1>9, <1>10, <1>11, <1>14 DEF CrdtNext

-----------------------------------------------------------------------------
(* Theorems *)

\* Every region's set, and every delta in transit, is the last-writer-wins image of
\* the operations behind it; counts and clocks never exceed what was issued.
THEOREM CrdtInvariant == CrdtSpec => []CrdtInv
<1>1. CrdtInit => CrdtInv
  <2>1. CrdtInit => SetIsLastWriterWins /\ DeltasLww
    BY DEF CrdtInit, SetIsLastWriterWins, DeltasLww, IsNewestAdd, IsNewestRemove, OfKind
  <2> QED BY <2>1, TypeInit DEF CrdtInv
<1>2. CrdtInv /\ [CrdtNext]_crdtVars => CrdtInv'
  BY TypeStep, LwwStep DEF CrdtInv
<1> QED BY <1>1, <1>2, PTL DEF CrdtSpec

\* Types, with clocks and counters within the number of operations.
THEOREM CrdtTypeCorrect == CrdtSpec => []CrdtTypeOK
<1>1. CrdtInv => CrdtTypeOK
  BY DEF CrdtInv
<1> QED BY <1>1, CrdtInvariant, PTL

\* LWWElementSet computes last-writer-wins whatever the order, loss or repetition of deltas.
THEOREM MergeIsLastWriterWins == CrdtSpec => []SetIsLastWriterWins
<1>1. CrdtInv => SetIsLastWriterWins
  BY DEF CrdtInv
<1> QED BY <1>1, CrdtInvariant, PTL

\* Regions that have seen the same operations agree, ties of stamps apart.
LEMMA SameOpsSameAnswer == CrdtInv => Converged
<1> SUFFICES ASSUME CrdtInv, NEW r \in Regions, NEW s \in Regions, NEW id \in Ids,
                    seen[r] = seen[s], ~TiedInserts(seen[r], id)
             PROVE  Lookup(adds[r][id], removes[r][id]) = Lookup(adds[s][id], removes[s][id])
  BY DEF Converged
<1>1. /\ adds[r][id] \in Entry \cup {None} /\ adds[s][id] \in Entry \cup {None}
      /\ removes[r][id] \in 0 .. MaxTs /\ removes[s][id] \in 0 .. MaxTs
      /\ seen[r] \subseteq Op
  BY DEF CrdtInv, CrdtTypeOK
<1>2. /\ IsNewestAdd(adds[r][id], seen[r], id) /\ IsNewestAdd(adds[s][id], seen[r], id)
      /\ IsNewestRemove(removes[r][id], seen[r], id) /\ IsNewestRemove(removes[s][id], seen[r], id)
  BY DEF CrdtInv, SetIsLastWriterWins
<1>3. removes[r][id] = removes[s][id]
  BY <1>1, <1>2 DEF IsNewestRemove, OfKind, Op
<1>4. adds[r][id] = None <=> adds[s][id] = None
  BY <1>2 DEF IsNewestAdd
<1>5. ASSUME adds[r][id] # None
      PROVE  adds[r][id].ts = adds[s][id].ts /\ adds[r][id].val = adds[s][id].val
  <2>1. PICK a \in OfKind(seen[r], id, "insert") : a.ts = adds[r][id].ts /\ a.num = adds[r][id].val
    BY <1>2, <1>5 DEF IsNewestAdd
  <2>2. PICK b \in OfKind(seen[r], id, "insert") : b.ts = adds[s][id].ts /\ b.num = adds[s][id].val
    BY <1>2, <1>4, <1>5 DEF IsNewestAdd
  <2>3. a.ts <= b.ts /\ b.ts <= a.ts /\ a.ts \in Nat /\ b.ts \in Nat
    BY <1>1, <1>2, <1>4, <1>5, <2>1, <2>2 DEF IsNewestAdd, OfKind, Op
  <2>4. a = b
    BY <2>3 DEF TiedInserts
  <2> QED BY <2>1, <2>2, <2>4
<1> QED BY <1>3, <1>4, <1>5 DEF Lookup

THEOREM RegionsConverge == CrdtSpec => []Converged
BY SameOpsSameAnswer, CrdtInvariant, PTL

-----------------------------------------------------------------------------
(***************************************************************************)
(* Clocks.  What a region knows of another region's operations is a prefix *)
(* of them, so what two parties know of one region is nested, and the slot *)
(* that counts them tells which is the larger.                             *)
(***************************************************************************)
PrefixOf(S, all) ==
  \A o \in S, p \in all : p.region = o.region /\ p.num <= o.num => p \in S

Chain(S, id, m) == {o \in S : o.id = id /\ o.region = m}
OwnOps(r) == {o \in ops : o.region = r}

ClocksCount(clock, S) ==
  \A id \in Ids, m \in Regions : clock[id][m] = Cardinality(Chain(S, id, m))

CounterCounts(count, S) ==
  \A m \in Regions :
    Cardinality(Inserts(S, m)) <= count[m] /\ count[m] <= Cardinality(Inserts(ops, m))

ConcurrentOps(a, b) ==
  a.id = b.id /\ a # b /\ a.num \notin b.deps /\ b.num \notin a.deps

AllIn(S, pairs) == \A a, b \in S : ConcurrentOps(a, b) => {a, b} \in pairs

\* What a region and a delta know until a clock file is lost, and the data they hold
\* until a restart.
RegionKnows(r) ==
  /\ OwnOps(r) \subseteq known[r]
  /\ PrefixOf(known[r], ops)
  /\ ClocksCount(clocks[r], known[r])
  /\ AllIn(known[r], flagged)

DeltaKnows(d) ==
  PrefixOf(d.known, ops) /\ ClocksCount(d.clocks, d.known) /\ AllIn(d.known, flagged)

RegionHolds(r) ==
  /\ OwnOps(r) \subseteq seen[r]
  /\ PrefixOf(seen[r], ops)
  /\ CounterCounts(counts[r], seen[r])
  /\ known[r] \subseteq seen[r]

DeltaHolds(d) ==
  PrefixOf(d.seen, ops) /\ CounterCounts(d.counts, d.seen) /\ d.known \subseteq d.seen

KnowledgeInv ==
  ~clockLost => (\A r \in Regions : RegionKnows(r)) /\ (\A d \in deltas : DeltaKnows(d))

HeldInv ==
  restarts = 0 => (\A r \in Regions : RegionHolds(r)) /\ (\A d \in deltas : DeltaHolds(d))

LEMMA CopyKnows ==
  ASSUME NEW e, NEW d, CopyOf(e, d), DeltaKnows(d)
  PROVE  DeltaKnows(e)
BY DEF CopyOf, DeltaKnows

LEMMA CopyHolds ==
  ASSUME NEW e, NEW d, CopyOf(e, d), e.counts = d.counts, DeltaHolds(d)
  PROVE  DeltaHolds(e)
BY DEF CopyOf, DeltaHolds

LEMMA NestedCounts ==
  ASSUME NEW A, NEW B, IsFiniteSet(A), IsFiniteSet(B), A \subseteq B \/ B \subseteq A
  PROVE  /\ Cardinality(A) \in Nat /\ Cardinality(B) \in Nat
         /\ Cardinality(A) <= Cardinality(B) <=> A \subseteq B
         /\ Larger(Cardinality(A), Cardinality(B)) = Cardinality(A \cup B)
<1>1. Cardinality(A) \in Nat /\ Cardinality(B) \in Nat
  BY FS_CardinalityType
<1>2. CASE A \subseteq B
  <2>1. Cardinality(A) <= Cardinality(B) /\ A \cup B = B
    BY <1>2, FS_Subset
  <2> QED BY <1>1, <1>2, <2>1 DEF Larger
<1>3. CASE B \subseteq A
  <2>1. /\ Cardinality(B) <= Cardinality(A) /\ A \cup B = A
        /\ Cardinality(A) = Cardinality(B) => A = B
    BY <1>3, FS_Subset
  <2>2. Larger(Cardinality(A), Cardinality(B)) = Cardinality(A \cup B)
    BY <1>1, <2>1 DEF Larger
  <2> QED BY <1>1, <1>3, <2>1, <2>2
<1> QED BY <1>2, <1>3

\* Two prefixes of the operations agree on one region up to the shorter of them.
LEMMA PrefixesNest ==
  ASSUME CrdtTypeOK, NEW S, NEW T, S \subseteq ops, T \subseteq ops,
         PrefixOf(S, ops), PrefixOf(T, ops), NEW m \in Regions
  PROVE  /\ Inserts(S, m) \subseteq Inserts(T, m) \/ Inserts(T, m) \subseteq Inserts(S, m)
         /\ \A id : Chain(S, id, m) \subseteq Chain(T, id, m) \/ Chain(T, id, m) \subseteq Chain(S, id, m)
<1>1. \A o \in ops : o.num \in Nat
  BY DEF CrdtTypeOK, Op
<1>2. ASSUME NEW o \in S, NEW p \in T, o.region = m, p.region = m
      PROVE  o \in T \/ p \in S
  <2>1. o.num <= p.num \/ p.num <= o.num
    BY <1>1
  <2> QED BY <1>2, <2>1 DEF PrefixOf
<1> QED BY <1>2 DEF Inserts, Chain

LEMMA FiniteParts ==
  ASSUME Counted, NEW S, S \subseteq ops
  PROVE  \A m : IsFiniteSet(Inserts(S, m)) /\ \A id : IsFiniteSet(Chain(S, id, m))
<1>1. \A P \in SUBSET ops : IsFiniteSet(P)
  BY FS_Subset DEF Counted
<1> QED BY <1>1 DEF Inserts, Chain

LEMMA ClocksCompare ==
  ASSUME CrdtTypeOK, Counted, NEW S, NEW T, S \subseteq ops, T \subseteq ops,
         PrefixOf(S, ops), PrefixOf(T, ops), NEW a, NEW b, ClocksCount(a, S), ClocksCount(b, T),
         NEW id \in Ids
  PROVE  /\ (\A m \in Regions : a[id][m] <= b[id][m]) <=> OnId(S, id) \subseteq T
         /\ \A m \in Regions : a[id][m] \in Nat /\ b[id][m] \in Nat
<1>1. ASSUME NEW m \in Regions
      PROVE  /\ a[id][m] \in Nat /\ b[id][m] \in Nat
             /\ a[id][m] <= b[id][m] <=> Chain(S, id, m) \subseteq Chain(T, id, m)
  <2>1. a[id][m] = Cardinality(Chain(S, id, m)) /\ b[id][m] = Cardinality(Chain(T, id, m))
    BY DEF ClocksCount
  <2>2. \/ Chain(S, id, m) \subseteq Chain(T, id, m)
        \/ Chain(T, id, m) \subseteq Chain(S, id, m)
    BY PrefixesNest
  <2>3. IsFiniteSet(Chain(S, id, m)) /\ IsFiniteSet(Chain(T, id, m))
    BY FiniteParts
  <2> QED BY <2>1, <2>2, <2>3, NestedCounts, SMTT(30)
<1>2. \A o \in S : o.region \in Regions
  BY DEF CrdtTypeOK, Op
<1>3. (\A m \in Regions : Chain(S, id, m) \subseteq Chain(T, id, m)) <=> OnId(S, id) \subseteq T
  BY <1>2 DEF Chain, OnId
<1> QED BY <1>1, <1>3

LEMMA HappensBeforeCompares ==
  ASSUME CrdtTypeOK, Counted, NEW S, NEW T, S \subseteq ops, T \subseteq ops,
         PrefixOf(S, ops), PrefixOf(T, ops), NEW a, NEW b, ClocksCount(a, S), ClocksCount(b, T),
         NEW id \in Ids
  PROVE  HappensBefore(a[id], b[id]) <=> OnId(S, id) \subseteq T /\ ~ OnId(T, id) \subseteq S
<1>1. /\ (\A m \in Regions : a[id][m] <= b[id][m]) <=> OnId(S, id) \subseteq T
      /\ \A m \in Regions : a[id][m] \in Nat /\ b[id][m] \in Nat
  BY ClocksCompare
<1>2. (\A m \in Regions : b[id][m] <= a[id][m]) <=> OnId(T, id) \subseteq S
  BY ClocksCompare
<1>3. (\E m \in Regions : a[id][m] < b[id][m]) <=> ~ (\A m \in Regions : b[id][m] <= a[id][m])
  BY <1>1
<1> QED BY <1>1, <1>2, <1>3 DEF HappensBefore

\* What a merge makes of two prefixes.
LEMMA MergePrefix ==
  ASSUME NEW S, NEW T, PrefixOf(S, ops), PrefixOf(T, ops)
  PROVE  PrefixOf(S \cup T, ops)
BY DEF PrefixOf

LEMMA MergeInserts ==
  ASSUME CrdtTypeOK, Counted, NEW S, NEW T, S \subseteq ops, T \subseteq ops,
         PrefixOf(S, ops), PrefixOf(T, ops), NEW m \in Regions
  PROVE  Larger(Cardinality(Inserts(S, m)), Cardinality(Inserts(T, m)))
           = Cardinality(Inserts(S \cup T, m))
<1>1. Inserts(S \cup T, m) = Inserts(S, m) \cup Inserts(T, m)
  BY DEF Inserts
<1>2. IsFiniteSet(Inserts(S, m)) /\ IsFiniteSet(Inserts(T, m))
  BY FiniteParts
<1>3. Inserts(S, m) \subseteq Inserts(T, m) \/ Inserts(T, m) \subseteq Inserts(S, m)
  BY PrefixesNest
<1>4. Larger(Cardinality(Inserts(S, m)), Cardinality(Inserts(T, m)))
        = Cardinality(Inserts(S, m) \cup Inserts(T, m))
  BY <1>2, <1>3, NestedCounts
<1> QED BY <1>1, <1>4

LEMMA MergeChain ==
  ASSUME CrdtTypeOK, Counted, NEW S, NEW T, S \subseteq ops, T \subseteq ops,
         PrefixOf(S, ops), PrefixOf(T, ops), NEW id, NEW m \in Regions
  PROVE  Larger(Cardinality(Chain(S, id, m)), Cardinality(Chain(T, id, m)))
           = Cardinality(Chain(S \cup T, id, m))
<1>1. Chain(S \cup T, id, m) = Chain(S, id, m) \cup Chain(T, id, m)
  BY DEF Chain
<1>2. IsFiniteSet(Chain(S, id, m)) /\ IsFiniteSet(Chain(T, id, m))
  BY FiniteParts
<1>3. Chain(S, id, m) \subseteq Chain(T, id, m) \/ Chain(T, id, m) \subseteq Chain(S, id, m)
  BY PrefixesNest
<1>4. Larger(Cardinality(Chain(S, id, m)), Cardinality(Chain(T, id, m)))
        = Cardinality(Chain(S, id, m) \cup Chain(T, id, m))
  BY <1>2, <1>3, NestedCounts
<1> QED BY <1>1, <1>4

-----------------------------------------------------------------------------
(* Every step keeps the clocks counting *)

\* An operation issued later than all others leaves old prefixes prefixes.
LEMMA IssuePrefix ==
  ASSUME CrdtTypeOK, Counted, NEW op, op.num = Cardinality(ops) + 1, ops' = ops \cup {op},
         NEW S, S \subseteq ops, PrefixOf(S, ops)
  PROVE  /\ PrefixOf(S, ops')
         /\ (\A o \in ops : o.region = op.region => o \in S) => PrefixOf(S \cup {op}, ops')
<1>1. Cardinality(ops) \in Nat /\ \A o \in ops : o.num \in Nat /\ o.num <= Cardinality(ops)
  BY FS_CardinalityType DEF Counted, CrdtTypeOK, Op
<1>2. \A o \in ops : ~(op.num <= o.num)
  BY <1>1
<1>3. PrefixOf(S, ops')
  BY <1>2 DEF PrefixOf
<1>4. ASSUME \A o \in ops : o.region = op.region => o \in S
      PROVE  PrefixOf(S \cup {op}, ops')
  BY <1>2, <1>4 DEF PrefixOf
<1> QED BY <1>3, <1>4

\* The counts of a set to which one operation is added.
LEMMA AddedCounts ==
  ASSUME CrdtTypeOK, Counted, NEW S, S \subseteq ops, NEW op \in Op, op \notin S
  PROVE  /\ \A m \in Regions :
              Cardinality(Inserts(S \cup {op}, m)) =
                IF m = op.region /\ op.kind = "insert" THEN Cardinality(Inserts(S, m)) + 1
                ELSE Cardinality(Inserts(S, m))
         /\ \A id \in Ids, m \in Regions :
              Cardinality(Chain(S \cup {op}, id, m)) =
                IF m = op.region /\ id = op.id THEN Cardinality(Chain(S, id, m)) + 1
                ELSE Cardinality(Chain(S, id, m))
<1>1. ASSUME NEW m \in Regions
      PROVE  Cardinality(Inserts(S \cup {op}, m)) =
                IF m = op.region /\ op.kind = "insert" THEN Cardinality(Inserts(S, m)) + 1
                ELSE Cardinality(Inserts(S, m))
  <2>1. CASE m = op.region /\ op.kind = "insert"
    <3>1. Inserts(S \cup {op}, m) = Inserts(S, m) \cup {op} /\ op \notin Inserts(S, m)
      BY <2>1 DEF Inserts
    <3>2. IsFiniteSet(Inserts(S, m))
      BY FiniteParts
    <3>3. Cardinality(Inserts(S, m) \cup {op}) = Cardinality(Inserts(S, m)) + 1
      BY <3>1, <3>2, FS_AddElement
    <3> QED BY <2>1, <3>1, <3>3
  <2>2. CASE ~(m = op.region /\ op.kind = "insert")
    <3>1. Inserts(S \cup {op}, m) = Inserts(S, m)
      BY <2>2 DEF Inserts
    <3> QED BY <2>2, <3>1
  <2> QED BY <2>1, <2>2
<1>2. ASSUME NEW id \in Ids, NEW m \in Regions
      PROVE  Cardinality(Chain(S \cup {op}, id, m)) =
                IF m = op.region /\ id = op.id THEN Cardinality(Chain(S, id, m)) + 1
                ELSE Cardinality(Chain(S, id, m))
  <2>1. CASE m = op.region /\ id = op.id
    <3>1. Chain(S \cup {op}, id, m) = Chain(S, id, m) \cup {op} /\ op \notin Chain(S, id, m)
      BY <2>1 DEF Chain
    <3>2. IsFiniteSet(Chain(S, id, m))
      BY FiniteParts
    <3>3. Cardinality(Chain(S, id, m) \cup {op}) = Cardinality(Chain(S, id, m)) + 1
      BY <3>1, <3>2, FS_AddElement
    <3> QED BY <2>1, <3>1, <3>3
  <2>2. CASE ~(m = op.region /\ id = op.id)
    <3>1. Chain(S \cup {op}, id, m) = Chain(S, id, m)
      BY <2>2 DEF Chain
    <3> QED BY <2>2, <3>1
  <2> QED BY <2>1, <2>2
<1> QED BY <1>1, <1>2

LEMMA IssueKnowledge ==
  ASSUME CrdtTypeOK, Counted, KnowledgeInv, NEW r \in Writers, NEW id \in Ids,
         NEW ts \in 1 .. MaxTs, NEW kind \in {"insert", "delete"},
         Cardinality(ops) + restarts < MaxOps, Issue(r, id, kind, ts),
         DeltasCopied, UNCHANGED <<restarts, clockLost, flagged>>
  PROVE  KnowledgeInv'
<1> DEFINE op == NewOp(r, id, kind, ts)
<1>0. r \in Regions
  BY CrdtAssumption
<1>1. op \in Op /\ ops' = ops \cup {op} /\ op \notin ops
  BY IssueFacts
<1>2. /\ known' = [known EXCEPT ![r] = @ \cup {op}]
      /\ clocks' = [clocks EXCEPT ![r][id][r] = @ + 1]
  BY DEF Issue, NewOp
<1>3. /\ op.num = Cardinality(ops) + 1 /\ op.region = r /\ op.id = id
      /\ op.deps = {o.num : o \in OnId(known[r], id)}
  BY DEF NewOp
<1>4. \A s \in Regions : known[s] \subseteq ops
  BY DEF CrdtTypeOK
<1>5. ASSUME ~clockLost, NEW s \in Regions PROVE RegionKnows(s)'
  <2>1. RegionKnows(s)
    BY <1>5 DEF KnowledgeInv
  <2>2. CASE s # r
    <3>1. known'[s] = known[s] /\ clocks'[s] = clocks[s]
      BY <1>2, <2>2 DEF CrdtTypeOK
    <3>2. OwnOps(s)' = OwnOps(s)
      BY <1>1, <1>3, <2>2 DEF OwnOps
    <3>3. PrefixOf(known'[s], ops')
      BY <1>1, <1>3, <1>4, <2>1, <3>1, IssuePrefix DEF RegionKnows
    <3> QED BY <2>1, <3>1, <3>2, <3>3 DEF RegionKnows, ClocksCount, AllIn
  <2>3. CASE s = r
    <3>1. known'[r] = known[r] \cup {op}
      BY <1>0, <1>2 DEF CrdtTypeOK
    <3>2. OwnOps(r)' \subseteq known'[r]
      BY <1>1, <2>1, <2>3, <3>1 DEF OwnOps, RegionKnows
    <3>3. PrefixOf(known'[r], ops')
      <4>1. \A o \in ops : o.region = op.region => o \in known[r]
        BY <1>3, <2>1, <2>3 DEF RegionKnows, OwnOps
      <4>2. PrefixOf(known[r] \cup {op}, ops')
        BY <1>0, <1>1, <1>3, <1>4, <2>1, <2>3, <4>1, IssuePrefix DEF RegionKnows
      <4> QED BY <1>1, <3>1, <4>2 DEF PrefixOf
    <3>4. ASSUME NEW i \in Ids, NEW m \in Regions
          PROVE  clocks'[r][i][m] = Cardinality(Chain(known'[r], i, m))
      <4>1. clocks'[r][i][m] =
              IF m = op.region /\ i = op.id THEN clocks[r][i][m] + 1 ELSE clocks[r][i][m]
        BY <1>0, <1>2, <1>3 DEF CrdtTypeOK, Clock
      <4>2. clocks[r][i][m] = Cardinality(Chain(known[r], i, m))
        BY <2>1, <2>3 DEF RegionKnows, ClocksCount
      <4>3. op \notin known[r]
        BY <1>0, <1>1, <1>4
      <4>4. Cardinality(Chain(known[r] \cup {op}, i, m)) =
              IF m = op.region /\ i = op.id THEN Cardinality(Chain(known[r], i, m)) + 1
              ELSE Cardinality(Chain(known[r], i, m))
        <5>1. PICK o \in Op : o = op
          BY <1>1
        <5>2. PICK S : S = known[r]
          OBVIOUS
        <5>3. S \subseteq ops /\ o \notin S
          BY <1>0, <1>4, <4>3, <5>1, <5>2
        <5>4. Cardinality(Chain(S \cup {o}, i, m)) =
                IF m = o.region /\ i = o.id THEN Cardinality(Chain(S, i, m)) + 1
                ELSE Cardinality(Chain(S, i, m))
          BY <5>3, AddedCounts
        <5> HIDE DEF op
        <5> QED BY ONLY <5>1, <5>2, <5>4
      <4> QED BY <3>1, <4>1, <4>2, <4>4
    <3>5. AllIn(known'[r], flagged')
      <4>1. \A a \in known[r] : ~ConcurrentOps(a, op) /\ ~ConcurrentOps(op, a)
        BY <1>3 DEF ConcurrentOps, OnId
      <4>2. ~ConcurrentOps(op, op)
        BY DEF ConcurrentOps
      <4>3. AllIn(known[r], flagged)
        BY <2>1, <2>3 DEF RegionKnows
      <4> QED BY <3>1, <4>1, <4>2, <4>3 DEF AllIn
    <3> QED BY <2>3, <3>2, <3>3, <3>4, <3>5 DEF RegionKnows, ClocksCount
  <2> QED BY <2>2, <2>3
<1>6. ASSUME ~clockLost, NEW e \in deltas' PROVE DeltaKnows(e)'
  <2>0. PICK d \in deltas : CopyOf(e, d)
    BY DEF DeltasCopied
  <2>1. DeltaKnows(d) /\ d.known \subseteq ops
    BY <1>6 DEF KnowledgeInv, CrdtTypeOK
  <2>2. PrefixOf(d.known, ops')
    BY <1>1, <1>3, <2>1, IssuePrefix DEF DeltaKnows
  <2> QED BY <2>0, <2>1, <2>2 DEF CopyOf, DeltaKnows, ClocksCount, AllIn
<1> QED BY <1>5, <1>6 DEF KnowledgeInv

LEMMA MergeKnowledge ==
  ASSUME CrdtTypeOK, Counted, KnowledgeInv, NEW r \in Regions, NEW d \in deltas, MergeDelta(r, d)
  PROVE  KnowledgeInv'
<1>1. /\ clocks' = [clocks EXCEPT ![r] = MergeClocks(r, d)]
      /\ known' = [known EXCEPT ![r] = @ \cup d.known]
      /\ flagged' = flagged \cup
           {{a, b} : a \in {o \in known[r] : o.id \in Reported(r, d)},
                     b \in {o \in d.known : o.id \in Reported(r, d)}}
      /\ CutDeltas(r) /\ UNCHANGED <<ops, clockLost>>
  BY DEF MergeDelta
<1>2. d.known \subseteq ops /\ \A s \in Regions : known[s] \subseteq ops
  BY DEF CrdtTypeOK
<1>3. \A S : AllIn(S, flagged) => AllIn(S, flagged')
  BY <1>1 DEF AllIn
<1>4. ASSUME ~clockLost, NEW e \in deltas' PROVE DeltaKnows(e)'
  <2>1. PICK c \in deltas : CopyOf(e, c)
    BY <1>1, CutCopies DEF DeltasCopied
  <2>2. DeltaKnows(e)
    BY <1>4, <2>1, CopyKnows DEF KnowledgeInv
  <2> QED BY <1>1, <1>3, <2>2 DEF DeltaKnows, ClocksCount
<1>5. ASSUME ~clockLost, NEW s \in Regions PROVE RegionKnows(s)'
  <2>1. RegionKnows(s) /\ RegionKnows(r) /\ DeltaKnows(d)
    BY <1>5 DEF KnowledgeInv
  <2>2. CASE s # r
    <3>1. known'[s] = known[s] /\ clocks'[s] = clocks[s]
      BY <1>1, <2>2 DEF CrdtTypeOK
    <3>2. AllIn(known'[s], flagged')
      BY <1>3, <2>1, <3>1 DEF RegionKnows
    <3> QED BY <1>1, <2>1, <3>1, <3>2 DEF RegionKnows, ClocksCount, OwnOps
  <2>3. CASE s = r
    <3>1. known'[r] = known[r] \cup d.known
      BY <1>1 DEF CrdtTypeOK
    <3>2. OwnOps(r)' \subseteq known'[r]
      BY <1>1, <2>1, <3>1 DEF OwnOps, RegionKnows
    <3>0. /\ known[r] \subseteq ops /\ d.known \subseteq ops
          /\ PrefixOf(known[r], ops) /\ PrefixOf(d.known, ops)
      BY <1>2, <2>1 DEF RegionKnows, DeltaKnows
    <3>3. PrefixOf(known'[r], ops')
      BY <1>1, <3>0, <3>1, MergePrefix
    <3>4. ASSUME NEW i \in Ids, NEW m \in Regions
          PROVE  clocks'[r][i][m] = Cardinality(Chain(known'[r], i, m))
      <4>1. clocks'[r][i][m] = Larger(clocks[r][i][m], d.clocks[i][m])
        BY <1>1 DEF CrdtTypeOK, MergeClocks
      <4>2. /\ clocks[r][i][m] = Cardinality(Chain(known[r], i, m))
            /\ d.clocks[i][m] = Cardinality(Chain(d.known, i, m))
        BY <2>1 DEF RegionKnows, DeltaKnows, ClocksCount
      <4>3. Larger(Cardinality(Chain(known[r], i, m)), Cardinality(Chain(d.known, i, m)))
              = Cardinality(Chain(known[r] \cup d.known, i, m))
        BY <3>0, MergeChain
      <4>4. clocks'[r][i][m] = Cardinality(Chain(known[r] \cup d.known, i, m))
        BY <4>1, <4>2, <4>3, Zenon
      <4> QED BY <3>1, <4>4
    <3>5. ASSUME NEW a \in known[r], a \notin d.known, NEW b \in d.known, b \notin known[r],
                 a.id = b.id
          PROVE  {a, b} \in flagged'
      <4>1. a.id \in Ids /\ b.region \in Regions
        BY <1>2 DEF CrdtTypeOK, Op
      <4>2. ~ OnId(known[r], a.id) \subseteq d.known /\ ~ OnId(d.known, a.id) \subseteq known[r]
        BY <3>5 DEF OnId
      <4>3. Concurrent(clocks[r][a.id], d.clocks[a.id])
        <5>1. ~ HappensBefore(clocks[r][a.id], d.clocks[a.id])
          BY <1>2, <2>1, <4>1, <4>2, HappensBeforeCompares DEF RegionKnows, DeltaKnows
        <5>2. ~ HappensBefore(d.clocks[a.id], clocks[r][a.id])
          BY <1>2, <2>1, <4>1, <4>2, HappensBeforeCompares DEF RegionKnows, DeltaKnows
        <5> QED BY <5>1, <5>2 DEF Concurrent
      <4>4. d.clocks[a.id] # NoClock
        <5>1. b \in Chain(d.known, a.id, b.region)
          BY <3>5 DEF Chain
        <5>2. IsFiniteSet(Chain(d.known, a.id, b.region))
          BY <1>2, FiniteParts
        <5>3. Cardinality(Chain(d.known, a.id, b.region)) # 0
          BY <5>1, <5>2, FS_EmptySet
        <5> QED BY <2>1, <4>1, <5>3 DEF DeltaKnows, ClocksCount, NoClock
      <4>5. a.id \in Reported(r, d)
        BY <4>1, <4>3, <4>4 DEF Reported
      <4> QED BY <1>1, <3>5, <4>5
    <3>6. AllIn(known[r] \cup d.known, flagged')
      <4>1. \A a, b : {a, b} = {b, a}
        OBVIOUS
      <4>2. AllIn(known[r], flagged) /\ AllIn(d.known, flagged)
        BY <2>1 DEF RegionKnows, DeltaKnows
      <4>3. ASSUME NEW a \in known[r] \cup d.known, NEW b \in known[r] \cup d.known,
                   ConcurrentOps(a, b)
            PROVE  {a, b} \in flagged'
        <5>1. a.id = b.id
          BY <4>3 DEF ConcurrentOps
        <5>2. CASE (a \in known[r] /\ b \in known[r]) \/ (a \in d.known /\ b \in d.known)
          BY <1>1, <4>2, <4>3, <5>2 DEF AllIn
        <5>3. CASE a \in known[r] /\ a \notin d.known /\ b \in d.known /\ b \notin known[r]
          BY <3>5, <5>1, <5>3
        <5>4. CASE b \in known[r] /\ b \notin d.known /\ a \in d.known /\ a \notin known[r]
          BY <3>5, <4>1, <5>1, <5>4
        <5> QED BY <5>2, <5>3, <5>4
      <4> QED BY <4>3 DEF AllIn
    <3> QED BY <2>3, <3>1, <3>2, <3>3, <3>4, <3>6 DEF RegionKnows, ClocksCount, AllIn
  <2> QED BY <2>2, <2>3
<1> QED BY <1>1, <1>4, <1>5 DEF KnowledgeInv

\* A step that adds no knowledge.
LEMMA StillKnown ==
  ASSUME KnowledgeInv, DeltasCopied, UNCHANGED <<clocks, ops, known, flagged, clockLost>>
  PROVE  KnowledgeInv'
<1>1. ~clockLost => \A r \in Regions : RegionKnows(r)'
  BY DEF KnowledgeInv, RegionKnows, ClocksCount, AllIn, OwnOps
<1>2. ~clockLost => \A e \in deltas' : DeltaKnows(e)
  BY CopyKnows DEF KnowledgeInv, DeltasCopied
<1>3. \A e : DeltaKnows(e) => DeltaKnows(e)'
  BY DEF DeltaKnows
<1> QED BY <1>1, <1>2, <1>3 DEF KnowledgeInv

LEMMA RestartKnowledge ==
  ASSUME CrdtTypeOK, KnowledgeInv, NEW r \in Restarters, Restart(r)
  PROVE  KnowledgeInv'
<1>1. CASE UNCHANGED <<clocks, known, clockLost>>
  <2>1. DeltasCopied /\ UNCHANGED <<ops, flagged>>
    BY CutCopies DEF Restart
  <2> QED BY <1>1, <2>1, StillKnown
<1>2. CASE clockLost' = TRUE
  BY <1>2 DEF KnowledgeInv
<1> QED BY <1>1, <1>2 DEF Restart

LEMMA ProduceKnowledge ==
  ASSUME CrdtTypeOK, KnowledgeInv, NEW r \in Regions, ProduceDelta(r)
  PROVE  KnowledgeInv'
<1> DEFINE d == [sharer |-> IF r \in Writers THEN r ELSE None, adds |-> adds[r],
                 removes |-> removes[r], counts |-> counts[r], clocks |-> clocks[r],
                 seen |-> seen[r], known |-> known[r]]
<1>1. /\ deltas' = deltas \cup {d}
      /\ UNCHANGED <<clocks, ops, known, flagged, clockLost>>
  BY DEF ProduceDelta
<1>2. ~clockLost => \A e \in deltas \cup {d} : DeltaKnows(e)
  BY DEF KnowledgeInv, RegionKnows, DeltaKnows
<1>3. ~clockLost => \A s \in Regions : RegionKnows(s)'
  BY <1>1 DEF KnowledgeInv, RegionKnows, ClocksCount, AllIn, OwnOps
<1>4. \A e : DeltaKnows(e) => DeltaKnows(e)'
  BY <1>1 DEF DeltaKnows
<1> QED BY <1>1, <1>2, <1>3, <1>4 DEF KnowledgeInv

LEMMA KnowledgeStep == CrdtInv /\ KnowledgeInv /\ [CrdtNext]_crdtVars => KnowledgeInv'
<1> SUFFICES ASSUME CrdtTypeOK, Counted, KnowledgeInv, [CrdtNext]_crdtVars PROVE KnowledgeInv'
  BY DEF CrdtInv
<1>1. ASSUME NEW r \in Writers, NEW id \in Ids, NEW ts \in 1 .. MaxTs,
             LocalInsert(r, id, ts) \/ LocalDelete(r, id, ts)
      PROVE  KnowledgeInv'
  <2>1. CASE LocalInsert(r, id, ts)
    <3>1. DeltasCopied
      BY <2>1, InsertCopies
    <3> QED BY <2>1, <3>1, IssueKnowledge DEF LocalInsert
  <2>2. CASE LocalDelete(r, id, ts)
    <3>1. DeltasCopied
      BY <2>2, CutCopies DEF LocalDelete
    <3> QED BY <2>2, <3>1, IssueKnowledge DEF LocalDelete
  <2> QED BY <1>1, <2>1, <2>2
<1>2. ASSUME NEW r \in Regions, ProduceDelta(r) PROVE KnowledgeInv'
  BY <1>2, ProduceKnowledge
<1>3. ASSUME NEW r \in Regions, NEW d \in deltas, MergeDelta(r, d) PROVE KnowledgeInv'
  BY <1>3, MergeKnowledge
<1>4. ASSUME NEW r \in Restarters, Restart(r) PROVE KnowledgeInv'
  BY <1>4, RestartKnowledge
<1>5. ASSUME NEW d \in deltas, SerializeDelta(d) PROVE KnowledgeInv'
  <2>1. DeltasCopied
    BY <1>5, CutCopies
  <2> QED BY <1>5, <2>1, StillKnown DEF SerializeDelta
<1>6. ASSUME NEW r \in Importers, NEW d \in deltas, MergeRemoteState(r, d) PROVE KnowledgeInv'
  <2>1. DeltasCopied
    BY <1>6, CutCopies DEF MergeRemoteState
  <2> QED BY <1>6, <2>1, StillKnown DEF MergeRemoteState
<1>7. ASSUME NEW r \in Regions, NEW id \in Ids, ResolveConflict(r, id) PROVE KnowledgeInv'
  <2>1. DeltasCopied
    BY <1>7, CutCopies DEF ResolveConflict
  <2> QED BY <1>7, <2>1, StillKnown DEF ResolveConflict
<1>8. CASE UNCHANGED crdtVars
  <2>1. DeltasCopied
    BY <1>8, CutCopies DEF crdtVars
  <2> QED BY <1>8, <2>1, StillKnown DEF crdtVars
<1> QED BY <1>1, <1>2, <1>3, <1>4, <1>5, <1>6, <1>7, <1>8 DEF CrdtNext

LEMMA KnowledgeInit == CrdtInit => KnowledgeInv
<1> SUFFICES ASSUME CrdtInit PROVE KnowledgeInv
  OBVIOUS
<1>1. \A id, m : Chain({}, id, m) = {}
  BY DEF Chain
<1>2. ASSUME NEW r \in Regions PROVE RegionKnows(r)
  <2>1. known[r] = {} /\ ops = {} /\ clocks[r] = [id \in Ids |-> NoClock]
    BY DEF CrdtInit
  <2>2. ClocksCount(clocks[r], known[r])
    BY <1>1, <2>1, FS_EmptySet DEF ClocksCount, NoClock
  <2> QED BY <2>1, <2>2 DEF RegionKnows, OwnOps, PrefixOf, AllIn
<1> QED BY <1>2 DEF CrdtInit, KnowledgeInv

LEMMA CrdtKnowledge == CrdtSpec => [](CrdtInv /\ KnowledgeInv)
<1> QED BY CrdtInvariant, KnowledgeInit, KnowledgeStep, PTL DEF CrdtSpec

\* happens_before orders clocks as knowledge is ordered, for every pair of a region and
\* a delta it may receive: no false ordering and no false conflict.
THEOREM ClocksAreKnowledge == CrdtSpec => []ClocksOrderKnowledge
<1>1. CrdtInv /\ KnowledgeInv => ClocksOrderKnowledge
  <2> SUFFICES ASSUME CrdtTypeOK, Counted, KnowledgeInv, ~clockLost,
                      NEW r \in Regions, NEW d \in deltas, NEW id \in Ids
               PROVE  /\ HappensBefore(clocks[r][id], d.clocks[id])
                           <=> OnId(known[r], id) \subseteq d.known /\ ~ OnId(d.known, id) \subseteq known[r]
                      /\ HappensBefore(d.clocks[id], clocks[r][id])
                           <=> OnId(d.known, id) \subseteq known[r] /\ ~ OnId(known[r], id) \subseteq d.known
    BY DEF CrdtInv, ClocksOrderKnowledge
  <2>1. /\ known[r] \subseteq ops /\ d.known \subseteq ops
        /\ PrefixOf(known[r], ops) /\ PrefixOf(d.known, ops)
        /\ ClocksCount(clocks[r], known[r]) /\ ClocksCount(d.clocks, d.known)
    BY DEF CrdtTypeOK, KnowledgeInv, RegionKnows, DeltaKnows
  <2> QED BY <2>1, HappensBeforeCompares
<1> QED BY <1>1, CrdtKnowledge, PTL

\* Two writes of an id, neither known to the other's region when it was issued, have
\* been reported by whatever merge first brought them together.
THEOREM ConcurrentWritesFound == CrdtSpec => []ConcurrentWritesReported
<1>1. KnowledgeInv => ConcurrentWritesReported
  BY DEF KnowledgeInv, RegionKnows, AllIn, ConcurrentOps, ConcurrentWritesReported
<1> QED BY <1>1, CrdtKnowledge, PTL

-----------------------------------------------------------------------------
(* Until a restart, the data keep up with the clocks *)

\* A local operation: the counter, and a delta that shares it, count it exactly when it
\* is an insert.
LEMMA IssueHeld ==
  ASSUME CrdtTypeOK, Counted, HeldInv, NEW r \in Writers, NEW id \in Ids,
         NEW ts \in 1 .. MaxTs, NEW kind \in {"insert", "delete"},
         Cardinality(ops) + restarts < MaxOps, Issue(r, id, kind, ts),
         UNCHANGED restarts,
         \A e \in deltas' : \E d \in deltas :
           /\ CopyOf(e, d)
           /\ e.counts \in {d.counts} \cup
                IF kind = "insert" THEN {[d.counts EXCEPT ![r] = @ + 1]} ELSE {},
         counts' = IF kind = "insert" THEN [counts EXCEPT ![r][r] = @ + 1] ELSE counts
  PROVE  HeldInv'
<1> DEFINE op == NewOp(r, id, kind, ts)
<1>0. r \in Regions
  BY CrdtAssumption
<1>1. op \in Op /\ ops' = ops \cup {op} /\ op \notin ops
  BY IssueFacts
<1>2. /\ known' = [known EXCEPT ![r] = @ \cup {op}]
      /\ seen' = [seen EXCEPT ![r] = @ \cup {op}]
  BY DEF Issue, NewOp
<1>3. op.num = Cardinality(ops) + 1 /\ op.region = r /\ op.kind = kind
  BY DEF NewOp
<1>4. \A s \in Regions : seen[s] \subseteq ops
  BY DEF CrdtTypeOK
<1>a. ASSUME NEW m \in Regions
      PROVE  Cardinality(Inserts(ops', m)) =
               IF m = op.region /\ op.kind = "insert" THEN Cardinality(Inserts(ops, m)) + 1
               ELSE Cardinality(Inserts(ops, m))
  BY <1>1, AddedCounts
<1>b. ASSUME NEW S, S \subseteq ops, NEW m \in Regions
      PROVE  Cardinality(Inserts(S, m)) \in Nat
  BY <1>b, FiniteParts, FS_CardinalityType
<1>5. ASSUME restarts = 0, NEW s \in Regions PROVE RegionHolds(s)'
  <2>1. RegionHolds(s)
    BY <1>5 DEF HeldInv
  <2>2. CASE s # r
    <3>1. known'[s] = known[s] /\ seen'[s] = seen[s] /\ counts'[s] = counts[s]
      BY <1>2, <2>2 DEF CrdtTypeOK
    <3>2. OwnOps(s)' = OwnOps(s)
      BY <1>1, <1>3, <2>2 DEF OwnOps
    <3>3. PrefixOf(seen'[s], ops')
      BY <1>1, <1>3, <1>4, <2>1, <3>1, IssuePrefix DEF RegionHolds
    <3>4. ASSUME NEW m \in Regions
          PROVE  /\ Cardinality(Inserts(seen'[s], m)) <= counts'[s][m]
                 /\ counts'[s][m] <= Cardinality(Inserts(ops', m))
      <4>1. /\ Cardinality(Inserts(seen[s], m)) <= counts[s][m]
            /\ counts[s][m] <= Cardinality(Inserts(ops, m)) /\ counts[s][m] \in Nat
        BY <2>1 DEF RegionHolds, CounterCounts, CrdtTypeOK, Clock
      <4>2. Cardinality(Inserts(ops, m)) <= Cardinality(Inserts(ops', m))
        BY <1>a, <1>b
      <4>3. Cardinality(Inserts(ops, m)) \in Nat /\ Cardinality(Inserts(ops', m)) \in Nat
        BY <1>a, <1>b
      <4> QED BY <3>1, <4>1, <4>2, <4>3
    <3> QED BY <2>1, <3>1, <3>2, <3>3, <3>4 DEF RegionHolds, CounterCounts
  <2>3. CASE s = r
    <3>1. seen'[r] = seen[r] \cup {op} /\ known'[r] = known[r] \cup {op}
      BY <1>0, <1>2 DEF CrdtTypeOK
    <3>2. OwnOps(r)' \subseteq seen'[r] /\ known'[r] \subseteq seen'[r]
      BY <1>1, <2>1, <2>3, <3>1 DEF OwnOps, RegionHolds
    <3>3. PrefixOf(seen'[r], ops')
      <4>1. \A o \in ops : o.region = op.region => o \in seen[r]
        BY <1>3, <2>1, <2>3 DEF RegionHolds, OwnOps
      <4>2. PrefixOf(seen[r] \cup {op}, ops')
        BY <1>0, <1>1, <1>3, <1>4, <2>1, <2>3, <4>1, IssuePrefix DEF RegionHolds
      <4> QED BY <3>1, <4>2
    <3>4. ASSUME NEW m \in Regions
          PROVE  /\ Cardinality(Inserts(seen'[r], m)) <= counts'[r][m]
                 /\ counts'[r][m] <= Cardinality(Inserts(ops', m))
      <4>1. counts'[r][m] =
              IF m = op.region /\ op.kind = "insert" THEN counts[r][m] + 1 ELSE counts[r][m]
        BY <1>0, <1>3 DEF CrdtTypeOK, Clock
      <4>2. /\ Cardinality(Inserts(seen[r], m)) <= counts[r][m]
            /\ counts[r][m] <= Cardinality(Inserts(ops, m))
        BY <2>1, <2>3 DEF RegionHolds, CounterCounts
      <4>0. /\ Cardinality(Inserts(seen[r], m)) \in Nat /\ counts[r][m] \in Nat
            /\ Cardinality(Inserts(ops, m)) \in Nat
        BY <1>0, <1>4, <1>b DEF CrdtTypeOK, Clock
      <4>3. op \notin seen[r]
        BY <1>0, <1>1, <1>4
      <4>4. Cardinality(Inserts(seen[r] \cup {op}, m)) =
              IF m = op.region /\ op.kind = "insert" THEN Cardinality(Inserts(seen[r], m)) + 1
              ELSE Cardinality(Inserts(seen[r], m))
        BY <1>0, <1>1, <1>4, <4>3, AddedCounts
      <4>5. Cardinality(Inserts(ops', m)) =
              IF m = op.region /\ op.kind = "insert" THEN Cardinality(Inserts(ops, m)) + 1
              ELSE Cardinality(Inserts(ops, m))
        BY <1>a
      <4> HIDE DEF op
      <4> QED BY ONLY <3>1, <4>0, <4>1, <4>2, <4>4, <4>5
    <3> QED BY <2>3, <3>2, <3>3, <3>4 DEF RegionHolds, CounterCounts
  <2> QED BY <2>2, <2>3
<1>6. ASSUME restarts = 0, NEW e \in deltas' PROVE DeltaHolds(e)'
  <2>0. PICK d \in deltas :
          /\ CopyOf(e, d)
          /\ e.counts \in {d.counts} \cup
               IF kind = "insert" THEN {[d.counts EXCEPT ![r] = @ + 1]} ELSE {}
    OBVIOUS
  <2>1. DeltaHolds(d) /\ d.seen \subseteq ops /\ d.counts \in Clock
    BY <1>6 DEF HeldInv, CrdtTypeOK, Delta
  <2>2. PrefixOf(d.seen, ops')
    BY <1>1, <1>3, <2>1, IssuePrefix DEF DeltaHolds
  <2>3. ASSUME NEW m \in Regions
        PROVE  /\ Cardinality(Inserts(d.seen, m)) <= e.counts[m]
               /\ e.counts[m] <= Cardinality(Inserts(ops', m))
    <3>1. /\ Cardinality(Inserts(d.seen, m)) <= d.counts[m]
          /\ d.counts[m] <= Cardinality(Inserts(ops, m))
      BY <2>1 DEF DeltaHolds, CounterCounts
    <3>2. /\ Cardinality(Inserts(d.seen, m)) \in Nat /\ d.counts[m] \in Nat
          /\ Cardinality(Inserts(ops, m)) \in Nat
      BY <1>b, <2>1 DEF Clock
    <3>3. \/ e.counts[m] = d.counts[m]
          \/ e.counts[m] = d.counts[m] + 1 /\ m = op.region /\ op.kind = "insert"
      BY <1>0, <1>3, <2>0, <2>1 DEF Clock
    <3>4. Cardinality(Inserts(ops', m)) =
            IF m = op.region /\ op.kind = "insert" THEN Cardinality(Inserts(ops, m)) + 1
            ELSE Cardinality(Inserts(ops, m))
      BY <1>a
    <3> HIDE DEF op
    <3> QED BY ONLY <3>1, <3>2, <3>3, <3>4
  <2> QED BY <2>0, <2>1, <2>2, <2>3 DEF CopyOf, DeltaHolds, CounterCounts
<1> QED BY <1>5, <1>6 DEF HeldInv

LEMMA MergeHeld ==
  ASSUME CrdtTypeOK, Counted, HeldInv, NEW r \in Regions, NEW d \in deltas, MergeData(r, d),
         DeltasSame, UNCHANGED <<ops, restarts>>,
         known' \in {known, [known EXCEPT ![r] = @ \cup d.known]}
  PROVE  HeldInv'
<1>1. /\ seen' = [seen EXCEPT ![r] = @ \cup d.seen]
      /\ counts' = [counts EXCEPT ![r] = [m \in Regions |-> Larger(@[m], d.counts[m])]]
  BY DEF MergeData
<1>2. d.seen \subseteq ops /\ \A s \in Regions : seen[s] \subseteq ops
  BY DEF CrdtTypeOK
<1>3. ASSUME restarts = 0, NEW e \in deltas' PROVE DeltaHolds(e)'
  <2>1. DeltaHolds(e)
    BY <1>3, CopyHolds DEF HeldInv, DeltasSame
  <2> QED BY <2>1 DEF DeltaHolds, CounterCounts
<1>4. ASSUME restarts = 0, NEW s \in Regions PROVE RegionHolds(s)'
  <2>1. RegionHolds(s) /\ RegionHolds(r) /\ DeltaHolds(d)
    BY <1>4 DEF HeldInv
  <2>2. CASE s # r
    <3>1. known'[s] = known[s] /\ seen'[s] = seen[s] /\ counts'[s] = counts[s]
      BY <1>1, <2>2 DEF CrdtTypeOK
    <3> QED BY <2>1, <3>1 DEF RegionHolds, CounterCounts, OwnOps
  <2>3. CASE s = r
    <3>1. seen'[r] = seen[r] \cup d.seen /\ known'[r] \in {known[r], known[r] \cup d.known}
      BY <1>1 DEF CrdtTypeOK
    <3>2. OwnOps(r)' \subseteq seen'[r] /\ known'[r] \subseteq seen'[r]
      BY <2>1, <3>1 DEF OwnOps, RegionHolds, DeltaHolds
    <3>3. /\ seen[r] \subseteq ops /\ d.seen \subseteq ops
          /\ PrefixOf(seen[r], ops) /\ PrefixOf(d.seen, ops)
      BY <1>2, <2>1 DEF RegionHolds, DeltaHolds
    <3>4. PrefixOf(seen'[r], ops')
      BY <3>1, <3>3, MergePrefix
    <3>5. ASSUME NEW m \in Regions
          PROVE  /\ Cardinality(Inserts(seen'[r], m)) <= counts'[r][m]
                 /\ counts'[r][m] <= Cardinality(Inserts(ops, m))
      <4>1. counts'[r][m] = Larger(counts[r][m], d.counts[m])
        BY <1>1 DEF CrdtTypeOK
      <4>0. /\ counts[r][m] \in Nat /\ d.counts[m] \in Nat
            /\ Cardinality(Inserts(seen[r], m)) \in Nat
            /\ Cardinality(Inserts(d.seen, m)) \in Nat /\ Cardinality(Inserts(ops, m)) \in Nat
        <5>1. counts[r][m] \in Nat /\ d.counts[m] \in Nat
          BY DEF CrdtTypeOK, Delta, Clock
        <5>2. \A S \in SUBSET ops : Cardinality(Inserts(S, m)) \in Nat
          BY FiniteParts, FS_CardinalityType
        <5> QED BY <3>3, <5>1, <5>2
      <4>2. /\ Cardinality(Inserts(seen[r], m)) <= counts[r][m]
            /\ Cardinality(Inserts(d.seen, m)) <= d.counts[m]
            /\ counts[r][m] <= Cardinality(Inserts(ops, m))
            /\ d.counts[m] <= Cardinality(Inserts(ops, m))
        BY <2>1 DEF RegionHolds, DeltaHolds, CounterCounts
      <4>3. Larger(Cardinality(Inserts(seen[r], m)), Cardinality(Inserts(d.seen, m)))
              = Cardinality(Inserts(seen[r] \cup d.seen, m))
        BY <3>3, MergeInserts
      <4>4. /\ Larger(Cardinality(Inserts(seen[r], m)), Cardinality(Inserts(d.seen, m)))
                 <= counts'[r][m]
            /\ counts'[r][m] <= Cardinality(Inserts(ops, m))
        BY ONLY <4>0, <4>1, <4>2 DEF Larger
      <4> QED BY <3>1, <4>3, <4>4
    <3> QED BY <2>3, <3>2, <3>4, <3>5 DEF RegionHolds, CounterCounts
  <2> QED BY <2>2, <2>3
<1> QED BY <1>3, <1>4 DEF HeldInv

LEMMA ProduceHeld ==
  ASSUME CrdtTypeOK, HeldInv, NEW r \in Regions, ProduceDelta(r)
  PROVE  HeldInv'
<1> DEFINE d == [sharer |-> IF r \in Writers THEN r ELSE None, adds |-> adds[r],
                 removes |-> removes[r], counts |-> counts[r], clocks |-> clocks[r],
                 seen |-> seen[r], known |-> known[r]]
<1>1. /\ deltas' = deltas \cup {d}
      /\ UNCHANGED <<counts, ops, seen, known, restarts>>
  BY DEF ProduceDelta, data
<1>2. restarts = 0 => \A e \in deltas \cup {d} : DeltaHolds(e)
  BY DEF HeldInv, RegionHolds, DeltaHolds
<1>3. restarts = 0 => \A s \in Regions : RegionHolds(s)'
  BY <1>1 DEF HeldInv, RegionHolds, CounterCounts, OwnOps
<1>4. \A e : DeltaHolds(e) => DeltaHolds(e)'
  BY <1>1 DEF DeltaHolds, CounterCounts
<1> QED BY <1>1, <1>2, <1>3, <1>4 DEF HeldInv

LEMMA HeldStep == CrdtInv /\ HeldInv /\ [CrdtNext]_crdtVars => HeldInv'
<1> SUFFICES ASSUME CrdtTypeOK, Counted, HeldInv, [CrdtNext]_crdtVars PROVE HeldInv'
  BY DEF CrdtInv
<1>1. ASSUME NEW r \in Writers, NEW id \in Ids, NEW ts \in 1 .. MaxTs,
             LocalInsert(r, id, ts) \/ LocalDelete(r, id, ts)
      PROVE  HeldInv'
  <2>1. CASE LocalInsert(r, id, ts)
    <3>1. \A e \in deltas' : \E d \in deltas :
            CopyOf(e, d) /\ e.counts \in {d.counts} \cup {[d.counts EXCEPT ![r] = @ + 1]}
      BY <2>1, InsertCopies
    <3> QED BY <2>1, <3>1, IssueHeld DEF LocalInsert
  <2>2. CASE LocalDelete(r, id, ts)
    <3>1. \A e \in deltas' : \E d \in deltas : CopyOf(e, d) /\ e.counts \in {d.counts} \cup {}
      BY <2>2 DEF LocalDelete, CopyOf
    <3> QED BY <2>2, <3>1, IssueHeld DEF LocalDelete
  <2> QED BY <1>1, <2>1, <2>2
<1>2. ASSUME NEW r \in Regions, ProduceDelta(r) PROVE HeldInv'
  BY <1>2, ProduceHeld
<1>3. ASSUME NEW r \in Regions, NEW d \in deltas, MergeDelta(r, d) PROVE HeldInv'
  <2>1. DeltasSame
    BY <1>3, CutCopies DEF MergeDelta
  <2> QED BY <1>3, <2>1, MergeHeld DEF MergeDelta
<1>4. ASSUME NEW r \in Importers, NEW d \in deltas, MergeRemoteState(r, d) PROVE HeldInv'
  <2>1. DeltasSame /\ r \in Regions
    BY <1>4, CutCopies, CrdtAssumption DEF MergeRemoteState
  <2> QED BY <1>4, <2>1, MergeHeld DEF MergeRemoteState
<1>5. ASSUME NEW r \in Restarters, Restart(r) PROVE HeldInv'
  <2>1. restarts' # 0
    BY <1>5 DEF Restart, CrdtTypeOK
  <2> QED BY <2>1 DEF HeldInv
<1>6. ASSUME DeltasSame, UNCHANGED <<counts, ops, seen, known, restarts>> PROVE HeldInv'
  <2>1. restarts = 0 => \A r \in Regions : RegionHolds(r)'
    BY <1>6 DEF HeldInv, RegionHolds, CounterCounts, OwnOps
  <2>2. restarts = 0 => \A e \in deltas' : DeltaHolds(e)
    BY <1>6, CopyHolds DEF HeldInv, DeltasSame
  <2>3. \A e : DeltaHolds(e) => DeltaHolds(e)'
    BY <1>6 DEF DeltaHolds, CounterCounts
  <2> QED BY <1>6, <2>1, <2>2, <2>3 DEF HeldInv
<1>7. ASSUME NEW r \in Regions, NEW id \in Ids, ResolveConflict(r, id) PROVE HeldInv'
  BY <1>6, <1>7, CutCopies DEF ResolveConflict, data
<1>8. CASE UNCHANGED crdtVars
  BY <1>6, <1>8, CutCopies DEF crdtVars, data
<1>9. ASSUME NEW d \in deltas, SerializeDelta(d) PROVE HeldInv'
  <2>1. DeltasSame
    BY <1>9, CutCopies
  <2> QED BY <1>6, <1>9, <2>1 DEF SerializeDelta, data
<1> QED BY <1>1, <1>2, <1>3, <1>4, <1>5, <1>7, <1>8, <1>9 DEF CrdtNext

LEMMA HeldInit == CrdtInit => HeldInv
<1> SUFFICES ASSUME CrdtInit PROVE HeldInv
  OBVIOUS
<1>1. \A m : Inserts({}, m) = {}
  BY DEF Inserts
<1>2. ASSUME NEW r \in Regions PROVE RegionHolds(r)
  <2>1. known[r] = {} /\ seen[r] = {} /\ ops = {} /\ counts[r] = NoClock
    BY DEF CrdtInit
  <2>2. Cardinality({}) = 0
    BY FS_EmptySet
  <2>3. CounterCounts(counts[r], seen[r])
    BY <1>1, <2>1, <2>2 DEF CounterCounts, NoClock
  <2> QED BY <2>1, <2>3 DEF RegionHolds, OwnOps, PrefixOf
<1> QED BY <1>2 DEF CrdtInit, HeldInv

\* As long as no region has restarted, no clock counts an operation whose data its
\* region lacks, and each slot of a GCounter has every insert the region has seen and
\* none that was not made, its own slot all there are.
THEOREM ClaimsHeld == CrdtSpec => []ClaimsAreHeld
<1>1. CrdtInv /\ HeldInv => ClaimsAreHeld
  <2> SUFFICES ASSUME CrdtTypeOK, Counted, HeldInv, restarts = 0, NEW r \in Regions
               PROVE  /\ known[r] \subseteq seen[r]
                      /\ \A m \in Regions :
                           /\ Cardinality(Inserts(seen[r], m)) <= counts[r][m]
                           /\ counts[r][m] <= Cardinality(Inserts(ops, m))
                      /\ counts[r][r] = Cardinality(Inserts(ops, r))
    BY DEF CrdtInv, ClaimsAreHeld
  <2>1. RegionHolds(r)
    BY DEF HeldInv
  <2>2. Inserts(seen[r], r) = Inserts(ops, r)
    BY <2>1 DEF RegionHolds, OwnOps, Inserts, CrdtTypeOK
  <2>3. Cardinality(Inserts(ops, r)) \in Nat /\ counts[r][r] \in Nat
    <3>1. counts[r][r] \in Nat
      BY DEF CrdtTypeOK, Clock
    <3>2. IsFiniteSet(Inserts(ops, r))
      BY FiniteParts
    <3> QED BY <3>1, <3>2, FS_CardinalityType
  <2>4. Cardinality(Inserts(seen[r], r)) <= counts[r][r]
        /\ counts[r][r] <= Cardinality(Inserts(ops, r))
    BY <2>1 DEF RegionHolds, CounterCounts
  <2>5. counts[r][r] = Cardinality(Inserts(ops, r))
    BY <2>2, <2>3, <2>4
  <2> QED BY <2>1, <2>5 DEF RegionHolds, CounterCounts
<1> QED BY <1>1, CrdtInvariant, HeldInit, HeldStep, PTL DEF CrdtSpec

=============================================================================
