--------------------------- MODULE Indexes_proofs ---------------------------
(***************************************************************************)
(* Proofs about the indexes and the searches over them, for any number of  *)
(* ids, cells and shards: the postings of IvfIndex match its vectors, what *)
(* ShardQuery merges is exact, HnswIndex keeps its edges mutual, ends its  *)
(* searches at an optimum and finds everything that passes a filter, and   *)
(* VamanaIndex finds what is live and linked.                              *)
(***************************************************************************)
EXTENDS HnswIndex, VamanaIndex, IvfIndex, ShardQuery, FiniteSetTheorems, FunctionTheorems, SequenceTheorems,
        WellFoundedInduction, TLAPS

-----------------------------------------------------------------------------
(* IvfIndex: the content of an index, in memory or saved, is coherent.  An id that was  *)
(* deleted after it was added twice is still in the list of ids, so the properties of   *)
(* the index are kept by the counts of the others, and by what a later delete resets.   *)

Posted(inv) == inv \in [1 .. NumCells -> [IvfIds -> Nat]]
Codes == {{}} \cup {{[vector |-> x, training |-> t, cell |-> c]} :
                      x \in IvfVectors, t \in 1 .. MaxTrains, c \in 1 .. NumCells}

\* The lists, codes and ids of v.
IdCoherent(inv, st, ids, twice, v) ==
  /\ \A c \in 1 .. NumCells : inv[c][v] > 0 => st[v] # {}
  /\ \A s \in st[v] : inv[s.cell][v] > 0
  /\ st[v] # {} => ids[v] > 0
  /\ v \notin twice =>
       /\ \A c \in 1 .. NumCells : inv[c][v] = IF \E s \in st[v] : s.cell = c THEN 1 ELSE 0
       /\ ids[v] = IF st[v] = {} THEN 0 ELSE 1

Coherent(inv, st, ids, twice) ==
  /\ Posted(inv) /\ st \in [IvfIds -> Codes] /\ ids \in [IvfIds -> Nat] /\ twice \subseteq IvfIds
  /\ \A v \in IvfIds : IdCoherent(inv, st, ids, twice, v)

\* The index in memory and the saved one.
IvfInv ==
  /\ trained \in 0 .. MaxTrains
  /\ ivfFile.trained \in 0 .. MaxTrains
  /\ Coherent(inverted, stored, vectorIds, addedAgain)
  /\ Coherent(ivfFile.inverted, ivfFile.stored, ivfFile.ids, ivfFile.again)

\* The codes of an id, and those of them for a cell, are one or none.
CountsOne(codes, c) ==
  /\ Cardinality({s \in codes : s.cell = c}) = (IF \E s \in codes : s.cell = c THEN 1 ELSE 0)
  /\ Cardinality(codes) = (IF codes = {} THEN 0 ELSE 1)

LEMMA OneCode ==
  ASSUME NEW codes \in Codes, NEW c
  PROVE  CountsOne(codes, c)
<1>1. codes = {} \/ \E s : codes = {s} /\ s.cell \in 1 .. NumCells
  BY DEF Codes
<1>2. CASE codes = {}
  <2>1. {s \in codes : s.cell = c} = {}
    BY <1>2
  <2> QED
    BY <1>2, <2>1, FS_EmptySet DEF CountsOne
<1>3. CASE \E s : codes = {s}
  <2>1. PICK s : codes = {s}
    BY <1>3
  <2>2. Cardinality({s}) = 1
    BY FS_Singleton
  <2>3. Cardinality({}) = 0
    BY FS_EmptySet
  <2>4. {z \in codes : z.cell = c} = IF s.cell = c THEN {s} ELSE {}
    BY <2>1
  <2>5. (\E z \in codes : z.cell = c) <=> s.cell = c
    BY <2>1
  <2>6. codes # {}
    BY <2>1
  <2>7. CASE s.cell = c
    <3>1. {z \in codes : z.cell = c} = {s}
      BY <2>4, <2>7
    <3> QED
      BY <2>1, <2>2, <2>5, <2>6, <2>7, <3>1 DEF CountsOne
  <2>8. CASE s.cell # c
    <3>1. {z \in codes : z.cell = c} = {}
      BY <2>4, <2>8
    <3> QED
      BY <2>1, <2>2, <2>3, <2>5, <2>6, <2>8, <3>1 DEF CountsOne
  <2> QED
    BY <2>7, <2>8
<1> QED
  BY <1>1, <1>2, <1>3

\* An empty index is coherent.
LEMMA EmptyCoherent ==
  Coherent(Empty, [v \in IvfIds |-> {}], NoIds, {})
  BY IvfAssumption DEF Coherent, Posted, Codes, IdCoherent, Empty, NoIds

\* Adding an id keeps the index coherent.
LEMMA AddCoherent ==
  ASSUME IvfInv, NEW w \in IvfIds, NEW x \in IvfVectors, AddVector(w, x)
  PROVE  Coherent(inverted', stored', vectorIds', addedAgain')
<1> DEFINE cell == Cells[trained][x]
           code == [vector |-> x, training |-> trained, cell |-> cell]
<1>1. trained \in 1 .. MaxTrains /\ cell \in 1 .. NumCells
  <2>1. trained \in 1 .. MaxTrains
    BY IvfAssumption DEF IvfInv, AddVector
  <2> QED
    BY <2>1, IvfAssumption
<1>2. code.cell = cell /\ {code} \in Codes
  BY <1>1 DEF Codes
<1>3. /\ inverted' = [inverted EXCEPT ![cell][w] = @ + 1]
      /\ stored' = [stored EXCEPT ![w] = {code}]
      /\ vectorIds' = [vectorIds EXCEPT ![w] = @ + 1]
      /\ addedAgain' = IF stored[w] = {} THEN addedAgain ELSE addedAgain \cup {w}
  BY DEF AddVector
<1> HIDE DEF cell, code
<1>4. /\ inverted \in [1 .. NumCells -> [IvfIds -> Nat]] /\ stored \in [IvfIds -> Codes]
      /\ vectorIds \in [IvfIds -> Nat] /\ addedAgain \subseteq IvfIds
      /\ \A v \in IvfIds : IdCoherent(inverted, stored, vectorIds, addedAgain, v)
  BY DEF IvfInv, Coherent, Posted
<1>5. /\ inverted' \in [1 .. NumCells -> [IvfIds -> Nat]] /\ stored' \in [IvfIds -> Codes]
      /\ vectorIds' \in [IvfIds -> Nat] /\ addedAgain' \subseteq IvfIds
  BY <1>1, <1>2, <1>3, <1>4
<1>6. ASSUME NEW v \in IvfIds, v # w
      PROVE  IdCoherent(inverted', stored', vectorIds', addedAgain', v)
  <2>1. /\ stored'[v] = stored[v] /\ vectorIds'[v] = vectorIds[v] /\ (v \in addedAgain' <=> v \in addedAgain)
        /\ \A c \in 1 .. NumCells : inverted'[c][v] = inverted[c][v]
    BY <1>1, <1>3, <1>4, <1>6
  <2>2. IdCoherent(inverted, stored, vectorIds, addedAgain, v)
    BY <1>4
  <2>3. \A s \in stored[v] : s.cell \in 1 .. NumCells
    BY <1>4 DEF Codes
  <2> QED
    BY <2>1, <2>2, <2>3 DEF IdCoherent
<1>7. IdCoherent(inverted', stored', vectorIds', addedAgain', w)
  <2>1. /\ stored'[w] = {code} /\ vectorIds'[w] = vectorIds[w] + 1
        /\ \A c \in 1 .. NumCells : inverted'[c][w] = IF c = cell THEN inverted[c][w] + 1 ELSE inverted[c][w]
    BY <1>1, <1>3, <1>4
  <2>2. IdCoherent(inverted, stored, vectorIds, addedAgain, w)
    BY <1>4
  <2>3. vectorIds[w] \in Nat /\ \A c \in 1 .. NumCells : inverted[c][w] \in Nat
    BY <1>4
  <2>4. ASSUME w \notin addedAgain'
        PROVE  /\ \A c \in 1 .. NumCells : inverted'[c][w] = IF c = cell THEN 1 ELSE 0
               /\ vectorIds'[w] = 1
    BY <1>3, <2>1, <2>2, <2>3, <2>4 DEF IdCoherent
  <2>5. inverted'[cell][w] > 0 /\ vectorIds'[w] > 0
    BY <1>1, <2>1, <2>3
  <2> QED
    BY <1>2, <2>1, <2>4, <2>5 DEF IdCoherent
<1> QED
  BY <1>5, <1>6, <1>7 DEF Coherent, Posted

\* So does taking one out.
LEMMA DeleteCoherent ==
  ASSUME IvfInv, NEW w \in IvfIds, DeleteId(w)
  PROVE  Coherent(inverted', stored', vectorIds', addedAgain')
<1>1. /\ inverted \in [1 .. NumCells -> [IvfIds -> Nat]] /\ stored \in [IvfIds -> Codes]
      /\ vectorIds \in [IvfIds -> Nat] /\ addedAgain \subseteq IvfIds
      /\ \A v \in IvfIds : IdCoherent(inverted, stored, vectorIds, addedAgain, v)
  BY DEF IvfInv, Coherent, Posted
<1>2. /\ inverted' = [c \in 1 .. NumCells |-> [inverted[c] EXCEPT ![w] = 0]]
      /\ stored[w] # {} /\ stored' = [stored EXCEPT ![w] = {}]
      /\ vectorIds' = [vectorIds EXCEPT ![w] = IF @ = 0 THEN 0 ELSE @ - 1]
      /\ addedAgain' = IF vectorIds[w] = 1 THEN addedAgain \ {w} ELSE addedAgain
  BY DEF DeleteId, DropPostings
<1>3. {} \in Codes
  BY DEF Codes
<1>4. /\ inverted' \in [1 .. NumCells -> [IvfIds -> Nat]] /\ stored' \in [IvfIds -> Codes]
      /\ addedAgain' \subseteq IvfIds
  BY <1>1, <1>2, <1>3
<1>8. vectorIds' \in [IvfIds -> Nat]
  BY <1>1, <1>2
<1>5. ASSUME NEW v \in IvfIds, v # w
      PROVE  IdCoherent(inverted', stored', vectorIds', addedAgain', v)
  <2>1. /\ stored'[v] = stored[v] /\ vectorIds'[v] = vectorIds[v] /\ (v \in addedAgain' <=> v \in addedAgain)
        /\ \A c \in 1 .. NumCells : inverted'[c][v] = inverted[c][v]
    BY <1>1, <1>2, <1>5
  <2>2. IdCoherent(inverted, stored, vectorIds, addedAgain, v)
    BY <1>1
  <2>3. \A s \in stored[v] : s.cell \in 1 .. NumCells
    BY <1>1 DEF Codes
  <2> QED
    BY <2>1, <2>2, <2>3 DEF IdCoherent
<1>6. IdCoherent(inverted', stored', vectorIds', addedAgain', w)
  <2>1. /\ stored'[w] = {} /\ \A c \in 1 .. NumCells : inverted'[c][w] = 0
        /\ vectorIds'[w] = IF vectorIds[w] = 0 THEN 0 ELSE vectorIds[w] - 1
    BY <1>1, <1>2
  <2>2. w \notin addedAgain => vectorIds[w] = 1
    BY <1>1, <1>2 DEF IdCoherent
  <2>3. w \notin addedAgain' => vectorIds'[w] = 0
    BY <1>2, <2>1, <2>2
  <2> QED
    BY <2>1, <2>3 DEF IdCoherent
<1> QED
  BY <1>4, <1>8, <1>5, <1>6 DEF Coherent, Posted

\* The invariant holds at first, and every operation keeps it.
LEMMA IvfInvInit == IvfInit => IvfInv
  BY EmptyCoherent, IvfAssumption DEF IvfInit, IvfInv, Content

LEMMA IvfInvStep == IvfInv /\ [IvfNext]_ivfVars => IvfInv'
<1> SUFFICES ASSUME IvfInv, [IvfNext]_ivfVars PROVE IvfInv'
  OBVIOUS
<1>1. CASE Train
  BY <1>1, IvfAssumption DEF IvfInv, Train
<1>2. CASE ClearIndex
  BY <1>2, EmptyCoherent DEF IvfInv, ClearIndex
<1>3. CASE SaveIvf
  BY <1>3 DEF IvfInv, SaveIvf, Content
<1>4. CASE LoadIvf
  BY <1>4 DEF IvfInv, LoadIvf
<1>5. ASSUME NEW v \in IvfIds, NEW x \in IvfVectors, AddVector(v, x) PROVE IvfInv'
  BY <1>5, AddCoherent DEF IvfInv, AddVector
<1>6. ASSUME NEW v \in IvfIds, DeleteId(v) PROVE IvfInv'
  BY <1>6, DeleteCoherent DEF IvfInv, DeleteId
<1>7. CASE UNCHANGED ivfVars
  BY <1>7 DEF IvfInv, ivfVars
<1> QED
  BY <1>1, <1>2, <1>3, <1>4, <1>5, <1>6, <1>7 DEF IvfNext

\* Whatever is added, deleted, trained again, saved and loaded, every posting has a code and
\* every code its posting, and an id that was not added while it was there is found once and
\* counted once (IVFIndex's inverted_file, vectors and vector_ids).
THEOREM IvfListsAgree == IvfSpec => []IvfListsMatchVectors
<1>1. IvfInv => IvfListsMatchVectors
  <2> SUFFICES ASSUME IvfInv, NEW v \in IvfIds
               PROVE  /\ (\E c \in 1 .. NumCells : inverted[c][v] > 0) => stored[v] # {}
                      /\ \A s \in stored[v] : inverted[s.cell][v] > 0
                      /\ v \notin addedAgain =>
                           /\ \A c \in 1 .. NumCells :
                                inverted[c][v] = Cardinality({s \in stored[v] : s.cell = c})
                           /\ vectorIds[v] = Cardinality(stored[v])
    BY DEF IvfListsMatchVectors
  <2>1. IdCoherent(inverted, stored, vectorIds, addedAgain, v) /\ stored[v] \in Codes
    BY DEF IvfInv, Coherent
  <2>2. ASSUME NEW c \in 1 .. NumCells PROVE CountsOne(stored[v], c)
    BY <2>1, OneCode
  <2>3. Cardinality(stored[v]) = IF stored[v] = {} THEN 0 ELSE 1
    BY <2>1, OneCode DEF CountsOne
  <2> QED
    BY <2>1, <2>2, <2>3 DEF IdCoherent, CountsOne
<1> QED
  BY <1>1, IvfInvInit, IvfInvStep, PTL DEF IvfSpec

-----------------------------------------------------------------------------
(* Orders. *)

\* A set of naturals has a least element.
LEMMA Least ==
  ASSUME NEW T, T \subseteq Nat, T # {}
  PROVE  \E x \in T : \A y \in T : x <= y
<1>1. IsWellFoundedOn(OpToRel(<,Nat), Nat)
  BY NatLessThanWellFounded
<1>2. PICK R : R = OpToRel(<,Nat)
  OBVIOUS
<1>3. \A x, y \in Nat : <<x, y>> \in R <=> x < y
  BY <1>2 DEF OpToRel
<1>4. \E x \in T : \A y \in T : ~ (<<y, x>> \in R)
  BY <1>1, <1>2, WFMin
<1>5. PICK x \in T : \A y \in T : ~ (<<y, x>> \in R)
  BY <1>4
<1>6. \A y \in T : x <= y
  <2> TAKE y \in T
  <2>1. x \in Nat /\ y \in Nat /\ ~ (<<y, x>> \in R)
    BY <1>5
  <2>2. ~ (y < x)
    BY <1>3, <2>1
  <2> QED
    BY <2>1, <2>2
<1> QED
  BY <1>6

LEMMA MinIsLeast ==
  ASSUME NEW T, T \subseteq Nat, T # {}
  PROVE  Min(T) \in T /\ \A y \in T : Min(T) <= y
  BY Least DEF Min

LEMMA MinOfTwo ==
  ASSUME NEW a \in Nat, NEW b \in Nat
  PROVE  Min({a, b}) = IF a <= b THEN a ELSE b
<1>1. Min({a, b}) \in {a, b} /\ \A y \in {a, b} : Min({a, b}) <= y
  BY MinIsLeast
<1> QED
  BY <1>1

\* In a finite strict total order, given by what is ahead of each element, the number of
\* elements ahead is a position.
LEMMA RanksArePositions ==
  ASSUME NEW F, IsFiniteSet(F), NEW R \in [F -> SUBSET F],
         \A p \in F : p \notin R[p],
         \A p \in F : \A r \in R[p] : R[r] \subseteq R[p],
         \A p, r \in F : p = r \/ p \in R[r] \/ r \in R[p]
  PROVE  /\ \A p \in F : Cardinality(R[p]) \in 0 .. Cardinality(F) - 1
         /\ \A p \in F : \A r \in R[p] : Cardinality(R[r]) < Cardinality(R[p])
         /\ \A p, r \in F : Cardinality(R[r]) < Cardinality(R[p]) => r \in R[p]
         /\ \A p, r \in F : Cardinality(R[r]) = Cardinality(R[p]) => r = p
         /\ \A n \in 0 .. Cardinality(F) - 1 : \E p \in F : Cardinality(R[p]) = n
<1>1. Cardinality(F) \in Nat
  BY FS_CardinalityType
<1>2. \A p \in F : IsFiniteSet(R[p]) /\ Cardinality(R[p]) \in Nat
  BY FS_Subset, FS_CardinalityType
<1>3. \A p \in F : Cardinality(R[p]) <= Cardinality(F) - 1
  <2> SUFFICES ASSUME NEW p \in F PROVE Cardinality(R[p]) <= Cardinality(F) - 1
    OBVIOUS
  <2>1. Cardinality(R[p]) <= Cardinality(F) /\ (Cardinality(F) = Cardinality(R[p]) => F = R[p])
    BY FS_Subset
  <2>2. Cardinality(R[p]) # Cardinality(F)
    BY <2>1
  <2> QED
    BY <1>1, <1>2, <2>1, <2>2
<1>4. \A p \in F : \A r \in R[p] : Cardinality(R[r]) < Cardinality(R[p])
  <2> SUFFICES ASSUME NEW p \in F, NEW r \in R[p] PROVE Cardinality(R[r]) < Cardinality(R[p])
    OBVIOUS
  <2>1. r \in F /\ R[r] \in SUBSET R[p] /\ R[r] # R[p]
    OBVIOUS
  <2>2. Cardinality(R[r]) <= Cardinality(R[p]) /\ (Cardinality(R[p]) = Cardinality(R[r]) => R[p] = R[r])
    BY <1>2, <2>1, FS_Subset
  <2> QED
    BY <1>2, <2>1, <2>2
<1>5. \A p, r \in F : Cardinality(R[r]) = Cardinality(R[p]) => r = p
  BY <1>2, <1>4
<1>6. \A p, r \in F : Cardinality(R[r]) < Cardinality(R[p]) => r \in R[p]
  <2> SUFFICES ASSUME NEW p \in F, NEW r \in F, Cardinality(R[r]) < Cardinality(R[p]), r \notin R[p]
               PROVE FALSE
    OBVIOUS
  <2>1. p # r
    BY <1>2
  <2>2. p \in R[r]
    BY <2>1
  <2>3. Cardinality(R[p]) < Cardinality(R[r])
    BY <1>4, <2>2
  <2> QED
    BY <1>2, <2>3
<1> DEFINE rank == [p \in F |-> Cardinality(R[p])]
<1>7. rank \in [F -> 0 .. Cardinality(F) - 1]
  BY <1>1, <1>2, <1>3
<1>8. rank \in Injection(F, 0 .. Cardinality(F) - 1)
  BY <1>5, <1>7 DEF Injection, IsInjective
<1>9. IsFiniteSet(0 .. Cardinality(F) - 1) /\ Cardinality(0 .. Cardinality(F) - 1) = Cardinality(F)
  BY <1>1, FS_Interval
<1>10. rank \in Surjection(F, 0 .. Cardinality(F) - 1)
  BY <1>8, <1>9, FS_Injection
<1>11. \A n \in 0 .. Cardinality(F) - 1 : \E p \in F : rank[p] = n
  BY <1>10, Fun_SurjectionProperties DEF Surjection
<1> QED
  BY <1>1, <1>2, <1>3, <1>4, <1>5, <1>6, <1>11

-----------------------------------------------------------------------------
(* ShardQuery: what _fuse_distance makes of the answers of shards. *)

Answered == [shard : ToSet(Shards), hits : Seq(Hits)]

LEMMA PlaceTypes ==
  ASSUME NEW a \in Seq(Answered)
  PROVE  \A p \in HitPlaces(a) :
           /\ p[1] \in 1 .. Len(a) /\ a[p[1]] \in Answered
           /\ p[2] \in 1 .. Len(a[p[1]].hits) /\ p = <<p[1], p[2]>>
           /\ HitAt(a, p) \in Hits /\ HitAt(a, p).id \in VectorIds /\ HitAt(a, p).dist \in Nat
<1> TAKE p \in HitPlaces(a)
<1>1. PICK n \in DOMAIN a : p \in {n} \X DOMAIN a[n].hits
  BY DEF HitPlaces
<1>2. PICK i \in DOMAIN a[n].hits : p = <<n, i>>
  BY <1>1
<1>3. n \in 1 .. Len(a) /\ a[n] \in Answered
  OBVIOUS
<1>4. a[n].hits \in Seq(Hits)
  BY <1>3 DEF Answered
<1>5. i \in 1 .. Len(a[n].hits) /\ a[n].hits[i] \in Hits
  BY <1>2, <1>4
<1>6. p[1] = n /\ p[2] = i
  BY <1>2
<1> QED
  BY <1>2, <1>3, <1>5, <1>6 DEF HitAt, Hits

LEMMA PlaceOf ==
  ASSUME NEW a \in Seq(Answered), NEW n \in 1 .. Len(a), NEW i \in 1 .. Len(a[n].hits)
  PROVE  <<n, i>> \in HitPlaces(a) /\ HitAt(a, <<n, i>>) = a[n].hits[i]
<1>3. n \in DOMAIN a /\ a[n] \in Answered
  OBVIOUS
<1>1. n \in DOMAIN a /\ a[n].hits \in Seq(Hits)
  BY <1>3 DEF Answered
<1>2. i \in DOMAIN a[n].hits
  BY <1>1
<1> QED
  BY <1>1, <1>2 DEF HitPlaces, HitAt

LEMMA PlacesFinite ==
  ASSUME NEW a \in Seq(Answered)
  PROVE  IsFiniteSet(HitPlaces(a))
<1> DEFINE row == [n \in DOMAIN a |-> {n} \X DOMAIN a[n].hits]
           lines == {row[n] : n \in DOMAIN a}
<1>1. IsFiniteSet(DOMAIN a)
  <2>1. DOMAIN a = 1 .. Len(a) /\ Len(a) \in Nat
    OBVIOUS
  <2> QED
    BY <2>1, FS_Interval
<1>2. row \in Surjection(DOMAIN a, lines)
  BY DEF Surjection
<1>3. IsFiniteSet(lines)
  BY <1>1, <1>2, FS_Surjection
<1>4. \A r \in lines : IsFiniteSet(r)
  <2> SUFFICES ASSUME NEW n \in DOMAIN a PROVE IsFiniteSet({n} \X DOMAIN a[n].hits)
    OBVIOUS
  <2>4. a[n] \in Answered
    OBVIOUS
  <2>1. a[n].hits \in Seq(Hits)
    BY <2>4 DEF Answered
  <2>2. DOMAIN a[n].hits = 1 .. Len(a[n].hits) /\ Len(a[n].hits) \in Nat
    BY <2>1
  <2>3. IsFiniteSet(DOMAIN a[n].hits)
    BY <2>2, FS_Interval
  <2> QED
    BY <2>3, FS_Singleton, FS_Product
<1>5. HitPlaces(a) = UNION lines
  BY DEF HitPlaces
<1> QED
  BY <1>3, <1>4, <1>5, FS_UNION

\* Every id has a first place, and one only.
LEMMA FirstExists ==
  ASSUME NEW a \in Seq(Answered), NEW p \in HitPlaces(a)
  PROVE  \E f \in FirstPlaces(a) : HitAt(a, f).id = HitAt(a, p).id
<1> DEFINE id == HitAt(a, p).id
           Same == {r \in HitPlaces(a) : HitAt(a, r).id = id}
           lines == {r[1] : r \in Same}
<1>1. p \in Same
  OBVIOUS
<1>2. lines \subseteq Nat /\ lines # {}
  BY <1>1, PlaceTypes
<1>3. PICK n \in lines : \A m \in lines : n <= m
  BY <1>2, Least
<1> DEFINE inRow == {r[2] : r \in {r \in Same : r[1] = n}}
<1>4. inRow \subseteq Nat /\ inRow # {}
  BY <1>3, PlaceTypes
<1>5. PICK i \in inRow : \A j \in inRow : i <= j
  BY <1>4, Least
<1>6. PICK f \in Same : f[1] = n /\ f[2] = i
  BY <1>5
<1>7. ASSUME NEW r \in HitPlaces(a), Sooner(r, f) PROVE HitAt(a, r).id # id
  <2> SUFFICES ASSUME r \in Same PROVE FALSE
    OBVIOUS
  <2>1. r[1] \in lines /\ (r[1] = n => r[2] \in inRow)
    OBVIOUS
  <2>2. n <= r[1] /\ (r[1] = n => i <= r[2])
    BY <1>3, <1>5, <2>1
  <2>3. r[1] < n \/ (r[1] = n /\ r[2] < i)
    BY <1>6, <1>7 DEF Sooner
  <2>4. r[1] \in Nat /\ r[2] \in Nat /\ n \in Nat /\ i \in Nat
    BY <1>2, <1>4, <2>1, PlaceTypes
  <2> QED
    BY <2>2, <2>3, <2>4
<1>8. f \in FirstPlaces(a)
  BY <1>6, <1>7 DEF FirstPlaces
<1> QED
  BY <1>6, <1>8

LEMMA SoonerOrders ==
  ASSUME NEW a \in Seq(Answered)
  PROVE  /\ \A p \in HitPlaces(a) : ~ Sooner(p, p)
         /\ \A p, r, t \in HitPlaces(a) : Sooner(p, r) /\ Sooner(r, t) => Sooner(p, t)
         /\ \A p, r \in HitPlaces(a) : p = r \/ Sooner(p, r) \/ Sooner(r, p)
<1>1. \A p \in HitPlaces(a) : p[1] \in Nat /\ p[2] \in Nat /\ p = <<p[1], p[2]>>
  BY PlaceTypes
<1>2. \A p \in HitPlaces(a) : ~ Sooner(p, p)
  BY <1>1 DEF Sooner
<1>3. \A p, r, t \in HitPlaces(a) : Sooner(p, r) /\ Sooner(r, t) => Sooner(p, t)
  BY <1>1 DEF Sooner
<1>4. ASSUME NEW p \in HitPlaces(a), NEW r \in HitPlaces(a), ~ Sooner(p, r), ~ Sooner(r, p)
      PROVE p = r
  <2>1. p[1] = r[1] /\ p[2] = r[2]
    BY <1>1, <1>4 DEF Sooner
  <2> QED
    BY <1>1, <2>1
<1> QED
  BY <1>2, <1>3, <1>4

LEMMA FirstUnique ==
  ASSUME NEW a \in Seq(Answered), NEW p \in FirstPlaces(a), NEW r \in FirstPlaces(a),
         HitAt(a, p).id = HitAt(a, r).id
  PROVE  p = r
<1>1. p \in HitPlaces(a) /\ r \in HitPlaces(a) /\ ~ Sooner(p, r) /\ ~ Sooner(r, p)
  BY DEF FirstPlaces
<1> QED
  BY <1>1, SoonerOrders

LEMMA BestIsNearest ==
  ASSUME NEW a \in Seq(Answered), NEW p \in HitPlaces(a)
  PROVE  /\ BestDistance(a, p) \in Nat
         /\ \E r \in HitPlaces(a) : /\ HitAt(a, r).id = HitAt(a, p).id
                                    /\ HitAt(a, r).dist = BestDistance(a, p)
         /\ \A r \in HitPlaces(a) :
              HitAt(a, r).id = HitAt(a, p).id => BestDistance(a, p) <= HitAt(a, r).dist
<1> DEFINE D == {HitAt(a, r).dist : r \in {r \in HitPlaces(a) : HitAt(a, r).id = HitAt(a, p).id}}
<1>1. D \subseteq Nat /\ HitAt(a, p).dist \in D
  BY PlaceTypes
<1>2. Min(D) \in D /\ \A y \in D : Min(D) <= y
  BY <1>1, MinIsLeast
<1>3. BestDistance(a, p) = Min(D)
  BY DEF BestDistance
<1> QED
  BY <1>1, <1>2, <1>3

\* The order of the merged list.
LEMMA MergedOrder ==
  ASSUME NEW a \in Seq(Answered), NEW F, F = FirstPlaces(a), NEW R, R = [p \in F |-> Ahead(a, p)]
  PROVE  /\ IsFiniteSet(F) /\ F \subseteq HitPlaces(a) /\ R \in [F -> SUBSET F]
         /\ \A p, r \in F : r \in R[p] <=> SortedBefore(a, r, p)
         /\ \A p \in F : p \notin R[p]
         /\ \A p \in F : \A r \in R[p] : R[r] \subseteq R[p]
         /\ \A p, r \in F : p = r \/ p \in R[r] \/ r \in R[p]
<1>1. F \subseteq HitPlaces(a) /\ IsFiniteSet(F)
  <2>1. F \subseteq HitPlaces(a)
    BY DEF FirstPlaces
  <2> QED
    BY <2>1, PlacesFinite, FS_Subset
<1>2. R \in [F -> SUBSET F] /\ \A p, r \in F : r \in R[p] <=> SortedBefore(a, r, p)
  BY DEF Ahead
<1>3. \A p \in F : BestDistance(a, p) \in Nat
  BY <1>1, BestIsNearest
<1>4. /\ \A p \in F : ~ Sooner(p, p)
      /\ \A p, r, t \in F : Sooner(p, r) /\ Sooner(r, t) => Sooner(p, t)
      /\ \A p, r \in F : p = r \/ Sooner(p, r) \/ Sooner(r, p)
  BY <1>1, SoonerOrders
<1>5. \A p \in F : ~ SortedBefore(a, p, p)
  BY <1>3, <1>4 DEF SortedBefore
<1>6. \A p, r, t \in F : SortedBefore(a, p, r) /\ SortedBefore(a, r, t) => SortedBefore(a, p, t)
  BY <1>3, <1>4 DEF SortedBefore
<1>7. \A p, r \in F : p = r \/ SortedBefore(a, p, r) \/ SortedBefore(a, r, p)
  BY <1>3, <1>4 DEF SortedBefore
<1>8. \A p \in F : \A r \in R[p] : R[r] \subseteq R[p]
  BY <1>2, <1>6
<1> QED
  BY <1>1, <1>2, <1>5, <1>7, <1>8

\* Answers whose lists hold an id once.
NoRepeats(a) ==
  \A n \in DOMAIN a : \A i, j \in DOMAIN a[n].hits : i # j => a[n].hits[i].id # a[n].hits[j].id

\* K hits in one list put K different ids at the distance of the farthest or nearer.
LEMMA Crowd ==
  ASSUME NEW a \in Seq(Answered), NoRepeats(a), NEW n \in 1 .. Len(a), K <= Len(a[n].hits),
         NEW d \in Nat, \A i \in 1 .. Len(a[n].hits) : a[n].hits[i].dist <= d
  PROVE  /\ K <= Cardinality(FirstPlaces(a))
         /\ \A p \in FirstPlaces(a) : d < BestDistance(a, p) => K <= Cardinality(Ahead(a, p))
<1> DEFINE F == FirstPlaces(a)  hits == a[n].hits
<1>1. a[n] \in Answered /\ n \in DOMAIN a
  OBVIOUS
<1>2. hits \in Seq(Hits) /\ K \in Nat /\ Len(hits) \in Nat
  BY <1>1, ShardAssumption DEF Answered
<1>3. \A i \in 1 .. K : /\ i \in 1 .. Len(hits) /\ <<n, i>> \in HitPlaces(a)
                        /\ HitAt(a, <<n, i>>) = hits[i] /\ hits[i] \in Hits
  BY <1>2, PlaceOf
<1>4. \A i \in 1 .. K : \E f \in F : HitAt(a, f).id = hits[i].id
  BY <1>3, FirstExists
<1> DEFINE first == [i \in 1 .. K |-> CHOOSE f \in F : HitAt(a, f).id = hits[i].id]
<1>5. \A i \in 1 .. K : first[i] \in F /\ HitAt(a, first[i]).id = hits[i].id
  BY <1>4
<1> HIDE DEF first
<1>6. \A i, j \in 1 .. K : first[i] = first[j] => i = j
  <2> SUFFICES ASSUME NEW i \in 1 .. K, NEW j \in 1 .. K, first[i] = first[j], i # j PROVE FALSE
    OBVIOUS
  <2>1. hits[i].id = hits[j].id
    BY <1>5
  <2>2. i \in DOMAIN hits /\ j \in DOMAIN hits
    BY <1>2, <1>3
  <2> QED
    BY <1>1, <2>1, <2>2 DEF NoRepeats
<1>7. \A i \in 1 .. K : BestDistance(a, first[i]) \in Nat /\ BestDistance(a, first[i]) <= d
  <2> TAKE i \in 1 .. K
  <2>1. first[i] \in HitPlaces(a)
    BY <1>5 DEF FirstPlaces
  <2>2. BestDistance(a, first[i]) \in Nat /\ BestDistance(a, first[i]) <= HitAt(a, <<n, i>>).dist
    BY <1>3, <1>5, <2>1, BestIsNearest
  <2>3. hits[i].dist \in Nat /\ hits[i].dist <= d
    BY <1>3 DEF Hits
  <2> QED
    BY <1>3, <2>2, <2>3
<1>8. ASSUME NEW T, IsFiniteSet(T), \A i \in 1 .. K : first[i] \in T
      PROVE  K <= Cardinality(T)
  <2> DEFINE g == [i \in 1 .. K |-> first[i]]
  <2>1. g \in Injection(1 .. K, T)
    BY <1>6, <1>8 DEF Injection, IsInjective
  <2>2. Cardinality(1 .. K) = K
    <3>1. 1 \in Int /\ K \in Int
      BY <1>2
    <3>2. Cardinality(1 .. K) = IF 1 > K THEN 0 ELSE K - 1 + 1
      BY <3>1, FS_Interval
    <3> QED
      BY <1>2, <3>2
  <2>3. Cardinality(1 .. K) <= Cardinality(T)
    BY <1>8, <2>1, FS_Injection
  <2> QED
    BY <2>2, <2>3
<1>9. PICK R : R = [p \in F |-> Ahead(a, p)]
  OBVIOUS
<1>10. IsFiniteSet(F) /\ F \subseteq HitPlaces(a)
  BY <1>9, MergedOrder
<1>11. ASSUME NEW p \in F, d < BestDistance(a, p) PROVE K <= Cardinality(Ahead(a, p))
  <2>1. BestDistance(a, p) \in Nat
    BY <1>10, BestIsNearest
  <2>2. \A i \in 1 .. K : first[i] \in Ahead(a, p)
    BY <1>5, <1>7, <1>11, <2>1 DEF Ahead, SortedBefore
  <2>3. IsFiniteSet(Ahead(a, p))
    BY <1>10, FS_Subset DEF Ahead
  <2> QED
    BY <1>8, <2>2, <2>3
<1> QED
  BY <1>5, <1>8, <1>10, <1>11

\* P lists the first places of a in their order, up to the k-th.
Ranked(a, k, P) ==
  /\ \A n \in 1 .. k : Cardinality(Ahead(a, P[n])) = n - 1
  /\ \A p \in FirstPlaces(a), n \in 1 .. k : SortedBefore(a, p, P[n]) => \E m \in 1 .. n - 1 : P[m] = p
  /\ \A n, m \in 1 .. k : m < n => SortedBefore(a, P[m], P[n])
  /\ Fuse(a) = [n \in 1 .. k |-> [id |-> HitAt(a, P[n]).id, dist |-> BestDistance(a, P[n])]]

\* An entry of the merged list is the id whose place has that rank, at its best distance.
LEMMA MergedEntries ==
  ASSUME NEW a \in Seq(Answered), NEW k, k = Min({K, Cardinality(FirstPlaces(a))})
  PROVE  /\ Cardinality(FirstPlaces(a)) \in Nat
         /\ \E P \in [1 .. k -> FirstPlaces(a)] : Ranked(a, k, P)
<1>14. PICK F : F = FirstPlaces(a)
  OBVIOUS
<1>1. PICK R : R = [p \in F |-> Ahead(a, p)]
  OBVIOUS
<1>2. /\ IsFiniteSet(F) /\ R \in [F -> SUBSET F] /\ \A p \in F : p \notin R[p]
      /\ \A p \in F : \A r \in R[p] : R[r] \subseteq R[p]
      /\ \A p, r \in F : p = r \/ p \in R[r] \/ r \in R[p]
      /\ \A p, r \in F : r \in R[p] <=> SortedBefore(a, r, p)
  BY <1>1, <1>14, MergedOrder
<1>3. Cardinality(F) \in Nat
  BY <1>2, FS_CardinalityType
<1>4. k \in Nat /\ k = Min({K, Cardinality(F)})
  BY <1>3, <1>14, ShardAssumption, MinOfTwo
<1>5. k <= Cardinality(F)
  BY <1>3, <1>4, ShardAssumption, MinOfTwo
<1>6. /\ \A p \in F : Cardinality(R[p]) \in 0 .. Cardinality(F) - 1
      /\ \A p \in F : \A r \in R[p] : Cardinality(R[r]) < Cardinality(R[p])
      /\ \A p, r \in F : Cardinality(R[r]) < Cardinality(R[p]) => r \in R[p]
      /\ \A p, r \in F : Cardinality(R[r]) = Cardinality(R[p]) => r = p
      /\ \A n \in 0 .. Cardinality(F) - 1 : \E p \in F : Cardinality(R[p]) = n
  BY <1>2, RanksArePositions
<1> DEFINE P == [n \in 1 .. k |-> CHOOSE p \in F : Cardinality(Ahead(a, p)) = n - 1]
<1>7. \A n \in 1 .. k : P[n] \in F /\ Cardinality(Ahead(a, P[n])) = n - 1
  <2> TAKE n \in 1 .. k
  <2>1. n - 1 \in 0 .. Cardinality(F) - 1
    BY <1>3, <1>4, <1>5
  <2>2. \E p \in F : Cardinality(Ahead(a, p)) = n - 1
    BY <1>1, <1>6, <2>1
  <2> QED
    BY <2>2
<1>8. Fuse(a) = [n \in 1 .. k |-> [id |-> HitAt(a, P[n]).id, dist |-> BestDistance(a, P[n])]]
  BY <1>4, <1>14 DEF Fuse
<1> HIDE DEF P
<1>9. \A n \in 1 .. k : P[n] \in F /\ Cardinality(R[P[n]]) = n - 1
  BY <1>1, <1>7
<1>10. ASSUME NEW p \in F, NEW n \in 1 .. k, SortedBefore(a, p, P[n])
       PROVE  \E m \in 1 .. n - 1 : P[m] = p
  <2>1. Cardinality(R[p]) < n - 1
    <3>1. p \in R[P[n]]
      BY <1>2, <1>9, <1>10
    <3>2. P[n] \in F /\ Cardinality(R[P[n]]) = n - 1
      BY <1>9
    <3>3. Cardinality(R[p]) < Cardinality(R[P[n]])
      BY <1>6, <3>1, <3>2
    <3> QED
      BY <3>2, <3>3
  <2>2. PICK m \in Nat : m = Cardinality(R[p]) + 1
    BY <1>6
  <2>3. m \in 1 .. n - 1 /\ m \in 1 .. k /\ m - 1 = Cardinality(R[p])
    BY <1>4, <1>6, <2>1, <2>2
  <2>4. P[m] = p
    BY <1>6, <1>9, <2>3
  <2> QED
    BY <2>3, <2>4
<1>11. ASSUME NEW n \in 1 .. k, NEW m \in 1 .. k, m < n
       PROVE  SortedBefore(a, P[m], P[n])
  <2>1. Cardinality(R[P[m]]) < Cardinality(R[P[n]])
    <3>1. Cardinality(R[P[m]]) = m - 1 /\ Cardinality(R[P[n]]) = n - 1
      BY <1>9
    <3>2. m - 1 < n - 1
      BY <1>4, <1>11
    <3> QED
      BY <3>1, <3>2
  <2> QED
    BY <1>2, <1>6, <1>9, <2>1
<1>12. P \in [1 .. k -> F]
  BY <1>7 DEF P
<1>13. Ranked(a, k, P)
  BY <1>7, <1>8, <1>10, <1>11, <1>14 DEF Ranked
<1> QED
  BY <1>3, <1>12, <1>13, <1>14

\* The answers of shards A, in any order.
AnswersOf(a, held, A) ==
  /\ a \in Seq(Answered)
  /\ \A n \in DOMAIN a : a[n].shard \in A /\ a[n].hits = FirstOf(held[a[n].shard], PerShardK)
  /\ \A s \in A : \E n \in DOMAIN a : a[n].shard = s

Held(held, A) == UNION {ToSet(held[s]) : s \in A}

LEMMA PerShardKType == PerShardK \in Nat /\ K <= PerShardK /\ K \in Nat \ {0}
<1>1. K \in Nat \ {0} /\ Oversample \in Nat
  BY ShardAssumption
<1>2. K * Oversample \in Nat
  BY <1>1
<1>3. PICK p \in Nat : p = K * Oversample
  BY <1>2
<1>4. \E x \in {p, K} : \A y \in {p, K} : x >= y
  BY <1>1
<1>5. Max({p, K}) \in {p, K} /\ \A y \in {p, K} : Max({p, K}) >= y
  BY <1>4 DEF Max
<1>6. PICK m : m = Max({p, K})
  OBVIOUS
<1>7. m \in Nat /\ K <= m
  BY <1>1, <1>5, <1>6
<1> QED
  BY <1>1, <1>3, <1>6, <1>7 DEF PerShardK

LEMMA FirstOfIs ==
  ASSUME NEW s \in Seq(Hits), NEW n \in Nat
  PROVE  /\ FirstOf(s, n) \in Seq(Hits)
         /\ Len(FirstOf(s, n)) = IF n <= Len(s) THEN n ELSE Len(s)
         /\ \A i \in 1 .. Len(FirstOf(s, n)) : FirstOf(s, n)[i] = s[i] /\ i \in 1 .. Len(s)
<1>1. PICK l \in Nat : l = Len(s)
  OBVIOUS
<1>2. PICK m \in Nat : m = Min({n, Len(s)})
  BY <1>1, MinOfTwo
<1>3. m = IF n <= l THEN n ELSE l
  BY <1>1, <1>2, MinOfTwo
<1>4. FirstOf(s, n) = SubSeq(s, 1, m) /\ m <= Len(s)
  BY <1>1, <1>2, <1>3 DEF FirstOf
<1>5. /\ SubSeq(s, 1, m) \in Seq(Hits) /\ Len(SubSeq(s, 1, m)) = m
      /\ \A i \in 1 .. m : SubSeq(s, 1, m)[i] = s[i] /\ i \in 1 .. Len(s)
  BY <1>1, <1>4
<1> QED
  BY <1>1, <1>3, <1>4, <1>5

LEMMA HoldingIs ==
  ASSUME NEW held \in Holdings, NEW s \in ToSet(Shards)
  PROVE  /\ held[s] \in Seq(Hits)
         /\ \A i, j \in 1 .. Len(held[s]) :
              i < j => held[s][i].id # held[s][j].id /\ held[s][i].dist <= held[s][j].dist
<1>1. held \in [ToSet(Shards) -> Seq(Hits)]
  BY HoldingsAssumption
<1>2. held[s] \in Seq(Hits)
  BY <1>1
<1>3. DOMAIN held[s] = 1 .. Len(held[s])
  BY <1>2
<1> QED
  BY <1>2, <1>3, HoldingsAssumption

LEMMA HeldFinite ==
  ASSUME NEW held \in Holdings, NEW A \in SUBSET ToSet(Shards)
  PROVE  /\ IsFiniteSet(Held(held, A)) /\ Held(held, A) \subseteq Hits
         /\ \A h \in Held(held, A) : \E s \in A : \E i \in 1 .. Len(held[s]) : h = held[s][i]
         /\ \A s \in A : \A i \in 1 .. Len(held[s]) : held[s][i] \in Held(held, A)
<1>1. \A s \in A : held[s] \in Seq(Hits)
  BY HoldingIs
<1>2. \A s \in A : DOMAIN held[s] = 1 .. Len(held[s]) /\ Len(held[s]) \in Nat
  BY <1>1
<1>3. \A s \in A : ToSet(held[s]) = {held[s][i] : i \in 1 .. Len(held[s])}
  BY <1>2 DEF ToSet
<1>4. \A s \in A : ToSet(held[s]) \subseteq Hits
  <2> TAKE s \in A
  <2>1. \A i \in 1 .. Len(held[s]) : held[s][i] \in Hits
    BY <1>1
  <2>2. ToSet(held[s]) = {held[s][i] : i \in 1 .. Len(held[s])}
    BY <1>3
  <2> QED
    BY <2>1, <2>2
<1>5. \A s \in A : IsFiniteSet(ToSet(held[s]))
  <2> TAKE s \in A
  <2> DEFINE f == [i \in 1 .. Len(held[s]) |-> held[s][i]]
  <2>3. ToSet(held[s]) = {held[s][i] : i \in 1 .. Len(held[s])}
    BY <1>3
  <2>4. f \in [1 .. Len(held[s]) -> ToSet(held[s])]
    BY <2>3
  <2>5. \A t \in ToSet(held[s]) : \E i \in 1 .. Len(held[s]) : f[i] = t
    BY <2>3
  <2>1. f \in Surjection(1 .. Len(held[s]), ToSet(held[s]))
    BY <2>4, <2>5 DEF Surjection
  <2>2. IsFiniteSet(1 .. Len(held[s]))
    BY <1>2, FS_Interval
  <2> QED
    BY <2>1, <2>2, FS_Surjection
<1>6. IsFiniteSet(A)
  <2> DEFINE f == [i \in DOMAIN Shards |-> Shards[i]]
  <2>1. f \in Surjection(DOMAIN Shards, ToSet(Shards))
    BY DEF Surjection, ToSet
  <2>2. DOMAIN Shards = 1 .. Len(Shards) /\ Len(Shards) \in Nat
    BY ShardAssumption
  <2>3. IsFiniteSet(DOMAIN Shards)
    BY <2>2, FS_Interval
  <2> QED
    BY <2>1, <2>3, FS_Surjection, FS_Subset
<1> DEFINE lists == [s \in A |-> ToSet(held[s])]
           sets == {lists[s] : s \in A}
<1>7. IsFiniteSet(sets)
  <2>1. lists \in Surjection(A, sets)
    BY DEF Surjection
  <2> QED
    BY <1>6, <2>1, FS_Surjection
<1>8. IsFiniteSet(UNION sets)
  BY <1>5, <1>7, FS_UNION
<1>9. Held(held, A) = UNION sets
  BY DEF Held
<1>10. \A h \in Held(held, A) : \E s \in A : h \in ToSet(held[s])
  BY DEF Held
<1>11. \A s \in A : ToSet(held[s]) \subseteq Held(held, A)
  BY DEF Held
<1>12. Held(held, A) \subseteq Hits
  BY <1>4, <1>10
<1>13. \A h \in Held(held, A) : \E s \in A : \E i \in 1 .. Len(held[s]) : h = held[s][i]
  BY <1>3, <1>10
<1>14. \A s \in A : \A i \in 1 .. Len(held[s]) : held[s][i] \in Held(held, A)
  <2> TAKE s \in A
  <2> TAKE i \in 1 .. Len(held[s])
  <2>1. held[s][i] \in ToSet(held[s])
    BY <1>3
  <2> QED
    BY <1>11, <2>1
<1>15. IsFiniteSet(Held(held, A))
  BY <1>8, <1>9
<1> QED
  BY <1>12, <1>13, <1>14, <1>15

\* A hit of a shard that answered has a place, or its shard's answer is a crowd of nearer ones.
LEMMA PlacedOrCrowded ==
  ASSUME NEW held \in Holdings, NEW A \in SUBSET ToSet(Shards), NEW a, AnswersOf(a, held, A),
         NEW h \in Held(held, A)
  PROVE  \/ \E p \in HitPlaces(a) : HitAt(a, p) = h
         \/ \E n \in 1 .. Len(a) :
              /\ K <= Len(a[n].hits)
              /\ \A i \in 1 .. Len(a[n].hits) : a[n].hits[i].dist <= h.dist
<1>0. PICK s \in A : \E i \in 1 .. Len(held[s]) : h = held[s][i]
  BY HeldFinite
<1>1. PICK i \in 1 .. Len(held[s]) : h = held[s][i]
  BY <1>0
<1>2. PICK n \in DOMAIN a : a[n].shard = s
  BY DEF AnswersOf
<1>3. a \in Seq(Answered) /\ n \in 1 .. Len(a) /\ a[n].hits = FirstOf(held[s], PerShardK)
  BY <1>2 DEF AnswersOf
<1>4. /\ held[s] \in Seq(Hits)
      /\ \A j, l \in 1 .. Len(held[s]) : j < l => held[s][j].dist <= held[s][l].dist
  BY HoldingIs
<1>5. PICK b \in Seq(Hits) :
        /\ b = a[n].hits
        /\ Len(b) = IF PerShardK <= Len(held[s]) THEN PerShardK ELSE Len(held[s])
        /\ \A j \in 1 .. Len(b) : b[j] = held[s][j] /\ j \in 1 .. Len(held[s])
  BY <1>3, <1>4, FirstOfIs, PerShardKType
<1>6. Len(b) \in Nat /\ Len(held[s]) \in Nat /\ i \in Nat /\ PerShardK \in Nat /\ K \in Nat /\ K <= PerShardK
  BY <1>1, <1>4, PerShardKType
<1>7. CASE i <= Len(b)
  <2>1. i \in 1 .. Len(a[n].hits)
    BY <1>5, <1>6, <1>7
  <2>2. <<n, i>> \in HitPlaces(a) /\ HitAt(a, <<n, i>>) = a[n].hits[i]
    BY <1>3, <2>1, PlaceOf
  <2> QED
    BY <1>1, <1>5, <2>1, <2>2
<1>8. CASE i > Len(b)
  <2>1. Len(b) = PerShardK
    BY <1>5, <1>6, <1>8
  <2>2. \A j \in 1 .. Len(b) : b[j].dist <= h.dist
    BY <1>1, <1>4, <1>5, <1>6, <1>8
  <2> QED
    BY <1>3, <1>5, <1>6, <2>1, <2>2
<1> QED
  BY <1>6, <1>7, <1>8

LEMMA ListsHoldNoRepeats ==
  ASSUME NEW held \in Holdings, NEW A \in SUBSET ToSet(Shards), NEW a, AnswersOf(a, held, A)
  PROVE  NoRepeats(a) /\ \A p \in HitPlaces(a) : HitAt(a, p) \in Held(held, A)
<1>1. ASSUME NEW n \in DOMAIN a
      PROVE  \E s \in A : \A i \in DOMAIN a[n].hits :
               i \in 1 .. Len(held[s]) /\ a[n].hits[i] = held[s][i]
  <2>1. PICK s \in A : s = a[n].shard /\ a[n].hits = FirstOf(held[s], PerShardK)
    BY <1>1 DEF AnswersOf
  <2>2. held[s] \in Seq(Hits)
    BY HoldingIs
  <2>3. /\ FirstOf(held[s], PerShardK) \in Seq(Hits)
        /\ \A i \in 1 .. Len(FirstOf(held[s], PerShardK)) :
             FirstOf(held[s], PerShardK)[i] = held[s][i] /\ i \in 1 .. Len(held[s])
    BY <2>2, FirstOfIs, PerShardKType
  <2> QED
    BY <2>1, <2>3
<1>2. NoRepeats(a)
  <2> SUFFICES ASSUME NEW n \in DOMAIN a, NEW i \in DOMAIN a[n].hits, NEW j \in DOMAIN a[n].hits, i # j
               PROVE  a[n].hits[i].id # a[n].hits[j].id
    BY DEF NoRepeats
  <2>1. PICK s \in A : \A l \in DOMAIN a[n].hits : l \in 1 .. Len(held[s]) /\ a[n].hits[l] = held[s][l]
    BY <1>1
  <2>2. \A l, m \in 1 .. Len(held[s]) : l < m => held[s][l].id # held[s][m].id
    BY HoldingIs
  <2>3. i < j \/ j < i
    BY <2>1
  <2> QED
    BY <2>1, <2>2, <2>3
<1>3. ASSUME NEW p \in HitPlaces(a) PROVE HitAt(a, p) \in Held(held, A)
  <2>1. PICK n \in DOMAIN a : p \in {n} \X DOMAIN a[n].hits
    BY DEF HitPlaces
  <2>2. PICK i \in DOMAIN a[n].hits : p = <<n, i>>
    BY <2>1
  <2>3. PICK s \in A : \A l \in DOMAIN a[n].hits : l \in 1 .. Len(held[s]) /\ a[n].hits[l] = held[s][l]
    BY <1>1
  <2>4. HitAt(a, p) = held[s][i] /\ i \in 1 .. Len(held[s])
    BY <2>2, <2>3 DEF HitAt
  <2> QED
    BY <2>4, HeldFinite
<1> QED
  BY <1>2, <1>3

NearestHeld(H, id) == Min({h.dist : h \in {h \in H : h.id = id}})

LEMMA NearestHeldIs ==
  ASSUME NEW H \in SUBSET Hits, NEW h \in H
  PROVE  /\ NearestHeld(H, h.id) \in Nat /\ NearestHeld(H, h.id) <= h.dist
         /\ \E g \in H : g.id = h.id /\ g.dist = NearestHeld(H, h.id)
<1> DEFINE D == {g.dist : g \in {g \in H : g.id = h.id}}
<1>1. D \subseteq Nat /\ h.dist \in D
  BY DEF Hits
<1>2. Min(D) \in D /\ \A y \in D : Min(D) <= y
  BY <1>1, MinIsLeast
<1> QED
  BY <1>1, <1>2 DEF NearestHeld

\* What TopKExact says of a merged list and what the shards that answered hold.
Exact(top, H) ==
  LET ids == {h.id : h \in H}
      returned == {top[i].id : i \in DOMAIN top}
  IN /\ returned \subseteq ids /\ Cardinality(returned) = Len(top)
     /\ Len(top) = Min({K, Cardinality(ids)})
     /\ \A i \in DOMAIN top : top[i].dist = NearestHeld(H, top[i].id)
     /\ \A i, j \in DOMAIN top : i < j => top[i].dist <= top[j].dist
     /\ \A id \in ids \ returned : \A i \in DOMAIN top : top[i].dist <= NearestHeld(H, id)

LEMMA FuseIsExact ==
  ASSUME NEW held \in Holdings, NEW A \in SUBSET ToSet(Shards), NEW a, AnswersOf(a, held, A)
  PROVE  Exact(Fuse(a), Held(held, A))
<1> DEFINE H == Held(held, A)  F == FirstPlaces(a)  top == Fuse(a)  B(p) == BestDistance(a, p)
           ids == {h.id : h \in H}  returned == {top[i].id : i \in DOMAIN top}
<1>1. a \in Seq(Answered) /\ NoRepeats(a) /\ \A p \in HitPlaces(a) : HitAt(a, p) \in H
  BY ListsHoldNoRepeats DEF AnswersOf
<1>2. H \subseteq Hits /\ IsFiniteSet(H)
  BY HeldFinite
<1>3. F \subseteq HitPlaces(a)
  BY DEF FirstPlaces
<1>4. PICK k : k = Min({K, Cardinality(F)})
  OBVIOUS
<1>5. Cardinality(F) \in Nat /\ K \in Nat
  BY <1>1, <1>4, MergedEntries, PerShardKType
<1>6. k \in Nat /\ k = IF K <= Cardinality(F) THEN K ELSE Cardinality(F)
  BY <1>4, <1>5, MinOfTwo
<1>17. PICK P \in [1 .. k -> F] : Ranked(a, k, P)
  BY <1>1, <1>4, MergedEntries
<1>7.   /\ P \in [1 .. k -> F]
        /\ top = [n \in 1 .. k |-> [id |-> HitAt(a, P[n]).id, dist |-> B(P[n])]]
        /\ \A n \in 1 .. k : Cardinality(Ahead(a, P[n])) = n - 1
        /\ \A p \in F, n \in 1 .. k : SortedBefore(a, p, P[n]) => \E m \in 1 .. n - 1 : P[m] = p
        /\ \A n, m \in 1 .. k : m < n => SortedBefore(a, P[m], P[n])
  BY <1>17 DEF Ranked
<1>8. /\ DOMAIN top = 1 .. k /\ Len(top) = k
      /\ \A n \in 1 .. k : top[n].id = HitAt(a, P[n]).id /\ top[n].dist = B(P[n])
  BY <1>6, <1>7
<1>9. \A n \in 1 .. k : P[n] \in F /\ P[n] \in HitPlaces(a) /\ HitAt(a, P[n]) \in H /\ B(P[n]) \in Nat
  BY <1>1, <1>3, <1>7, BestIsNearest
<1> HIDE DEF top
<1>10. returned \subseteq ids
  BY <1>8, <1>9
<1>11. Cardinality(returned) = Len(top)
  <2> DEFINE f == [n \in 1 .. k |-> top[n].id]
  <2>1. \A n, m \in 1 .. k : top[n].id = top[m].id => n = m
    <3> SUFFICES ASSUME NEW n \in 1 .. k, NEW m \in 1 .. k, top[n].id = top[m].id, n # m PROVE FALSE
      OBVIOUS
    <3>1. P[n] = P[m]
      BY <1>1, <1>8, <1>9, FirstUnique
    <3>2. Cardinality(Ahead(a, P[n])) = n - 1 /\ Cardinality(Ahead(a, P[m])) = m - 1
      BY <1>7
    <3> QED
      BY <3>1, <3>2
  <2>2. returned = {top[n].id : n \in 1 .. k}
    BY <1>8
  <2>3. f \in [1 .. k -> returned] /\ IsInjective(f)
    BY <2>1, <2>2 DEF IsInjective
  <2>4. \A t \in returned : \E n \in 1 .. k : f[n] = t
    BY <2>2
  <2>5. f \in Injection(1 .. k, returned) /\ f \in Surjection(1 .. k, returned)
    BY <2>3, <2>4 DEF Injection, Surjection
  <2>6. IsFiniteSet(1 .. k) /\ Cardinality(1 .. k) = k
    BY <1>6, FS_Interval
  <2>7. Cardinality(returned) = Cardinality(1 .. k)
    BY <2>5, <2>6, FS_Surjection
  <2> QED
    BY <1>8, <2>6, <2>7
\* A crowd nearer than an entry would have kept it off the list.
<1>12. ASSUME NEW n \in 1 .. k, NEW h \in H, h.dist < B(P[n])
       PROVE  \E p \in HitPlaces(a) : HitAt(a, p) = h
  <2> SUFFICES ASSUME NEW c \in 1 .. Len(a), K <= Len(a[c].hits),
                      \A i \in 1 .. Len(a[c].hits) : a[c].hits[i].dist <= h.dist
               PROVE  FALSE
    BY PlacedOrCrowded
  <2>1. h.dist \in Nat
    BY <1>2 DEF Hits
  <2>2. K <= Cardinality(Ahead(a, P[n]))
    BY <1>1, <1>9, <1>12, <2>1, Crowd
  <2> QED
    BY <1>5, <1>6, <1>7, <2>2
<1>13. \A n \in 1 .. k : top[n].dist = NearestHeld(H, top[n].id)
  <2> TAKE n \in 1 .. k
  <2>1. PICK r \in HitPlaces(a) : HitAt(a, r).id = top[n].id /\ HitAt(a, r).dist = B(P[n])
    BY <1>1, <1>8, <1>9, BestIsNearest
  <2>2. PICK g \in H : g.id = top[n].id /\ g.dist = NearestHeld(H, top[n].id)
    BY <1>1, <1>2, <2>1, NearestHeldIs
  <2>3. NearestHeld(H, top[n].id) \in Nat /\ NearestHeld(H, top[n].id) <= B(P[n])
    BY <1>1, <1>2, <2>1, NearestHeldIs
  <2>4. ASSUME g.dist < B(P[n]) PROVE FALSE
    <3>1. PICK p \in HitPlaces(a) : HitAt(a, p) = g
      BY <1>12, <2>4
    <3>2. B(P[n]) <= HitAt(a, p).dist
      BY <1>1, <1>8, <1>9, <2>2, <3>1, BestIsNearest
    <3> QED
      BY <1>9, <2>2, <2>3, <2>4, <3>1, <3>2
  <2> QED
    BY <1>8, <1>9, <2>2, <2>3, <2>4
<1>14. \A i, j \in 1 .. k : i < j => top[i].dist <= top[j].dist
  <2> SUFFICES ASSUME NEW i \in 1 .. k, NEW j \in 1 .. k, i < j PROVE top[i].dist <= top[j].dist
    OBVIOUS
  <2>1. SortedBefore(a, P[i], P[j])
    BY <1>7
  <2> QED
    BY <1>8, <1>9, <2>1 DEF SortedBefore
<1>15. \A id \in ids \ returned : \A i \in 1 .. k : top[i].dist <= NearestHeld(H, id)
  <2> SUFFICES ASSUME NEW id \in ids \ returned, NEW i \in 1 .. k, ~ (top[i].dist <= NearestHeld(H, id))
               PROVE  FALSE
    OBVIOUS
  <2>1. PICK x \in H : x.id = id
    OBVIOUS
  <2>2. PICK g \in H : g.id = id /\ g.dist = NearestHeld(H, id)
    BY <1>2, <2>1, NearestHeldIs
  <2>3. g.dist \in Nat /\ g.dist < B(P[i])
    BY <1>2, <1>8, <1>9, <2>2 DEF Hits
  <2>4. PICK p \in HitPlaces(a) : HitAt(a, p) = g
    BY <1>12, <2>3
  <2>5. PICK f \in F : HitAt(a, f).id = id
    BY <1>1, <2>2, <2>4, FirstExists
  <2>6. B(f) \in Nat /\ B(f) <= g.dist
    BY <1>1, <1>3, <2>2, <2>4, <2>5, BestIsNearest
  <2>7. SortedBefore(a, f, P[i])
    BY <1>9, <2>3, <2>6 DEF SortedBefore
  <2>8. PICK m \in 1 .. i - 1 : P[m] = f
    BY <1>7, <2>7
  <2>9. m \in 1 .. k
    BY <1>6
  <2>10. top[m].id = id
    BY <1>8, <2>5, <2>8, <2>9
  <2> QED
    BY <1>8, <2>9, <2>10
<1>16. Len(top) = Min({K, Cardinality(ids)})
  <2> DEFINE f == [p \in F |-> HitAt(a, p).id]
  <2>1. IsFiniteSet(ids) /\ Cardinality(ids) \in Nat
    <3> DEFINE e == [h \in H |-> h.id]
    <3>1. e \in Surjection(H, ids)
      BY DEF Surjection
    <3> QED
      BY <1>2, <3>1, FS_Surjection, FS_CardinalityType
  <2>2. f \in [F -> ids]
    BY <1>1, <1>3
  <2>3. IsInjective(f)
    BY <1>1, FirstUnique DEF IsInjective
  <2>4. f \in Injection(F, ids)
    BY <2>2, <2>3 DEF Injection
  <2>5. Cardinality(F) <= Cardinality(ids)
    BY <2>1, <2>4, FS_Injection
  <2>6. CASE K <= Cardinality(F)
    BY <1>5, <1>6, <1>8, <2>1, <2>5, <2>6, MinOfTwo
  <2>7. CASE ~ (K <= Cardinality(F))
    <3>1. \A h \in H : \E p \in HitPlaces(a) : HitAt(a, p) = h
      <4> SUFFICES ASSUME NEW h \in H, NEW c \in 1 .. Len(a), K <= Len(a[c].hits),
                          \A i \in 1 .. Len(a[c].hits) : a[c].hits[i].dist <= h.dist
                   PROVE  FALSE
        BY PlacedOrCrowded
      <4>1. h.dist \in Nat
        BY <1>2 DEF Hits
      <4> QED
        BY <1>1, <2>7, <4>1, Crowd
    <3>2. \A id \in ids : \E p \in F : f[p] = id
      <4> TAKE id \in ids
      <4>1. PICK h \in H : h.id = id
        OBVIOUS
      <4>2. PICK p \in HitPlaces(a) : HitAt(a, p) = h
        BY <3>1
      <4> QED
        BY <1>1, <4>1, <4>2, FirstExists
    <3>3. f \in Surjection(F, ids)
      BY <2>2, <3>2 DEF Surjection
    <3>4. Cardinality(F) = Cardinality(ids)
      BY <2>1, <2>4, <3>3, FS_Injection
    <3> QED
      BY <1>5, <1>6, <1>8, <2>7, <3>4, MinOfTwo
  <2> QED
    BY <2>6, <2>7
<1> QED
  BY <1>8, <1>10, <1>11, <1>13, <1>14, <1>15, <1>16 DEF Exact, top

-----------------------------------------------------------------------------
(* ShardQuery: the inductive invariant.  A shard that a search asked is in one place: in *)
(* the queue, with a thread, in a finished future, or collected, answered or failed.     *)

Names == ToSet(Shards)
Tasks == Searches \X Names

ShardTypes ==
  /\ holds \in Holdings /\ tasks \in Seq(Tasks) /\ working \subseteq Tasks
  /\ completed \in [Searches -> SUBSET [shard : Names, ok : BOOLEAN, hits : Seq(Hits)]]
  /\ gathered \in [Searches -> Seq(Answered)]
  /\ failedShards \in [Searches -> SUBSET Names]
  /\ searchPc \in [Searches -> {"new", "wait", "done", "raised"}]

Finished(q) == {f.shard : f \in completed[q]}
Heard(q) == {gathered[q][n].shard : n \in DOMAIN gathered[q]}

OnePlace ==
  /\ IsInjective(tasks) /\ ToSet(tasks) \cap working = {}
  /\ \A t \in ToSet(tasks) \cup working :
       t[2] \notin Finished(t[1]) \cup Heard(t[1]) \cup failedShards[t[1]]
  /\ \A q \in Searches :
       /\ Finished(q) \cap (Heard(q) \cup failedShards[q]) = {}
       /\ Heard(q) \cap failedShards[q] = {}
       /\ \A f, g \in completed[q] : f.shard = g.shard => f = g
       /\ \A n, m \in DOMAIN gathered[q] : gathered[q][n].shard = gathered[q][m].shard => n = m

\* What the shards answered, and that a search that merges has heard of all.
Truthful ==
  /\ \A q \in Searches :
       /\ \A f \in completed[q] : f.ok => f.hits = FirstOf(holds[f.shard], PerShardK)
       /\ \A n \in DOMAIN gathered[q] :
            gathered[q][n].hits = FirstOf(holds[gathered[q][n].shard], PerShardK)
  /\ \A q \in Searches :
       /\ searchPc[q] \in {"new", "raised"} =>
            /\ \A t \in ToSet(tasks) \cup working : t[1] # q
            /\ completed[q] = {} /\ gathered[q] = <<>> /\ failedShards[q] = {}
       /\ searchPc[q] = "done" => Names \subseteq Heard(q) \cup failedShards[q]

ShardInv == ShardTypes /\ OnePlace /\ Truthful

LEMMA NamesFinite ==
  /\ IsFiniteSet(Names) /\ Cardinality(Names) = Len(Shards) /\ Len(Shards) \in Nat
  /\ DOMAIN Shards = 1 .. Len(Shards) /\ \A n \in DOMAIN Shards : Shards[n] \in Names
<1> DEFINE f == [i \in DOMAIN Shards |-> Shards[i]]
<1>1. DOMAIN Shards = 1 .. Len(Shards) /\ Len(Shards) \in Nat
  BY ShardAssumption
<1>2. \A n \in DOMAIN Shards : Shards[n] \in Names
  BY DEF Names, ToSet
<1>3. f \in [DOMAIN Shards -> Names] /\ IsInjective(f)
  BY <1>2, ShardAssumption DEF IsInjective
<1>4. \A x \in Names : \E n \in DOMAIN Shards : f[n] = x
  BY DEF Names, ToSet
<1>5. f \in Surjection(DOMAIN Shards, Names) /\ f \in Injection(DOMAIN Shards, Names)
  BY <1>3, <1>4 DEF Surjection, Injection
<1>6. IsFiniteSet(DOMAIN Shards) /\ Cardinality(DOMAIN Shards) = Len(Shards)
  <2>1. PICK m \in Nat : m = Len(Shards)
    BY <1>1
  <2>2. IsFiniteSet(1 .. m) /\ Cardinality(1 .. m) = m
    BY FS_Interval
  <2> QED
    BY <1>1, <2>1, <2>2
<1> QED
  BY <1>1, <1>2, <1>5, <1>6, FS_Surjection

LEMMA ShardStart == ShardInit => ShardInv
<1> SUFFICES ASSUME ShardInit PROVE ShardInv
  OBVIOUS
<1>1. /\ holds \in Holdings /\ tasks = <<>> /\ working = {}
      /\ completed = [q \in Searches |-> {}] /\ gathered = [q \in Searches |-> <<>>]
      /\ failedShards = [q \in Searches |-> {}] /\ searchPc = [q \in Searches |-> "new"]
  BY DEF ShardInit
<1>2. <<>> \in Seq(Tasks) /\ <<>> \in Seq(Answered) /\ ToSet(tasks) = {} /\ DOMAIN tasks = {}
  BY <1>1 DEF ToSet
<1>3. ShardTypes
  BY <1>1, <1>2 DEF ShardTypes
<1>4. OnePlace
  BY <1>1, <1>2 DEF OnePlace, Finished, Heard, IsInjective
<1>5. Truthful
  BY <1>1, <1>2 DEF Truthful
<1> QED
  BY <1>3, <1>4, <1>5 DEF ShardInv

LEMMA AskKeeps ==
  ASSUME ShardInv, NEW q \in Searches, Ask(q)
  PROVE  ShardInv'
<1>1. searchPc[q] = "new" /\ UNCHANGED <<holds, working, completed, gathered, failedShards>>
  BY DEF Ask
<1>2. \A p \in Searches : UNCHANGED <<Finished(p), Heard(p)>>
  BY <1>1 DEF Finished, Heard
<1>3. CASE poolOpen
  <2> DEFINE new == [i \in DOMAIN Shards |-> <<q, Shards[i]>>]
  <2>1. tasks' = tasks \o new /\ searchPc' = [searchPc EXCEPT ![q] = "wait"]
    BY <1>3 DEF Ask
  <2>2. PICK m \in Nat : m = Len(Shards)
    BY NamesFinite
  <2>3. new \in Seq(Tasks) /\ Len(new) = m /\ \A i \in 1 .. m : new[i] = <<q, Shards[i]>> /\ i \in DOMAIN Shards
    BY <2>2, NamesFinite DEF Tasks
  <2> HIDE DEF new
  <2>4. tasks \in Seq(Tasks)
    BY DEF ShardInv, ShardTypes
  <2>5. PICK l \in Nat : l = Len(tasks)
    BY <2>4
  <2>6. /\ tasks' \in Seq(Tasks) /\ DOMAIN tasks' = 1 .. l + m
        /\ \A i \in 1 .. l : tasks'[i] = tasks[i]
        /\ \A i \in l + 1 .. l + m : tasks'[i] = <<q, Shards[i - l]>> /\ i - l \in DOMAIN Shards
    <3>1. PICK u : u = tasks \o new
      OBVIOUS
    <3>2. /\ u \in Seq(Tasks) /\ Len(u) = l + m
          /\ \A i \in 1 .. l + m : u[i] = IF i <= l THEN tasks[i] ELSE new[i - l]
      <4>1. /\ tasks \o new \in Seq(Tasks) /\ Len(tasks \o new) = Len(tasks) + Len(new)
            /\ \A i \in 1 .. Len(tasks) + Len(new) :
                 (tasks \o new)[i] = IF i <= Len(tasks) THEN tasks[i] ELSE new[i - Len(tasks)]
        <5>1. new \in Seq(Tasks)
          BY <2>3
        <5> QED
          BY <2>4, <5>1, ConcatProperties
      <4>2. Len(tasks) = l /\ Len(new) = m
        BY <2>3, <2>5
      <4> QED
        BY <3>1, <4>1, <4>2
    <3>3. DOMAIN u = 1 .. l + m
      BY <3>2
    <3>4. \A i \in 1 .. l : u[i] = tasks[i]
      BY <3>2
    <3>5. \A i \in l + 1 .. l + m : u[i] = <<q, Shards[i - l]>> /\ i - l \in DOMAIN Shards
      <4> TAKE i \in l + 1 .. l + m
      <4>1. i - l \in 1 .. m /\ u[i] = new[i - l]
        BY <3>2
      <4> QED
        BY <2>3, <4>1
    <3> QED
      BY <2>1, <3>1, <3>2, <3>3, <3>4, <3>5
  <2>7. DOMAIN tasks = 1 .. l
    BY <2>4, <2>5
  <2>8. \A t \in ToSet(tasks') : t \in ToSet(tasks) \/ (t[1] = q /\ t[2] \in Names)
    <3> SUFFICES ASSUME NEW i \in 1 .. l + m
                 PROVE  tasks'[i] \in ToSet(tasks) \/ (tasks'[i][1] = q /\ tasks'[i][2] \in Names)
      BY <2>6 DEF ToSet
    <3>1. CASE i <= l
      BY <2>6, <2>7, <3>1 DEF ToSet
    <3>2. CASE i > l
      <4>1. i \in l + 1 .. l + m
        BY <2>5, <3>2
      <4>2. tasks'[i] = <<q, Shards[i - l]>> /\ i - l \in DOMAIN Shards
        BY <2>6, <4>1
      <4>3. Shards[i - l] \in Names
        BY <4>2, NamesFinite
      <4> QED
        BY <4>2, <4>3
    <3> QED
      BY <2>5, <3>1, <3>2
  <2>9. \A t \in ToSet(tasks) \cup working : t[1] # q
    BY <1>1 DEF ShardInv, Truthful
  <2>10. completed[q] = {} /\ gathered[q] = <<>> /\ failedShards[q] = {}
    BY <1>1 DEF ShardInv, Truthful
  <2>11. Finished(q) = {} /\ Heard(q) = {}
    BY <2>10 DEF Finished, Heard
  <2>12. IsInjective(tasks')
    <3> SUFFICES ASSUME NEW i \in 1 .. l + m, NEW j \in 1 .. l + m, tasks'[i] = tasks'[j]
                 PROVE  i = j
      BY <2>6 DEF IsInjective
    <3>1. CASE i <= l /\ j <= l
      BY <2>5, <2>6, <2>7, <3>1 DEF ShardInv, OnePlace, IsInjective
    <3>2. CASE i > l /\ j > l
      <4>1. Shards[i - l] = Shards[j - l] /\ i - l \in DOMAIN Shards /\ j - l \in DOMAIN Shards
        BY <2>5, <2>6, <3>2
      <4>2. i - l = j - l
        BY <4>1, ShardAssumption DEF IsInjective
      <4> QED
        BY <2>5, <4>2
    <3>3. ASSUME NEW x \in 1 .. l, NEW y \in l + 1 .. l + m, tasks'[x] = tasks'[y] PROVE FALSE
      <4>1. tasks'[y] = <<q, Shards[y - l]>>
        BY <2>6
      <4>2. tasks'[y][1] = q
        BY <4>1
      <4>3. tasks[x] \in ToSet(tasks) /\ tasks'[x] = tasks[x]
        BY <2>6, <2>7 DEF ToSet
      <4> QED
        BY <2>9, <3>3, <4>2, <4>3
    <3> QED
      BY <2>5, <3>1, <3>2, <3>3
  <2>13. ShardTypes'
    BY <1>1, <2>1, <2>6 DEF ShardInv, ShardTypes
  <2>14. OnePlace'
    <3>1. ToSet(tasks') \cap working = {}
      BY <2>8, <2>9 DEF ShardInv, OnePlace
    <3>2. \A t \in ToSet(tasks') \cup working :
            t[2] \notin Finished(t[1]) \cup Heard(t[1]) \cup failedShards[t[1]]
      BY <2>8, <2>10, <2>11 DEF ShardInv, OnePlace
    <3>3. \A t \in ToSet(tasks') \cup working : t[1] \in Searches
      <4>1. \A t \in ToSet(tasks) \cup working : t \in Tasks
        BY <2>4 DEF ToSet, ShardInv, ShardTypes
      <4> QED
        BY <2>8, <4>1 DEF Tasks
    <3> QED
      BY <1>1, <1>2, <2>12, <3>1, <3>2, <3>3 DEF ShardInv, OnePlace
  <2>15. Truthful'
    <3>1. \A p \in Searches : p # q => searchPc'[p] = searchPc[p]
      BY <2>1 DEF ShardInv, ShardTypes
    <3>2. searchPc'[q] = "wait"
      BY <2>1 DEF ShardInv, ShardTypes
    <3>3. \A p \in Searches : searchPc'[p] \in {"new", "raised"} =>
            /\ \A t \in ToSet(tasks') \cup working : t[1] # p
            /\ completed[p] = {} /\ gathered[p] = <<>> /\ failedShards[p] = {}
      BY <2>8, <3>1, <3>2 DEF ShardInv, Truthful
    <3>4. \A p \in Searches : searchPc'[p] = "done" => Names \subseteq Heard(p) \cup failedShards[p]
      BY <3>1, <3>2 DEF ShardInv, Truthful
    <3> QED
      BY <1>1, <1>2, <3>3, <3>4 DEF ShardInv, Truthful
  <2> QED
    BY <2>13, <2>14, <2>15 DEF ShardInv
<1>4. CASE ~ poolOpen
  <2>1. searchPc' = [searchPc EXCEPT ![q] = "raised"] /\ UNCHANGED tasks
    BY <1>4 DEF Ask
  <2>2. ShardTypes'
    BY <1>1, <2>1 DEF ShardInv, ShardTypes
  <2>3. OnePlace'
    <3>1. \A t \in ToSet(tasks) \cup working : t[1] \in Searches
      BY DEF ShardInv, ShardTypes, Tasks, ToSet
    <3> QED
      BY <1>1, <1>2, <2>1, <3>1 DEF ShardInv, OnePlace
  <2>4. Truthful'
    BY <1>1, <1>2, <2>1 DEF ShardInv, ShardTypes, Truthful
  <2> QED
    BY <2>2, <2>3, <2>4 DEF ShardInv
<1> QED
  BY <1>3, <1>4

\* Taking the first off a queue without repeats.
LEMMA FirstTaken ==
  ASSUME NEW S, NEW u \in Seq(S), u # <<>>, IsInjective(u)
  PROVE  /\ Head(u) \in ToSet(u) /\ Tail(u) \in Seq(S) /\ IsInjective(Tail(u))
         /\ ToSet(Tail(u)) \subseteq ToSet(u) \ {Head(u)}
<1>1. PICK l \in Nat : l = Len(u)
  OBVIOUS
<1>2. l # 0 /\ DOMAIN u = 1 .. l
  BY <1>1
<1>3. Head(u) = u[1] /\ 1 \in DOMAIN u
  BY <1>1, <1>2
<1>4. PICK t : t = Tail(u)
  OBVIOUS
<1>5. t \in Seq(S) /\ Len(t) = l - 1 /\ \A i \in 1 .. l - 1 : t[i] = u[i + 1]
  BY <1>1, <1>2, <1>4
<1>6. DOMAIN t = 1 .. l - 1
  BY <1>5
<1>7. \A i \in 1 .. l - 1 : i + 1 \in DOMAIN u /\ i + 1 # 1
  BY <1>2
<1>8. IsInjective(t)
  <2> SUFFICES ASSUME NEW i \in 1 .. l - 1, NEW j \in 1 .. l - 1, t[i] = t[j] PROVE i = j
    BY <1>6 DEF IsInjective
  <2>1. u[i + 1] = u[j + 1]
    BY <1>5
  <2>2. i + 1 = j + 1
    BY <1>7, <2>1 DEF IsInjective
  <2> QED
    BY <2>2
<1>9. ASSUME NEW i \in 1 .. l - 1 PROVE t[i] \in ToSet(u) /\ t[i] # Head(u)
  <2>1. t[i] = u[i + 1] /\ i + 1 \in DOMAIN u /\ i + 1 # 1
    BY <1>5, <1>7
  <2> QED
    BY <1>3, <2>1 DEF ToSet, IsInjective
<1>10. ToSet(t) \subseteq ToSet(u) \ {Head(u)}
  BY <1>6, <1>9 DEF ToSet
<1>11. Head(u) \in ToSet(u)
  BY <1>3 DEF ToSet
<1> QED
  BY <1>4, <1>5, <1>8, <1>10, <1>11

LEMMA StartKeeps ==
  ASSUME ShardInv, StartTask
  PROVE  ShardInv'
<1>1. /\ tasks # <<>> /\ working' = working \cup {Head(tasks)} /\ tasks' = Tail(tasks)
      /\ UNCHANGED <<holds, completed, gathered, failedShards, searchPc>>
  BY DEF StartTask
<1>2. tasks \in Seq(Tasks) /\ IsInjective(tasks)
  BY DEF ShardInv, ShardTypes, OnePlace
<1>3. /\ Head(tasks) \in ToSet(tasks) /\ tasks' \in Seq(Tasks) /\ IsInjective(tasks')
      /\ ToSet(tasks') \subseteq ToSet(tasks) \ {Head(tasks)}
  BY <1>1, <1>2, FirstTaken
<1>4. ToSet(tasks') \cup working' \subseteq ToSet(tasks) \cup working
  BY <1>1, <1>3
<1>5. ToSet(tasks) \subseteq Tasks
  BY <1>2 DEF ToSet
<1>6. \A p \in Searches : UNCHANGED <<Finished(p), Heard(p)>>
  BY <1>1 DEF Finished, Heard
<1>7. \A t \in ToSet(tasks') \cup working' : t[1] \in Searches
  BY <1>4, <1>5 DEF ShardInv, ShardTypes, Tasks
<1>8. ShardTypes'
  BY <1>1, <1>3, <1>5 DEF ShardInv, ShardTypes
<1>9. OnePlace'
  <2>1. ToSet(tasks') \cap working' = {}
    BY <1>1, <1>3 DEF ShardInv, OnePlace
  <2> QED
    BY <1>1, <1>3, <1>4, <1>6, <1>7, <2>1 DEF ShardInv, OnePlace
<1>10. Truthful'
  BY <1>1, <1>4, <1>6 DEF ShardInv, Truthful
<1> QED
  BY <1>8, <1>9, <1>10 DEF ShardInv

\* A shard answers or raises: its future f is finished.
LEMMA EndKeeps ==
  ASSUME ShardInv, NEW t \in Tasks, Ends(t)
  PROVE  ShardInv'
<1> DEFINE q == t[1]
<1>1. t \in working /\ q \in Searches /\ t[2] \in Names
  BY DEF Ends, Answer, Raise, Tasks
<1>2. holds \in Holdings
  BY DEF ShardInv, ShardTypes
<1>3. FirstOf(holds[t[2]], PerShardK) \in Seq(Hits) /\ <<>> \in Seq(Hits)
  BY <1>1, <1>2, HoldingIs, FirstOfIs, PerShardKType DEF Names
<1>4. PICK f \in [shard : Names, ok : BOOLEAN, hits : Seq(Hits)] :
        /\ f.shard = t[2]
        /\ f.ok => f.hits = FirstOf(holds[t[2]], PerShardK)
        /\ completed' = [completed EXCEPT ![q] = @ \cup {f}]
  <2>1. CASE Answer(t)
    <3> DEFINE g == [shard |-> t[2], ok |-> TRUE, hits |-> FirstOf(holds[t[2]], PerShardK)]
    <3>1. g \in [shard : Names, ok : BOOLEAN, hits : Seq(Hits)]
      BY <1>1, <1>3
    <3> QED
      BY <2>1, <3>1 DEF Answer
  <2>2. CASE Raise(t)
    <3> DEFINE g == [shard |-> t[2], ok |-> FALSE, hits |-> <<>>]
    <3>1. g \in [shard : Names, ok : BOOLEAN, hits : Seq(Hits)]
      BY <1>1, <1>3
    <3> QED
      BY <2>2, <3>1 DEF Raise
  <2> QED
    BY <2>1, <2>2 DEF Ends
<1>5. working' = working \ {t} /\ UNCHANGED <<holds, tasks, gathered, failedShards, searchPc>>
  BY DEF Ends, Answer, Raise
<1>6. /\ completed'[q] = completed[q] \cup {f}
      /\ \A p \in Searches : p # q => completed'[p] = completed[p]
  BY <1>1, <1>4 DEF ShardInv, ShardTypes
<1>7. /\ Finished(q)' = Finished(q) \cup {t[2]}
      /\ \A p \in Searches : p # q => Finished(p)' = Finished(p)
      /\ \A p \in Searches : Heard(p)' = Heard(p)
  BY <1>4, <1>5, <1>6 DEF Finished, Heard
<1>8. t[2] \notin Finished(q) \cup Heard(q) \cup failedShards[q]
  BY <1>1 DEF ShardInv, OnePlace
<1>9. \A x \in (ToSet(tasks) \cup working) \ {t} : x \in Tasks /\ (x[1] = q => x[2] # t[2])
  <2>1. \A x \in ToSet(tasks) \cup working : x \in Tasks
    BY DEF ToSet, ShardInv, ShardTypes
  <2> QED
    BY <2>1 DEF Tasks
<1>10. ToSet(tasks) \cup working' = (ToSet(tasks) \cup working) \ {t}
  BY <1>1, <1>5 DEF ShardInv, OnePlace
<1>11. ShardTypes'
  BY <1>1, <1>4, <1>5 DEF ShardInv, ShardTypes
<1>12. OnePlace'
  <2>1. \A x \in ToSet(tasks) \cup working' :
          x[2] \notin Finished(x[1])' \cup Heard(x[1])' \cup failedShards[x[1]]
    BY <1>7, <1>9, <1>10 DEF ShardInv, OnePlace, Tasks
  <2>2. \A p \in Searches : /\ Finished(p)' \cap (Heard(p)' \cup failedShards[p]) = {}
                            /\ Heard(p)' \cap failedShards[p] = {}
    BY <1>7, <1>8 DEF ShardInv, OnePlace
  <2>3. \A p \in Searches : \A g, h \in completed'[p] : g.shard = h.shard => g = h
    <3>1. \A g \in completed[q] : g.shard # t[2]
      BY <1>8 DEF Finished
    <3> QED
      BY <1>4, <1>6, <3>1 DEF ShardInv, OnePlace
  <2> QED
    BY <1>5, <2>1, <2>2, <2>3 DEF ShardInv, OnePlace
<1>13. Truthful'
  <2>1. \A p \in Searches : \A g \in completed'[p] : g.ok => g.hits = FirstOf(holds[g.shard], PerShardK)
    BY <1>4, <1>6 DEF ShardInv, Truthful
  <2>2. searchPc[q] \notin {"new", "raised"}
    BY <1>1 DEF ShardInv, Truthful
  <2>3. \A p \in Searches : searchPc[p] \in {"new", "raised"} => p # q /\ completed'[p] = {}
    BY <1>6, <2>2 DEF ShardInv, Truthful
  <2> QED
    BY <1>5, <1>7, <1>10, <2>1, <2>3 DEF ShardInv, Truthful
<1> QED
  BY <1>11, <1>12, <1>13 DEF ShardInv

LEMMA CollectKeeps ==
  ASSUME ShardInv, NEW q \in Searches, Collect(q)
  PROVE  ShardInv'
<1>1. PICK f \in completed[q] :
        /\ completed' = [completed EXCEPT ![q] = @ \ {f}]
        /\ IF f.ok THEN /\ gathered' = [gathered EXCEPT ![q] = Append(@, [shard |-> f.shard, hits |-> f.hits])]
                        /\ UNCHANGED failedShards
           ELSE failedShards' = [failedShards EXCEPT ![q] = @ \cup {f.shard}] /\ UNCHANGED gathered
  BY DEF Collect
<1>2. UNCHANGED <<holds, tasks, working, searchPc>>
  BY DEF Collect
<1>3. f \in [shard : Names, ok : BOOLEAN, hits : Seq(Hits)]
  BY DEF ShardInv, ShardTypes
<1>4. /\ completed'[q] = completed[q] \ {f}
      /\ \A p \in Searches : p # q => completed'[p] = completed[p]
  BY <1>1 DEF ShardInv, ShardTypes
<1>5. /\ Finished(q)' = Finished(q) \ {f.shard} /\ f.shard \in Finished(q)
      /\ \A p \in Searches : p # q => Finished(p)' = Finished(p)
  BY <1>4 DEF Finished, ShardInv, OnePlace
<1>6. /\ f.shard \notin Heard(q) \cup failedShards[q]
  BY <1>5 DEF ShardInv, OnePlace
<1>7. searchPc[q] = "wait"
  <2>1. searchPc[q] \notin {"new", "raised"}
    BY DEF ShardInv, Truthful
  <2>2. searchPc[q] # "done"
    BY <1>3, <1>6 DEF ShardInv, Truthful
  <2> QED
    BY <2>1, <2>2 DEF ShardInv, ShardTypes
<1>8. \A x \in ToSet(tasks) \cup working : x \in Tasks
  BY DEF ToSet, ShardInv, ShardTypes
<1>9. /\ Heard(q)' \cup failedShards'[q] = Heard(q) \cup failedShards[q] \cup {f.shard}
      /\ Heard(q)' \cap failedShards'[q] = {}
      /\ \A p \in Searches : p # q => Heard(p)' = Heard(p) /\ failedShards'[p] = failedShards[p]
      /\ \A p \in Searches : \A n, m \in DOMAIN gathered'[p] :
           gathered'[p][n].shard = gathered'[p][m].shard => n = m
      /\ \A p \in Searches : \A n \in DOMAIN gathered'[p] :
           gathered'[p][n].hits = FirstOf(holds[gathered'[p][n].shard], PerShardK)
      /\ gathered' \in [Searches -> Seq(Answered)]
      /\ failedShards' \in [Searches -> SUBSET Names]
  <2>1. CASE f.ok
    <3> DEFINE new == [shard |-> f.shard, hits |-> f.hits]
    <3>1. gathered' = [gathered EXCEPT ![q] = Append(gathered[q], new)] /\ failedShards' = failedShards
      BY <1>1, <2>1
    <3>2. new \in Answered /\ new.hits = FirstOf(holds[new.shard], PerShardK) /\ new.shard = f.shard
      BY <1>3, <2>1 DEF Answered, Names, ShardInv, Truthful
    <3> HIDE DEF new
    <3>3. gathered \in [Searches -> Seq(Answered)] /\ failedShards \in [Searches -> SUBSET Names]
      BY DEF ShardInv, ShardTypes
    <3>4. PICK g \in Seq(Answered) : g = gathered[q]
      BY <3>3
    <3>5. PICK l \in Nat : l = Len(g)
      BY <3>4
    <3>6. PICK h : h = Append(g, new)
      OBVIOUS
    <3>7. /\ h \in Seq(Answered) /\ Len(h) = l + 1 /\ h[l + 1] = new
          /\ \A n \in 1 .. l : h[n] = g[n]
      BY <3>2, <3>5, <3>6, AppendProperties
    <3>8. DOMAIN h = 1 .. l + 1 /\ DOMAIN g = 1 .. l
      BY <3>5, <3>7
    <3>9. gathered'[q] = h /\ \A p \in Searches : p # q => gathered'[p] = gathered[p]
      BY <3>1, <3>3, <3>4, <3>6
    <3>10. gathered' \in [Searches -> Seq(Answered)]
      BY <3>1, <3>3, <3>4, <3>6, <3>7
    <3>11. Heard(q) = {g[n].shard : n \in 1 .. l} /\ Heard(q)' = {h[n].shard : n \in 1 .. l + 1}
      BY <3>4, <3>8, <3>9 DEF Heard
    <3>12. Heard(q)' = Heard(q) \cup {f.shard}
      BY <3>2, <3>7, <3>11
    <3>13. \A n, m \in 1 .. l + 1 : h[n].shard = h[m].shard => n = m
      <4>1. \A n, m \in 1 .. l : g[n].shard = g[m].shard => n = m
        BY <3>4, <3>8 DEF ShardInv, OnePlace
      <4>2. \A n \in 1 .. l : h[n].shard # h[l + 1].shard
        BY <1>6, <3>2, <3>7, <3>11
      <4>3. \A n \in 1 .. l + 1 : n \in 1 .. l \/ n = l + 1
        OBVIOUS
      <4> QED
        BY <3>7, <4>1, <4>2, <4>3
    <3>14. \A n \in 1 .. l + 1 : h[n].hits = FirstOf(holds[h[n].shard], PerShardK)
      <4>1. \A n \in 1 .. l : g[n].hits = FirstOf(holds[g[n].shard], PerShardK)
        BY <3>4, <3>8 DEF ShardInv, Truthful
      <4>2. \A n \in 1 .. l + 1 : n \in 1 .. l \/ n = l + 1
        OBVIOUS
      <4> QED
        BY <3>2, <3>7, <4>1, <4>2
    <3>15. \A p \in Searches : p # q => Heard(p)' = Heard(p)
      BY <3>9 DEF Heard
    <3>16. \A p \in Searches : \A n, m \in DOMAIN gathered'[p] :
             gathered'[p][n].shard = gathered'[p][m].shard => n = m
      BY <3>8, <3>9, <3>13 DEF ShardInv, OnePlace
    <3>17. \A p \in Searches : \A n \in DOMAIN gathered'[p] :
             gathered'[p][n].hits = FirstOf(holds[gathered'[p][n].shard], PerShardK)
      BY <3>8, <3>9, <3>14 DEF ShardInv, Truthful
    <3>18. Heard(q)' \cap failedShards'[q] = {}
      BY <1>6, <3>1, <3>12 DEF ShardInv, OnePlace
    <3> QED
      BY <3>1, <3>3, <3>10, <3>12, <3>15, <3>16, <3>17, <3>18
  <2>2. CASE ~ f.ok
    <3>1. failedShards' = [failedShards EXCEPT ![q] = @ \cup {f.shard}] /\ UNCHANGED gathered
      BY <1>1, <2>2
    <3>2. \A p \in Searches : Heard(p)' = Heard(p)
      BY <3>1 DEF Heard
    <3>3. failedShards' \in [Searches -> SUBSET Names]
      BY <1>3, <3>1 DEF ShardInv, ShardTypes
    <3>4. /\ failedShards'[q] = failedShards[q] \cup {f.shard}
          /\ \A p \in Searches : p # q => failedShards'[p] = failedShards[p]
      BY <3>1 DEF ShardInv, ShardTypes
    <3>5. Heard(q) \cap failedShards[q] = {}
      BY DEF ShardInv, OnePlace
    <3>6. \A p \in Searches : \A n, m \in DOMAIN gathered[p] :
            gathered[p][n].shard = gathered[p][m].shard => n = m
      BY DEF ShardInv, OnePlace
    <3>7. \A p \in Searches : \A n \in DOMAIN gathered[p] :
            gathered[p][n].hits = FirstOf(holds[gathered[p][n].shard], PerShardK)
      BY DEF ShardInv, Truthful
    <3>8. gathered \in [Searches -> Seq(Answered)]
      BY DEF ShardInv, ShardTypes
    <3> QED
      BY <1>6, <3>1, <3>2, <3>3, <3>4, <3>5, <3>6, <3>7, <3>8
  <2> QED
    BY <2>1, <2>2
<1>10. ShardTypes'
  <2>1. completed' \in [Searches -> SUBSET [shard : Names, ok : BOOLEAN, hits : Seq(Hits)]]
    BY <1>1 DEF ShardInv, ShardTypes
  <2> QED
    BY <1>2, <1>9, <2>1 DEF ShardInv, ShardTypes
<1>11. OnePlace'
  <2>1. \A x \in ToSet(tasks) \cup working :
          x[2] \notin Finished(x[1])' \cup Heard(x[1])' \cup failedShards'[x[1]]
    <3> SUFFICES ASSUME NEW x \in ToSet(tasks) \cup working
                 PROVE  x[2] \notin Finished(x[1])' \cup Heard(x[1])' \cup failedShards'[x[1]]
      OBVIOUS
    <3>1. x[1] \in Searches /\ x[2] \notin Finished(x[1]) \cup Heard(x[1]) \cup failedShards[x[1]]
      BY <1>8 DEF Tasks, ShardInv, OnePlace
    <3>2. CASE x[1] = q
      BY <1>5, <1>9, <3>1, <3>2
    <3>3. CASE x[1] # q
      BY <1>5, <1>9, <3>1, <3>3
    <3> QED
      BY <3>2, <3>3
  <2>2. \A p \in Searches : /\ Finished(p)' \cap (Heard(p)' \cup failedShards'[p]) = {}
                            /\ Heard(p)' \cap failedShards'[p] = {}
    <3> SUFFICES ASSUME NEW p \in Searches
                 PROVE  /\ Finished(p)' \cap (Heard(p)' \cup failedShards'[p]) = {}
                        /\ Heard(p)' \cap failedShards'[p] = {}
      OBVIOUS
    <3>1. Finished(p) \cap (Heard(p) \cup failedShards[p]) = {} /\ Heard(p) \cap failedShards[p] = {}
      BY DEF ShardInv, OnePlace
    <3>2. CASE p = q
      BY <1>5, <1>9, <3>1, <3>2
    <3>3. CASE p # q
      BY <1>5, <1>9, <3>1, <3>3
    <3> QED
      BY <3>2, <3>3
  <2>3. \A p \in Searches : \A g, h \in completed'[p] : g.shard = h.shard => g = h
    BY <1>4 DEF ShardInv, OnePlace
  <2>4. IsInjective(tasks) /\ ToSet(tasks) \cap working = {}
    BY DEF ShardInv, OnePlace
  <2> QED
    BY <1>2, <1>9, <2>1, <2>2, <2>3, <2>4 DEF OnePlace
<1>12. Truthful'
  <2>1. \A p \in Searches : \A g \in completed'[p] : g.ok => g.hits = FirstOf(holds[g.shard], PerShardK)
    BY <1>4 DEF ShardInv, Truthful
  <2>2. \A p \in Searches : searchPc[p] \in {"new", "raised"} =>
          /\ \A t \in ToSet(tasks) \cup working : t[1] # p
          /\ completed'[p] = {} /\ gathered'[p] = <<>> /\ failedShards'[p] = {}
    <3> SUFFICES ASSUME NEW p \in Searches, searchPc[p] \in {"new", "raised"}
                 PROVE  /\ \A t \in ToSet(tasks) \cup working : t[1] # p
                        /\ completed'[p] = {} /\ gathered'[p] = <<>> /\ failedShards'[p] = {}
      OBVIOUS
    <3>1. p # q
      BY <1>7
    <3>2. gathered'[p] = gathered[p]
      BY <1>1, <3>1 DEF ShardInv, ShardTypes
    <3> QED
      BY <1>4, <1>9, <3>1, <3>2 DEF ShardInv, Truthful
  <2>3. \A p \in Searches : searchPc[p] = "done" => Names \subseteq Heard(p)' \cup failedShards'[p]
    <3> SUFFICES ASSUME NEW p \in Searches, searchPc[p] = "done"
                 PROVE  Names \subseteq Heard(p)' \cup failedShards'[p]
      OBVIOUS
    <3>1. p # q
      BY <1>7
    <3> QED
      BY <1>9, <3>1 DEF ShardInv, Truthful
  <2> QED
    BY <1>2, <1>9, <2>1, <2>2, <2>3 DEF Truthful
<1> QED
  BY <1>10, <1>11, <1>12 DEF ShardInv

\* A search merges when as many shards as there are have been heard of.
LEMMA MergeKeeps ==
  ASSUME ShardInv, NEW q \in Searches, Merge(q)
  PROVE  ShardInv'
<1>1. /\ searchPc[q] = "wait" /\ Len(gathered[q]) + Cardinality(failedShards[q]) = Len(Shards)
      /\ searchPc' = [searchPc EXCEPT ![q] = "done"]
      /\ UNCHANGED <<holds, tasks, working, completed, gathered, failedShards>>
  BY DEF Merge
<1>2. \A p \in Searches : UNCHANGED <<Finished(p), Heard(p)>>
  BY <1>1 DEF Finished, Heard
<1>3. gathered[q] \in Seq(Answered) /\ failedShards[q] \subseteq Names
  BY DEF ShardInv, ShardTypes
<1>4. PICK l \in Nat : l = Len(gathered[q])
  BY <1>3
<1>5. DOMAIN gathered[q] = 1 .. l /\ \A n \in 1 .. l : gathered[q][n] \in Answered
  BY <1>3, <1>4
<1>6. Heard(q) \subseteq Names
  BY <1>5 DEF Heard, Answered, Names
<1>7. IsFiniteSet(Heard(q)) /\ Cardinality(Heard(q)) = l
  <2> DEFINE f == [n \in 1 .. l |-> gathered[q][n].shard]
  <2>1. Heard(q) = {gathered[q][n].shard : n \in 1 .. l}
    BY <1>5 DEF Heard
  <2>2. f \in [1 .. l -> Heard(q)] /\ \A x \in Heard(q) : \E n \in 1 .. l : f[n] = x
    BY <2>1
  <2>3. IsInjective(f)
    BY <1>5 DEF IsInjective, ShardInv, OnePlace
  <2>4. f \in Surjection(1 .. l, Heard(q)) /\ f \in Injection(1 .. l, Heard(q))
    BY <2>2, <2>3 DEF Surjection, Injection
  <2>5. IsFiniteSet(1 .. l) /\ Cardinality(1 .. l) = l
    BY FS_Interval
  <2>6. IsFiniteSet(Heard(q)) /\ Cardinality(Heard(q)) = Cardinality(1 .. l)
    BY <2>4, <2>5, FS_Surjection
  <2> QED
    BY <2>5, <2>6
<1>8. Heard(q) \cup failedShards[q] = Names
  <2> DEFINE U == Heard(q) \cup failedShards[q]
  <2>1. IsFiniteSet(Names) /\ Cardinality(Names) = Len(Shards)
    BY NamesFinite
  <2>2. IsFiniteSet(failedShards[q]) /\ Cardinality(failedShards[q]) \in Nat
    BY <1>3, <2>1, FS_Subset, FS_CardinalityType
  <2>3. Heard(q) \cap failedShards[q] = {}
    BY DEF ShardInv, OnePlace
  <2>4. Cardinality(U) = Cardinality(Heard(q)) + Cardinality(failedShards[q]) - Cardinality(Heard(q) \cap failedShards[q])
    BY <1>7, <2>2, FS_Union
  <2>5. Cardinality(Heard(q) \cap failedShards[q]) = 0
    BY <2>3, FS_EmptySet
  <2>6. Cardinality(U) = Cardinality(Names)
    BY <1>1, <1>4, <1>7, <2>1, <2>2, <2>4, <2>5
  <2>7. U \subseteq Names
    BY <1>3, <1>6
  <2> QED
    BY <2>1, <2>6, <2>7, FS_Subset
<1>9. ShardTypes'
  BY <1>1 DEF ShardInv, ShardTypes
<1>10. OnePlace'
  <2>1. \A t \in ToSet(tasks) \cup working : t[1] \in Searches
    BY DEF ShardInv, ShardTypes, Tasks, ToSet
  <2> QED
    BY <1>1, <1>2, <2>1 DEF ShardInv, OnePlace
<1>11. Truthful'
  BY <1>1, <1>2, <1>8 DEF ShardInv, ShardTypes, Truthful
<1> QED
  BY <1>9, <1>10, <1>11 DEF ShardInv

LEMMA ShardStepKeeps == ShardInv /\ [ShardNext]_shardVars => ShardInv'
<1> SUFFICES ASSUME ShardInv, [ShardNext]_shardVars PROVE ShardInv'
  OBVIOUS
<1>1. ASSUME UNCHANGED <<holds, tasks, working, completed, gathered, failedShards, searchPc>>
      PROVE  ShardInv'
  <2>1. \A p \in Searches : UNCHANGED <<Finished(p), Heard(p)>>
    BY <1>1 DEF Finished, Heard
  <2>2. \A t \in ToSet(tasks) \cup working : t[1] \in Searches
    BY DEF ShardInv, ShardTypes, Tasks, ToSet
  <2>3. ShardTypes'
    BY <1>1 DEF ShardInv, ShardTypes
  <2>4. OnePlace'
    BY <1>1, <2>1, <2>2 DEF ShardInv, OnePlace
  <2>5. Truthful'
    BY <1>1, <2>1 DEF ShardInv, Truthful
  <2> QED
    BY <2>3, <2>4, <2>5 DEF ShardInv
<1>2. ASSUME NEW t \in Tasks, Ends(t) \/ Hang(t) PROVE ShardInv'
  BY <1>1, <1>2, EndKeeps DEF Hang
<1>3. CASE Shutdown
  BY <1>1, <1>3 DEF Shutdown
<1>4. CASE UNCHANGED shardVars
  BY <1>1, <1>4 DEF shardVars
<1> QED
  BY <1>2, <1>3, <1>4, StartKeeps, CollectKeeps, MergeKeeps, AskKeeps
     DEF ShardNext, ShardStep, Tasks, Names

LEMMA ShardInvExact == ShardInv => TopKExact
<1> SUFFICES ASSUME ShardInv, NEW q \in Searches, searchPc[q] = "done"
             PROVE  Exact(Fuse(gathered[q]), HeldBy(q))
  BY DEF TopKExact, Exact, Best, NearestHeld
<1> DEFINE A == Names \ failedShards[q]
<1>1. HeldBy(q) = Held(holds, A) /\ A \in SUBSET ToSet(Shards) /\ holds \in Holdings
  BY DEF HeldBy, Held, Names, ShardInv, ShardTypes
<1>2. AnswersOf(gathered[q], holds, A)
  <2>1. gathered[q] \in Seq(Answered)
    BY DEF ShardInv, ShardTypes
  <2>2. \A n \in DOMAIN gathered[q] : gathered[q][n].shard \in A
    <3> TAKE n \in DOMAIN gathered[q]
    <3>1. gathered[q][n] \in Answered
      BY <2>1
    <3>2. gathered[q][n].shard \in Names /\ gathered[q][n].shard \in Heard(q)
      BY <3>1 DEF Answered, Names, Heard
    <3> QED
      BY <3>2 DEF ShardInv, OnePlace
  <2>3. \A n \in DOMAIN gathered[q] : gathered[q][n].hits = FirstOf(holds[gathered[q][n].shard], PerShardK)
    BY DEF ShardInv, Truthful
  <2>4. \A s \in A : \E n \in DOMAIN gathered[q] : gathered[q][n].shard = s
    BY DEF ShardInv, Truthful, Heard
  <2> QED
    BY <2>1, <2>2, <2>3, <2>4 DEF AnswersOf
<1> QED
  BY <1>1, <1>2, FuseIsExact

\* In whatever order shards answer, raise and hang and searches share the pool, what a
\* search returns is the K nearest ids of the shards that answered it, each once and at its
\* nearest distance.
THEOREM SearchesAreExact == ShardSpec => []TopKExact
<1> QED
  BY ShardStart, ShardStepKeeps, ShardInvExact, PTL DEF ShardSpec

-----------------------------------------------------------------------------
(***************************************************************************)
(* Loops.                                                                  *)
(***************************************************************************)
\* Induction up to a bound.
LEMMA UpTo ==
  ASSUME NEW N \in Nat, NEW T \in SUBSET (0 .. N), 0 \in T,
         \A k \in 0 .. N - 1 : k \in T => k + 1 \in T
  PROVE  \A k \in 0 .. N : k \in T
<1> PICK bad : bad = (0 .. N) \ T
  OBVIOUS
<1>1. ASSUME bad # {} PROVE FALSE
  <2>1. PICK x \in bad : \A y \in bad : x <= y
    <3>1. bad \subseteq Nat
      OBVIOUS
    <3> QED
      BY <1>1, <3>1, Least
  <2>2. x # 0 /\ x \in 0 .. N
    BY <2>1
  <2>3. x - 1 \in 0 .. N - 1 /\ x - 1 \notin bad /\ x - 1 + 1 = x
    BY <2>1, <2>2
  <2>4. x - 1 \in T
    BY <2>3
  <2> QED
    BY <2>1, <2>3, <2>4
<1> QED
  BY <1>1

\* a is the run of a loop that counts up to N, or down from hi to lo.
RunsUp(a, N, start, F) ==
  a = [k \in 0 .. N |-> IF k = 0 THEN start ELSE F[<<k, a[k - 1]>>]]
RunsDown(a, lo, hi, start, F) ==
  a = [l \in lo .. hi |-> IF l = hi THEN start ELSE F[<<l, a[l + 1]>>]]

\* A loop whose steps stay in a set has a run of any length.
LEMMA RunExists ==
  ASSUME NEW N \in Nat, NEW S, NEW start \in S, NEW F \in [(1 .. N) \X S -> S]
  PROVE  \E a \in [0 .. N -> S] : RunsUp(a, N, start, F)
<1> DEFINE Good(n, a) == a[0] = start /\ \A k \in 1 .. n : a[k] = F[<<k, a[k - 1]>>]
           T == {n \in 0 .. N : \E a \in [0 .. n -> S] : Good(n, a)}
<1>1. 0 \in T
  <2>1. PICK a : a = [k \in 0 .. 0 |-> start]
    OBVIOUS
  <2>2. a \in [0 .. 0 -> S] /\ Good(0, a)
    BY <2>1
  <2> QED
    BY <2>2
<1>2. ASSUME NEW n \in 0 .. N - 1, n \in T PROVE n + 1 \in T
  <2>1. PICK a \in [0 .. n -> S] : Good(n, a)
    BY <1>2
  <2>2. PICK b : b = [k \in 0 .. n + 1 |-> IF k = n + 1 THEN F[<<n + 1, a[n]>>] ELSE a[k]]
    OBVIOUS
  <2>3. F[<<n + 1, a[n]>>] \in S
    OBVIOUS
  <2>4. b \in [0 .. n + 1 -> S]
    <3> SUFFICES ASSUME NEW k \in 0 .. n + 1
                 PROVE  (IF k = n + 1 THEN F[<<n + 1, a[n]>>] ELSE a[k]) \in S
      BY <2>2
    <3>1. k # n + 1 => k \in 0 .. n
      OBVIOUS
    <3> QED
      BY <2>3, <3>1
  <2>5. \A k \in 0 .. n : b[k] = a[k]
    BY <2>2
  <2>6. b[n + 1] = F[<<n + 1, a[n]>>] /\ b[n] = a[n] /\ b[0] = start
    BY <2>1, <2>2, <2>5
  <2>7. ASSUME NEW k \in 1 .. n + 1 PROVE b[k] = F[<<k, b[k - 1]>>]
    <3>1. CASE k = n + 1
      <4>1. k - 1 = n
        BY <3>1
      <4> QED
        BY <2>6, <3>1, <4>1
    <3>2. CASE k # n + 1
      <4>1. k \in 1 .. n /\ k \in 0 .. n /\ k - 1 \in 0 .. n
        BY <3>2
      <4>2. b[k] = a[k] /\ b[k - 1] = a[k - 1]
        BY <2>5, <4>1
      <4> QED
        BY <2>1, <4>1, <4>2
    <3> QED
      BY <3>1, <3>2
  <2>8. Good(n + 1, b)
    BY <2>6, <2>7
  <2> QED
    BY <2>4, <2>8
<1>3. N \in T
  <2>1. \A k \in 0 .. N : k \in T
    <3> HIDE DEF T
    <3>1. T \in SUBSET (0 .. N)
      BY DEF T
    <3> QED
      BY <1>1, <1>2, <3>1, UpTo
  <2> QED
    BY <2>1
<1>4. PICK a \in [0 .. N -> S] : Good(N, a)
  BY <1>3
<1>5. ASSUME NEW k \in 0 .. N PROVE a[k] = IF k = 0 THEN start ELSE F[<<k, a[k - 1]>>]
  BY <1>4
<1>6. a = [k \in 0 .. N |-> IF k = 0 THEN start ELSE F[<<k, a[k - 1]>>]]
  BY <1>4, <1>5
<1> QED
  BY <1>4, <1>6 DEF RunsUp

\* The same for a loop that counts down.
LEMMA RunDownExists ==
  ASSUME NEW lo \in Int, NEW hi \in Int, lo <= hi, NEW S, NEW start \in S,
         NEW F \in [(lo .. hi) \X S -> S]
  PROVE  \E a \in [lo .. hi -> S] : RunsDown(a, lo, hi, start, F)
<1> DEFINE N == hi - lo
           G == [p \in (1 .. N) \X S |-> F[<<hi - p[1], p[2]>>]]
<1>1. N \in Nat
  OBVIOUS
<1>2. \A k \in 1 .. N, s \in S : G[<<k, s>>] = F[<<hi - k, s>>] /\ hi - k \in lo .. hi
  OBVIOUS
<1>3. G \in [(1 .. N) \X S -> S]
  <2> SUFFICES ASSUME NEW p \in (1 .. N) \X S PROVE F[<<hi - p[1], p[2]>>] \in S
    OBVIOUS
  <2>1. hi - p[1] \in lo .. hi /\ p[2] \in S
    OBVIOUS
  <2> QED
    BY <2>1
<1>4. PICK b \in [0 .. N -> S] : RunsUp(b, N, start, G)
  <2> HIDE DEF N, G
  <2> QED
    BY <1>1, <1>3, RunExists
<1>5. b[0] = start /\ \A k \in 1 .. N : b[k] = G[<<k, b[k - 1]>>] /\ b[k - 1] \in S
  <2> HIDE DEF N, G
  <2>1. b = [k \in 0 .. N |-> IF k = 0 THEN start ELSE G[<<k, b[k - 1]>>]]
    BY <1>4 DEF RunsUp
  <2>2. b[0] = start
    BY <1>1, <2>1
  <2>3. ASSUME NEW k \in 1 .. N PROVE b[k] = G[<<k, b[k - 1]>>] /\ b[k - 1] \in S
    <3>1. k \in 0 .. N /\ k # 0 /\ k - 1 \in 0 .. N
      BY <1>1
    <3> QED
      BY <2>1, <3>1
  <2> QED
    BY <2>2, <2>3
<1>6. PICK a : a = [l \in lo .. hi |-> b[hi - l]]
  OBVIOUS
<1>7. a \in [lo .. hi -> S]
  <2>1. \A l \in lo .. hi : hi - l \in 0 .. N
    OBVIOUS
  <2> QED
    BY <1>4, <1>6, <2>1
<1>8. ASSUME NEW l \in lo .. hi PROVE a[l] = IF l = hi THEN start ELSE F[<<l, a[l + 1]>>]
  <2>1. CASE l = hi
    BY <1>5, <1>6, <2>1
  <2>2. CASE l # hi
    <3>1. hi - l \in 1 .. N /\ hi - (hi - l) = l /\ l + 1 \in lo .. hi /\ hi - (l + 1) = hi - l - 1
      BY <2>2
    <3>2. a[l] = b[hi - l] /\ a[l + 1] = b[hi - l - 1]
      BY <1>6, <3>1
    <3>3. b[hi - l] = G[<<hi - l, b[hi - l - 1]>>] /\ b[hi - l - 1] \in S
      BY <1>5, <3>1
    <3>4. G[<<hi - l, b[hi - l - 1]>>] = F[<<hi - (hi - l), b[hi - l - 1]>>]
      BY <1>2, <3>1, <3>3
    <3> QED
      BY <2>2, <3>1, <3>2, <3>3, <3>4
  <2> QED
    BY <2>1, <2>2
<1>9. a = [l \in lo .. hi |-> IF l = hi THEN start ELSE F[<<l, a[l + 1]>>]]
  BY <1>6, <1>8
<1> QED
  BY <1>7, <1>9 DEF RunsDown

-----------------------------------------------------------------------------
(***************************************************************************)
(* HNSW: the search of a layer.                                            *)
(***************************************************************************)
\* Sets of ids are finite.
LEMMA IdSets == \A S \in SUBSET Ids : IsFiniteSet(S) /\ Cardinality(S) \in Nat
  BY SearchAssumption, FS_Subset, FS_CardinalityType

\* Distances between vectors are numbers.
LEMMA NearNat == \A q, n \in Ids : Near(At[q], n) \in Nat
  BY SearchAssumption DEF Near

\* The nearest and the farthest of a set of ids are what their names say.
LEMMA NearestIs ==
  ASSUME NEW q \in Ids, NEW S \in SUBSET Ids, S # {}
  PROVE  /\ Closest(At[q], S) \in S
         /\ \A m \in S : Near(At[q], Closest(At[q], S)) <= Near(At[q], m)
         /\ Farthest(At[q], S) \in S
         /\ \A m \in S : Near(At[q], Farthest(At[q], S)) >= Near(At[q], m)
<1>1. PICK R : R = [p \in S |-> {r \in S : Near(At[q], r) < Near(At[q], p)}]
  OBVIOUS
<1>2. IsFiniteSet(S) /\ Cardinality(S) \in Nat /\ Cardinality(S) # 0
  BY IdSets, FS_EmptySet
<1>3. \A p \in S : Near(At[q], p) \in Nat
  BY NearNat
<1>4. \A p, r \in S : p # r => Near(At[q], p) # Near(At[q], r)
  BY SearchAssumption DEF Near
<1>5. \A p \in S : \A r \in R[p] : R[r] \subseteq R[p]
  <2> SUFFICES ASSUME NEW p \in S, NEW r \in R[p], NEW x \in R[r] PROVE x \in R[p]
    OBVIOUS
  <2>1. r \in S /\ Near(At[q], r) < Near(At[q], p)
    BY <1>1
  <2>2. x \in S /\ Near(At[q], x) < Near(At[q], r)
    BY <1>1, <2>1
  <2>3. Near(At[q], x) < Near(At[q], p)
    BY <1>3, <2>1, <2>2
  <2> QED
    BY <1>1, <2>2, <2>3
<1>6. \A p, r \in S : p = r \/ p \in R[r] \/ r \in R[p]
  <2> TAKE p, r \in S
  <2>1. p # r => Near(At[q], p) < Near(At[q], r) \/ Near(At[q], r) < Near(At[q], p)
    BY <1>3, <1>4
  <2> QED
    BY <1>1, <2>1
<1>7. R \in [S -> SUBSET S] /\ \A p \in S : p \notin R[p]
  <2>1. R \in [S -> SUBSET S]
    BY <1>1
  <2>2. \A p \in S : ~ (Near(At[q], p) < Near(At[q], p))
    BY <1>3
  <2> QED
    BY <1>1, <2>1, <2>2
<1>8. /\ \A p \in S : Cardinality(R[p]) \in 0 .. Cardinality(S) - 1
      /\ \A p, r \in S : Cardinality(R[r]) < Cardinality(R[p]) => r \in R[p]
      /\ \A p, r \in S : Cardinality(R[r]) = Cardinality(R[p]) => r = p
      /\ \A n \in 0 .. Cardinality(S) - 1 : \E p \in S : Cardinality(R[p]) = n
  BY <1>2, <1>5, <1>6, <1>7, RanksArePositions
<1>9. \A n \in 0 .. Cardinality(S) - 1 :
        \E p \in S : /\ Cardinality(R[p]) = n
                     /\ \A m \in S : Cardinality(R[m]) < n => Near(At[q], m) < Near(At[q], p)
                     /\ \A m \in S : Cardinality(R[m]) > n => Near(At[q], p) < Near(At[q], m)
                     /\ \A m \in S : Cardinality(R[m]) = n => m = p
  <2> TAKE n \in 0 .. Cardinality(S) - 1
  <2>1. PICK p \in S : Cardinality(R[p]) = n
    BY <1>8
  <2>2. \A m \in S : Cardinality(R[m]) < n => m \in R[p]
    BY <1>8, <2>1
  <2>3. \A m \in S : Cardinality(R[m]) > n => p \in R[m]
    <3> TAKE m \in S
    <3>1. Cardinality(R[m]) \in Nat
      BY <1>2, <1>8
    <3>2. Cardinality(R[p]) < Cardinality(R[m]) => p \in R[m]
      BY <1>8
    <3> QED
      BY <1>2, <2>1, <3>1, <3>2
  <2>4. \A m \in S : Cardinality(R[m]) = n => m = p
    BY <1>8, <2>1
  <2> QED
    BY <1>1, <2>1, <2>2, <2>3, <2>4
<1>10. \E p \in S : \A m \in S : Near(At[q], p) <= Near(At[q], m)
  <2>1. 0 \in 0 .. Cardinality(S) - 1
    BY <1>2
  <2>2. PICK p \in S : /\ \A m \in S : Cardinality(R[m]) > 0 => Near(At[q], p) < Near(At[q], m)
                       /\ \A m \in S : Cardinality(R[m]) = 0 => m = p
    BY <1>9, <2>1
  <2>3. \A m \in S : Cardinality(R[m]) > 0 \/ Cardinality(R[m]) = 0
    BY <1>2, <1>8
  <2> QED
    BY <1>3, <2>2, <2>3
<1>11. \E p \in S : \A m \in S : Near(At[q], p) >= Near(At[q], m)
  <2>1. Cardinality(S) - 1 \in 0 .. Cardinality(S) - 1
    BY <1>2
  <2>2. PICK p \in S :
          /\ \A m \in S : Cardinality(R[m]) < Cardinality(S) - 1 => Near(At[q], m) < Near(At[q], p)
          /\ \A m \in S : Cardinality(R[m]) = Cardinality(S) - 1 => m = p
    BY <1>9, <2>1
  <2>3. \A m \in S : Cardinality(R[m]) < Cardinality(S) - 1 \/ Cardinality(R[m]) = Cardinality(S) - 1
    BY <1>2, <1>8
  <2> QED
    BY <1>3, <2>2, <2>3
<1>12. /\ Closest(At[q], S) \in S
       /\ \A m \in S : Near(At[q], Closest(At[q], S)) <= Near(At[q], m)
  BY <1>10 DEF Closest
<1>13. /\ Farthest(At[q], S) \in S
       /\ \A m \in S : Near(At[q], Farthest(At[q], S)) >= Near(At[q], m)
  BY <1>11 DEF Farthest
<1> QED
  BY <1>12, <1>13

\* The states of the search of a layer.
SearchStates(g) ==
  [frontier : SUBSET DOMAIN g, visited : SUBSET DOMAIN g, results : SUBSET DOMAIN g,
   broken : BOOLEAN]

\* The search of a layer is over.
Ended(query, s) ==
  \/ s.frontier = {}
  \/ /\ s.results # {}
     /\ Near(query, Closest(query, s.frontier)) >= Near(query, Farthest(query, s.results))

\* A round after the end changes nothing.
LEMMA VisitEnds ==
  ASSUME NEW g, NEW query, NEW ef, NEW level, NEW s, Ended(query, s)
  PROVE  Visit(g, query, ef, level, s) = s
  BY DEF Visit, Ended

\* A round before the end expands the nearest candidate and keeps it as a result.
LEMMA VisitExpands ==
  ASSUME NEW g, NEW query, NEW ef, NEW level, NEW s, ~ Ended(query, s)
  PROVE  Visit(g, query, ef, level, s) =
           Expand(g, level, s, Closest(query, s.frontier),
                  Keep(query, s.results \cup {Closest(query, s.frontier)}, ef))
  BY DEF Visit, Ended

\* Expanding a node leaves a state of a search.
LEMMA ExpandTypes ==
  ASSUME NEW g, NEW level, NEW s \in SearchStates(g), NEW n, NEW results \in SUBSET DOMAIN g
  PROVE  Expand(g, level, s, n, results) \in SearchStates(g)
<1>1. CASE Layer(g, n, level) \ s.visited \subseteq DOMAIN g
  BY <1>1 DEF Expand, SearchStates
<1>2. CASE ~ (Layer(g, n, level) \ s.visited \subseteq DOMAIN g)
  BY <1>2 DEF Expand, SearchStates, Broken
<1> QED
  BY <1>1, <1>2

\* Keep only ever drops results.
LEMMA KeepIs ==
  ASSUME NEW query, NEW S, NEW ef
  PROVE  Keep(query, S, ef) \subseteq S
  BY DEF Keep

\* A round leaves a state of a search.
LEMMA VisitTypes ==
  ASSUME NEW g, DOMAIN g \subseteq Ids, NEW q \in Ids, NEW ef, NEW level,
         NEW s \in SearchStates(g)
  PROVE  Visit(g, At[q], ef, level, s) \in SearchStates(g)
<1>1. CASE Ended(At[q], s)
  BY <1>1, VisitEnds
<1>2. CASE ~ Ended(At[q], s)
  <2>1. PICK n : n = Closest(At[q], s.frontier)
    OBVIOUS
  <2>2. n \in s.frontier /\ s.frontier \subseteq DOMAIN g /\ s.results \subseteq DOMAIN g
    <3>1. s.frontier \in SUBSET DOMAIN g /\ s.results \in SUBSET DOMAIN g
      BY DEF SearchStates
    <3> QED
      BY <1>2, <2>1, <3>1, NearestIs DEF Ended
  <2>3. PICK results : results = Keep(At[q], s.results \cup {n}, ef)
    OBVIOUS
  <2>4. results \in SUBSET DOMAIN g
    BY <2>2, <2>3, KeepIs
  <2>5. Visit(g, At[q], ef, level, s) = Expand(g, level, s, n, results)
    BY <1>2, <2>1, <2>3, VisitExpands
  <2> QED
    BY <2>4, <2>5, ExpandTypes
<1> QED
  BY <1>1, <1>2

\* a is the run of a search of a layer.
LayerRun(a, g, query, ef, start, level) ==
  LET N == Cardinality(DOMAIN g)
  IN /\ a \in [0 .. N -> SearchStates(g)]
     /\ a[0] = Search0(start)
     /\ \A k \in 1 .. N : a[k] = Visit(g, query, ef, level, a[k - 1])

\* The search of a layer is where its run ends.
LEMMA LayerRuns ==
  ASSUME NEW g, DOMAIN g \subseteq Ids, NEW q \in Ids, NEW ef, NEW start \in DOMAIN g, NEW level
  PROVE  \E a : /\ LayerRun(a, g, At[q], ef, start, level)
                /\ SearchLayer(g, At[q], ef, start, level) = a[Cardinality(DOMAIN g)]
<1>1. PICK N \in Nat : N = Cardinality(DOMAIN g)
  BY IdSets
<1>2. PICK S : S = SearchStates(g)
  OBVIOUS
<1>3. PICK F : F = [p \in (1 .. N) \X S |-> Visit(g, At[q], ef, level, p[2])]
  OBVIOUS
<1>4. F \in [(1 .. N) \X S -> S]
  BY <1>2, <1>3, VisitTypes
<1>5. PICK s0 : s0 = Search0(start)
  OBVIOUS
<1>6. s0 \in S
  BY <1>2, <1>5 DEF Search0, SearchStates
<1>7. PICK a \in [0 .. N -> S] : RunsUp(a, N, s0, F)
  BY <1>4, <1>6, RunExists
<1>8. a = [k \in 0 .. N |-> IF k = 0 THEN s0 ELSE F[<<k, a[k - 1]>>]]
  BY <1>7 DEF RunsUp
<1>9. ASSUME NEW k \in 0 .. N
      PROVE  a[k] = IF k = 0 THEN Search0(start) ELSE Visit(g, At[q], ef, level, a[k - 1])
  <2>1. k # 0 => a[k - 1] \in S /\ k \in 1 .. N
    BY <1>7
  <2> QED
    BY <1>3, <1>5, <1>8, <2>1
<1>10. a = [k \in 0 .. N |->
             IF k = 0 THEN Search0(start) ELSE Visit(g, At[q], ef, level, a[k - 1])]
  BY <1>7, <1>9
<1> DEFINE after[k \in 0 .. N] ==
             IF k = 0 THEN Search0(start) ELSE Visit(g, At[q], ef, level, after[k - 1])
<1>11. after = [k \in 0 .. N |->
             IF k = 0 THEN Search0(start) ELSE Visit(g, At[q], ef, level, after[k - 1])]
  BY <1>10
<1>12. SearchLayer(g, At[q], ef, start, level) = after[N]
  BY <1>1 DEF SearchLayer
<1>13. PICK b : b = after
  OBVIOUS
<1> HIDE DEF after
<1>14. b = [k \in 0 .. N |->
             IF k = 0 THEN Search0(start) ELSE Visit(g, At[q], ef, level, b[k - 1])]
  BY <1>11, <1>13
<1>15. PICK T : T = {k \in 0 .. N : b[k] = a[k]}
  OBVIOUS
<1>16. 0 \in T
  BY <1>9, <1>14, <1>15
<1>17. ASSUME NEW k \in 0 .. N - 1, k \in T PROVE k + 1 \in T
  <2>1. k + 1 \in 0 .. N /\ k + 1 # 0 /\ k + 1 - 1 = k /\ b[k] = a[k]
    BY <1>15, <1>17
  <2>2. PICK m \in 0 .. N : m = k + 1 /\ m # 0 /\ m - 1 = k
    BY <2>1
  <2>3. b[m] = IF m = 0 THEN Search0(start) ELSE Visit(g, At[q], ef, level, b[m - 1])
    BY ONLY <1>14, m \in 0 .. N
  <2>4. a[m] = IF m = 0 THEN Search0(start) ELSE Visit(g, At[q], ef, level, a[m - 1])
    BY <1>9
  <2> QED
    BY <1>15, <2>1, <2>2, <2>3, <2>4
<1>18. \A k \in 0 .. N : k \in T
  BY <1>15, <1>16, <1>17, UpTo
<1>19. LayerRun(a, g, At[q], ef, start, level)
  <2>1. ASSUME NEW k \in 1 .. N PROVE a[k] = Visit(g, At[q], ef, level, a[k - 1])
    <3>1. k \in 0 .. N /\ k # 0
      OBVIOUS
    <3>2. a[k] = IF k = 0 THEN Search0(start) ELSE Visit(g, At[q], ef, level, a[k - 1])
      BY <1>9, <3>1
    <3> QED
      BY <3>1, <3>2
  <2>2. a[0] = Search0(start)
    BY <1>9
  <2> QED
    BY <1>1, <1>2, <2>1, <2>2 DEF LayerRun
<1>20. SearchLayer(g, At[q], ef, start, level) = a[N]
  <2>1. b[N] = a[N]
    BY <1>15, <1>18
  <2> QED
    BY <1>12, <1>13, <2>1
<1> QED
  BY <1>1, <1>19, <1>20

\* What a search has taken off its frontier.
Taken(s) == s.visited \ s.frontier

\* X is a part of the graph that no edge of the layer leaves.
Shut(g, level, X) == \A n \in X : Layer(g, n, level) \cap DOMAIN g \subseteq X

\* A search of a layer, filtered or not: it has met the neighbours of all it has taken, it
\* raises only if an edge leads to no node, and it leaves no part of the graph that is shut.
Walks(g, start, level, s) ==
  /\ s.visited \subseteq DOMAIN g /\ s.frontier \subseteq s.visited /\ start \in s.visited
  /\ s.broken \in BOOLEAN
  /\ s.broken => s.frontier = {}
  /\ ~ s.broken => \A n \in Taken(s) : Layer(g, n, level) \subseteq s.visited
  /\ (\A n \in DOMAIN g : Layer(g, n, level) \subseteq DOMAIN g) => ~ s.broken
  /\ \A X \in SUBSET DOMAIN g : start \in X /\ Shut(g, level, X) => s.visited \subseteq X

\* t is what expanding n makes of s.
Expanded(g, level, s, n, t) ==
  LET unvisited == Layer(g, n, level) \ s.visited
  IN /\ unvisited \subseteq DOMAIN g =>
          /\ t.frontier = (s.frontier \ {n}) \cup unvisited
          /\ t.visited = s.visited \cup unvisited
          /\ t.broken = s.broken
     /\ ~ (unvisited \subseteq DOMAIN g) =>
          t.frontier = {} /\ t.visited = s.visited /\ t.broken = TRUE

\* Expand does what Expanded says and sets the results.
LEMMA ExpandExpands ==
  ASSUME NEW g, NEW level, NEW s \in SearchStates(g), NEW n, NEW results,
         NEW t, t = Expand(g, level, s, n, results)
  PROVE  /\ Expanded(g, level, s, n, t)
         /\ t.results = IF Layer(g, n, level) \ s.visited \subseteq DOMAIN g THEN results ELSE {}
<1>1. CASE Layer(g, n, level) \ s.visited \subseteq DOMAIN g
  BY <1>1 DEF Expand, SearchStates, Expanded
<1>2. CASE ~ (Layer(g, n, level) \ s.visited \subseteq DOMAIN g)
  BY <1>2 DEF Expand, SearchStates, Broken, Expanded
<1> QED
  BY <1>1, <1>2

\* A walk that expands a node of its frontier is a walk, with that node taken.
LEMMA WalkKeeps ==
  ASSUME NEW g, NEW start, NEW level, NEW s, Walks(g, start, level, s),
         NEW n \in s.frontier, NEW t, Expanded(g, level, s, n, t)
  PROVE  /\ Walks(g, start, level, t)
         /\ ~ t.broken => n \notin Taken(s) /\ Taken(t) = Taken(s) \cup {n}
<1>1. /\ s.visited \subseteq DOMAIN g /\ s.frontier \subseteq s.visited /\ start \in s.visited
      /\ ~ s.broken /\ n \in DOMAIN g /\ n \in s.visited
      /\ \A x \in Taken(s) : Layer(g, x, level) \subseteq s.visited
      /\ \A X \in SUBSET DOMAIN g : start \in X /\ Shut(g, level, X) => s.visited \subseteq X
  BY DEF Walks
<1>2. CASE Layer(g, n, level) \ s.visited \subseteq DOMAIN g
  <2>1. PICK U : U = Layer(g, n, level) \ s.visited
    OBVIOUS
  <2>2. /\ t.frontier = (s.frontier \ {n}) \cup U
        /\ t.visited = s.visited \cup U
        /\ t.broken = FALSE
    BY <1>1, <1>2, <2>1 DEF Expanded, Walks
  <2>3. n \notin Taken(s) /\ Taken(t) = Taken(s) \cup {n}
    BY <1>1, <2>1, <2>2 DEF Taken
  <2>4. \A x \in Taken(t) : Layer(g, x, level) \subseteq t.visited
    BY <1>1, <2>1, <2>2, <2>3
  <2>5. \A X \in SUBSET DOMAIN g : start \in X /\ Shut(g, level, X) => t.visited \subseteq X
    <3> SUFFICES ASSUME NEW X \in SUBSET DOMAIN g, start \in X, Shut(g, level, X)
                 PROVE  t.visited \subseteq X
      OBVIOUS
    <3>1. n \in X
      BY <1>1
    <3>2. U \subseteq X
      BY <1>2, <2>1, <3>1 DEF Shut
    <3> QED
      BY <1>1, <2>2, <3>2
  <2> QED
    BY <1>1, <1>2, <2>1, <2>2, <2>3, <2>4, <2>5 DEF Walks
<1>3. CASE ~ (Layer(g, n, level) \ s.visited \subseteq DOMAIN g)
  <2>1. t.frontier = {} /\ t.visited = s.visited /\ t.broken = TRUE
    BY <1>3 DEF Expanded
  <2>2. ~ (Layer(g, n, level) \subseteq DOMAIN g)
    BY <1>3
  <2> QED
    BY <1>1, <2>1, <2>2 DEF Walks
<1> QED
  BY <1>2, <1>3

\* A search of a layer: nothing it has taken is nearer than all its results.
SearchesOn(g, query, start, level, s) ==
  /\ s \in SearchStates(g)
  /\ Walks(g, start, level, s)
  /\ s.results \subseteq Taken(s)
  /\ ~ s.broken => \A n \in Taken(s) : \E r \in s.results : Near(query, r) <= Near(query, n)

\* A search that begins satisfies what a search keeps.
LEMMA SearchBegins ==
  ASSUME NEW g, NEW q, NEW start \in DOMAIN g, NEW level
  PROVE  SearchesOn(g, At[q], start, level, Search0(start))
<1>1. /\ Search0(start) \in SearchStates(g)
      /\ Search0(start).frontier = {start} /\ Search0(start).visited = {start}
      /\ Search0(start).results = {} /\ Search0(start).broken = FALSE
  BY DEF Search0, SearchStates
<1> QED
  BY <1>1 DEF SearchesOn, Walks, Taken

\* Keep leaves a result that is no farther than any it was given.
LEMMA KeepsNearest ==
  ASSUME NEW q \in Ids, NEW S \in SUBSET Ids, NEW ef \in Nat \ {0}, NEW m \in S
  PROVE  \E r \in Keep(At[q], S, ef) : Near(At[q], r) <= Near(At[q], m)
<1>1. CASE Cardinality(S) > ef
  <2>1. PICK f : f = Farthest(At[q], S)
    OBVIOUS
  <2>2. f \in S /\ Near(At[q], f) >= Near(At[q], m)
    BY <2>1, NearestIs
  <2>3. Keep(At[q], S, ef) = S \ {f}
    BY <1>1, <2>1 DEF Keep
  <2>4. \E r \in S : r # f
    <3>1. S # {f}
      BY <1>1, FS_Singleton
    <3> QED
      BY <2>2, <3>1
  <2>5. PICK r \in S : r # f
    BY <2>4
  <2>6. Near(At[q], f) >= Near(At[q], r)
    BY <2>1, NearestIs
  <2>7. Near(At[q], f) \in Nat /\ Near(At[q], m) \in Nat /\ Near(At[q], r) \in Nat
    BY <2>2, NearNat
  <2>8. CASE m = f
    BY <2>3, <2>5, <2>6, <2>8
  <2>9. CASE m # f
    BY <2>3, <2>7, <2>9
  <2> QED
    BY <2>8, <2>9
<1>2. CASE ~ (Cardinality(S) > ef)
  <2>1. Keep(At[q], S, ef) = S /\ Near(At[q], m) \in Nat
    BY <1>2, NearNat DEF Keep
  <2> QED
    BY <2>1
<1> QED
  BY <1>1, <1>2

\* One round.
OneMore(s, t) == ~ t.broken => Cardinality(Taken(t)) = Cardinality(Taken(s)) + 1

\* A round keeps what a search satisfies and takes one more node.
LEMMA SearchGoesOn ==
  ASSUME NEW g, DOMAIN g \subseteq Ids, NEW q \in Ids, NEW ef \in Nat \ {0}, NEW start, NEW level,
         NEW s, SearchesOn(g, At[q], start, level, s), ~ Ended(At[q], s),
         NEW t, t = Visit(g, At[q], ef, level, s)
  PROVE  /\ SearchesOn(g, At[q], start, level, t)
         /\ OneMore(s, t)
<1>1. /\ s \in SearchStates(g) /\ s.results \in SUBSET DOMAIN g /\ s.frontier \in SUBSET DOMAIN g
      /\ s.visited \in SUBSET DOMAIN g /\ s.results \subseteq Taken(s) /\ Walks(g, start, level, s)
  BY DEF SearchesOn, SearchStates
<1>2. PICK n : n = Closest(At[q], s.frontier)
  OBVIOUS
<1>3. n \in s.frontier /\ n \in Ids
  BY <1>1, <1>2, NearestIs DEF Ended
<1>4. PICK results : results = Keep(At[q], s.results \cup {n}, ef)
  OBVIOUS
<1>5. results \in SUBSET DOMAIN g /\ results \subseteq s.results \cup {n}
  BY <1>1, <1>3, <1>4, KeepIs
<1>6. t = Expand(g, level, s, n, results)
  BY <1>2, <1>4, VisitExpands
<1>7. t \in SearchStates(g)
  BY <1>1, <1>5, <1>6, ExpandTypes
<1>8. /\ Expanded(g, level, s, n, t)
      /\ t.results = IF Layer(g, n, level) \ s.visited \subseteq DOMAIN g THEN results ELSE {}
  BY <1>1, <1>6, ExpandExpands
<1>9. /\ Walks(g, start, level, t)
      /\ ~ t.broken => n \notin Taken(s) /\ Taken(t) = Taken(s) \cup {n}
  BY <1>1, <1>3, <1>8, WalkKeeps
<1>10. CASE t.broken
  <2>1. t.results = {}
    <3>1. ~ s.broken
      BY <1>1, <1>3 DEF Walks
    <3> QED
      BY <1>8, <1>10, <3>1 DEF Expanded
  <2> QED
    BY <1>7, <1>9, <1>10, <2>1 DEF SearchesOn, OneMore
<1>11. CASE ~ t.broken
  <2>1. t.results = results /\ n \notin Taken(s) /\ Taken(t) = Taken(s) \cup {n} /\ ~ s.broken
    BY <1>1, <1>3, <1>8, <1>9, <1>11 DEF Walks
  <2>2. \A x \in Taken(t) : \E r \in results : Near(At[q], r) <= Near(At[q], x)
    <3> TAKE x \in Taken(t)
    <3>1. \E y \in s.results \cup {n} : Near(At[q], y) <= Near(At[q], x)
      <4>1. CASE x = n
        BY <1>3, <4>1, NearNat
      <4>2. CASE x # n
        BY <2>1, <4>2 DEF SearchesOn
      <4> QED
        BY <4>1, <4>2
    <3>2. PICK y \in s.results \cup {n} : Near(At[q], y) <= Near(At[q], x)
      BY <3>1
    <3>3. s.results \cup {n} \in SUBSET Ids
      BY <1>1, <1>3
    <3>4. PICK r \in results : Near(At[q], r) <= Near(At[q], y)
      BY <1>4, <3>3, KeepsNearest
    <3>5. x \in Ids /\ y \in Ids /\ r \in Ids
      BY <1>1, <1>3, <1>5, <2>1, <3>3 DEF Taken
    <3>6. Near(At[q], x) \in Nat /\ Near(At[q], y) \in Nat /\ Near(At[q], r) \in Nat
      BY <3>5, NearNat
    <3> QED
      BY <3>2, <3>4, <3>6
  <2>3. Cardinality(Taken(t)) = Cardinality(Taken(s)) + 1
    <3>1. Taken(s) \in SUBSET Ids
      BY <1>1 DEF Taken
    <3>2. IsFiniteSet(Taken(s))
      BY <3>1, IdSets
    <3> QED
      BY <2>1, <3>2, FS_AddElement
  <2>4. t.results \subseteq Taken(t)
    BY <1>1, <1>5, <2>1
  <2> QED
    BY <1>7, <1>9, <2>1, <2>2, <2>3, <2>4 DEF SearchesOn, OneMore
<1> QED
  BY <1>10, <1>11

\* After k rounds a search has ended or taken k nodes.
Rounds(g, query, start, level, s, k) ==
  /\ SearchesOn(g, query, start, level, s)
  /\ Ended(query, s) \/ Cardinality(Taken(s)) >= k

\* A search of a layer ends within as many rounds as there are nodes.
LEMMA LayerSearched ==
  ASSUME NEW g, DOMAIN g \subseteq Ids, NEW q \in Ids, NEW ef \in Nat \ {0},
         NEW start \in DOMAIN g, NEW level
  PROVE  LET t == SearchLayer(g, At[q], ef, start, level)
         IN SearchesOn(g, At[q], start, level, t) /\ Ended(At[q], t)
<1>1. PICK N \in Nat : N = Cardinality(DOMAIN g)
  BY IdSets
<1>2. PICK a : /\ LayerRun(a, g, At[q], ef, start, level)
               /\ SearchLayer(g, At[q], ef, start, level) = a[N]
  BY <1>1, LayerRuns
<1>3. PICK T : T = {k \in 0 .. N : Rounds(g, At[q], start, level, a[k], k)}
  OBVIOUS
<1>4. a[0] = Search0(start) /\ \A k \in 1 .. N : a[k] = Visit(g, At[q], ef, level, a[k - 1])
  BY <1>1, <1>2 DEF LayerRun
<1>5. 0 \in T
  <2>1. SearchesOn(g, At[q], start, level, a[0])
    BY <1>4, SearchBegins
  <2>2. Taken(a[0]) \in SUBSET Ids
    BY <2>1 DEF SearchesOn, Walks, Taken
  <2>3. Cardinality(Taken(a[0])) \in Nat
    BY <2>2, IdSets
  <2> QED
    BY <1>3, <2>1, <2>3 DEF Rounds
<1>6. ASSUME NEW k \in 0 .. N - 1, k \in T PROVE k + 1 \in T
  <2>1. /\ SearchesOn(g, At[q], start, level, a[k])
        /\ Ended(At[q], a[k]) \/ Cardinality(Taken(a[k])) >= k
    BY <1>3, <1>6 DEF Rounds
  <2>2. a[k + 1] = Visit(g, At[q], ef, level, a[k]) /\ k + 1 \in 0 .. N
    <3>1. k + 1 \in 1 .. N /\ k + 1 - 1 = k
      OBVIOUS
    <3> QED
      BY <1>4, <3>1
  <2>3. CASE Ended(At[q], a[k])
    <3>1. a[k + 1] = a[k]
      BY <2>2, <2>3, VisitEnds
    <3> QED
      BY <1>3, <2>1, <2>2, <2>3, <3>1 DEF Rounds
  <2>4. CASE ~ Ended(At[q], a[k])
    <3>1. PICK s : s = a[k]
      OBVIOUS
    <3>a. SearchesOn(g, At[q], start, level, s) /\ ~ Ended(At[q], s)
      BY <2>1, <2>4, <3>1
    <3>t. PICK t : t = Visit(g, At[q], ef, level, s)
      OBVIOUS
    <3>2. /\ SearchesOn(g, At[q], start, level, t)
          /\ OneMore(s, t)
      BY <3>a, <3>t, SearchGoesOn
    <3>3. t.broken => Ended(At[q], t)
      BY <3>2 DEF SearchesOn, Walks, Ended
    <3>4. Taken(a[k]) \in SUBSET Ids
      BY <2>1 DEF SearchesOn, Walks, Taken
    <3>5. PICK c \in Nat : c = Cardinality(Taken(a[k]))
      BY <3>4, IdSets
    <3>6. Ended(At[q], t) \/ Cardinality(Taken(t)) >= k + 1
      BY <2>1, <2>4, <3>1, <3>2, <3>3, <3>5 DEF OneMore
    <3>7. a[k + 1] = t
      BY <2>2, <3>1, <3>t
    <3> QED
      BY <1>3, <2>2, <3>2, <3>6, <3>7 DEF Rounds
  <2> QED
    BY <2>3, <2>4
<1>7. N \in T
  <2>1. \A k \in 0 .. N : k \in T
    BY <1>3, <1>5, <1>6, UpTo
  <2> QED
    BY <2>1
<1>8. /\ SearchesOn(g, At[q], start, level, a[N])
      /\ Ended(At[q], a[N]) \/ Cardinality(Taken(a[N])) >= N
  BY <1>3, <1>7 DEF Rounds
<1>9. CASE Cardinality(Taken(a[N])) >= N
  <2>1. Taken(a[N]) \in SUBSET DOMAIN g /\ a[N].frontier \subseteq a[N].visited
        /\ a[N].visited \subseteq DOMAIN g
    BY <1>8 DEF SearchesOn, Walks, Taken
  <2>2. IsFiniteSet(DOMAIN g)
    BY IdSets
  <2>3. /\ Cardinality(Taken(a[N])) <= Cardinality(DOMAIN g)
        /\ Cardinality(DOMAIN g) = Cardinality(Taken(a[N])) => DOMAIN g = Taken(a[N])
    BY <2>1, <2>2, FS_Subset
  <2>4. Cardinality(Taken(a[N])) \in Nat
    BY <2>1, IdSets
  <2>5. DOMAIN g = Taken(a[N])
    BY <1>1, <1>9, <2>3, <2>4
  <2>6. a[N].frontier = {}
    BY <2>1, <2>5 DEF Taken
  <2> QED
    BY <1>2, <1>8, <2>6 DEF Ended
<1> QED
  BY <1>2, <1>8, <1>9

\* The nearest result has no nearer neighbour in the layer.
LEMMA EndsAtOptimum ==
  ASSUME NEW g, DOMAIN g \subseteq Ids, NEW q \in Ids, NEW ef \in Nat \ {0},
         NEW start \in DOMAIN g, NEW level, NEW t, t = SearchLayer(g, At[q], ef, start, level),
         ~ t.broken, NEW n \in Layer(g, Closest(At[q], t.results), level)
  PROVE  Near(At[q], n) >= Near(At[q], Closest(At[q], t.results))
<1>1. SearchesOn(g, At[q], start, level, t) /\ Ended(At[q], t)
  BY LayerSearched
<1>2. /\ t.visited \subseteq Ids /\ t.frontier \subseteq t.visited /\ start \in t.visited
      /\ t.results \subseteq Taken(t) /\ t.results \subseteq Ids
      /\ \A x \in Taken(t) : Layer(g, x, level) \subseteq t.visited
      /\ \A x \in Taken(t) : \E r \in t.results : Near(At[q], r) <= Near(At[q], x)
  BY <1>1 DEF SearchesOn, Walks, Taken
<1>3. t.results # {}
  <2>1. CASE t.frontier = {}
    BY <1>2, <2>1 DEF Taken
  <2> QED
    BY <1>1, <2>1 DEF Ended
<1>4. PICK best : best = Closest(At[q], t.results)
  OBVIOUS
<1>5. best \in t.results /\ \A r \in t.results : Near(At[q], best) <= Near(At[q], r)
  BY <1>2, <1>3, <1>4, NearestIs
<1>6. n \in t.visited
  BY <1>2, <1>4, <1>5
<1>7. CASE n \in Taken(t)
  <2>1. PICK r \in t.results : Near(At[q], r) <= Near(At[q], n)
    BY <1>2, <1>7
  <2>2. Near(At[q], r) \in Nat /\ Near(At[q], n) \in Nat /\ Near(At[q], best) \in Nat
    BY <1>2, <1>5, <1>6, NearNat
  <2> QED
    BY <1>4, <1>5, <2>1, <2>2
<1>8. CASE n \in t.frontier
  <2>1. PICK c : c = Closest(At[q], t.frontier)
    OBVIOUS
  <2>2. PICK f : f = Farthest(At[q], t.results)
    OBVIOUS
  <2>3. c \in Ids /\ Near(At[q], c) <= Near(At[q], n)
    <3>1. t.frontier \in SUBSET Ids /\ t.frontier # {}
      BY <1>2, <1>8
    <3> QED
      BY <1>8, <2>1, <3>1, NearestIs
  <2>4. f \in Ids /\ Near(At[q], f) >= Near(At[q], best)
    BY <1>2, <1>3, <1>5, <2>2, NearestIs
  <2>5. Near(At[q], c) >= Near(At[q], f)
    BY <1>1, <1>8, <2>1, <2>2 DEF Ended
  <2>6. /\ Near(At[q], c) \in Nat /\ Near(At[q], n) \in Nat
        /\ Near(At[q], best) \in Nat /\ Near(At[q], f) \in Nat
    BY <1>2, <1>5, <1>6, <2>3, <2>4, NearNat
  <2> QED
    BY <1>4, <2>3, <2>4, <2>5, <2>6
<1> QED
  BY <1>6, <1>7, <1>8 DEF Taken

\* Induction down to a bound.
LEMMA DownTo ==
  ASSUME NEW lo \in Int, NEW hi \in Int, lo <= hi, NEW T \in SUBSET (lo .. hi), hi \in T,
         \A l \in lo .. hi - 1 : l + 1 \in T => l \in T
  PROVE  \A l \in lo .. hi : l \in T
<1>1. PICK N \in Nat : N = hi - lo
  OBVIOUS
<1>2. PICK U : U = {k \in 0 .. N : hi - k \in T}
  OBVIOUS
<1>3. 0 \in U
  BY <1>1, <1>2
<1>4. ASSUME NEW k \in 0 .. N - 1, k \in U PROVE k + 1 \in U
  <2>1. hi - k - 1 \in lo .. hi - 1 /\ hi - k - 1 + 1 = hi - k /\ hi - (k + 1) = hi - k - 1
        /\ k + 1 \in 0 .. N
    BY <1>1
  <2>2. hi - k \in T
    BY <1>2, <1>4
  <2>3. hi - k - 1 \in T
    BY <2>1, <2>2
  <2> QED
    BY <1>2, <2>1, <2>3
<1>5. \A k \in 0 .. N : k \in U
  BY <1>2, <1>3, <1>4, UpTo
<1> SUFFICES ASSUME NEW l \in lo .. hi PROVE l \in T
  OBVIOUS
<1>6. hi - l \in 0 .. N /\ hi - (hi - l) = l
  BY <1>1
<1> QED
  BY <1>2, <1>5, <1>6

-----------------------------------------------------------------------------
(***************************************************************************)
(* HNSW: choosing neighbours, descending, connecting.                      *)
(***************************************************************************)
\* The neighbours chosen are candidates, and there are some if there are candidates.
LEMMA SelectIs ==
  ASSUME NEW q \in Ids, NEW C \in SUBSET Ids, NEW m \in Nat \ {0}
  PROVE  /\ SelectNeighbors(At[q], C, m) \subseteq C
         /\ C # {} => SelectNeighbors(At[q], C, m) # {}
<1>1. CASE Cardinality(C) <= m
  BY <1>1 DEF SelectNeighbors
<1>2. CASE ~ (Cardinality(C) <= m)
  <2> DEFINE Closer(n) == {c \in C : Near(At[q], c) < Near(At[q], n)}
             Spread(chosen, k) ==
               chosen \cup {n \in C :
                              /\ Cardinality(Closer(n)) = k - 1 /\ Cardinality(chosen) < m
                              /\ \A c \in chosen : Dist(At[n], At[c]) >= Near(At[q], n)}
  <2>1. PICK N \in Nat : N = Cardinality(C)
    BY IdSets
  <2>2. \A k \in 1 .. N, chosen \in SUBSET C : Spread(chosen, k) \in SUBSET C
    OBVIOUS
  <2> HIDE DEF Spread
  <2>3. PICK F : F = [p \in (1 .. N) \X SUBSET C |-> Spread(p[2], p[1])]
    OBVIOUS
  <2>4. F \in [(1 .. N) \X SUBSET C -> SUBSET C]
    BY <2>2, <2>3
  <2>5. PICK S : S = SUBSET C
    OBVIOUS
  <2>6. PICK a \in [0 .. N -> S] : RunsUp(a, N, {}, F)
    BY <2>4, <2>5, RunExists
  <2>7. a = [k \in 0 .. N |-> IF k = 0 THEN {} ELSE F[<<k, a[k - 1]>>]]
    BY <2>6 DEF RunsUp
  <2>8. ASSUME NEW k \in 0 .. N
        PROVE  a[k] = IF k = 0 THEN {} ELSE Spread(a[k - 1], k)
    <3>1. k # 0 => k \in 1 .. N /\ a[k - 1] \in SUBSET C
      BY <2>5, <2>6
    <3> QED
      BY <2>3, <2>7, <3>1
  <2>9. a = [k \in 0 .. N |-> IF k = 0 THEN {} ELSE Spread(a[k - 1], k)]
    BY <2>6, <2>8
  <2> DEFINE spread[k \in 0 .. N] == IF k = 0 THEN {} ELSE Spread(spread[k - 1], k)
  <2>10. spread = [k \in 0 .. N |-> IF k = 0 THEN {} ELSE Spread(spread[k - 1], k)]
    BY <2>9
  <2>11. PICK b : b = spread
    OBVIOUS
  <2>12. SelectNeighbors(At[q], C, m) =
           b[N] \cup {n \in C \ b[N] : Cardinality(b[N]) + Cardinality(Closer(n) \ b[N]) < m}
    BY <1>2, <2>1, <2>11 DEF SelectNeighbors, Spread
  <2> HIDE DEF spread
  <2>13. b = [k \in 0 .. N |-> IF k = 0 THEN {} ELSE Spread(b[k - 1], k)]
    BY <2>10, <2>11
  <2>r. \A j \in 1 .. N : b[j] = Spread(b[j - 1], j)
    <3> SUFFICES ASSUME NEW j \in 1 .. N PROVE b[j] = Spread(b[j - 1], j)
      OBVIOUS
    <3>1. j \in 0 .. N /\ j # 0
      OBVIOUS
    <3> QED
      BY <2>13, <3>1
  <2>14. PICK T : T = {k \in 0 .. N : b[k] \in SUBSET C}
    OBVIOUS
  <2>15. 0 \in T
    BY <2>13, <2>14
  <2>16. ASSUME NEW k \in 0 .. N - 1, k \in T PROVE k + 1 \in T
    <3>1. k + 1 \in 0 .. N /\ k + 1 \in 1 .. N /\ k + 1 # 0 /\ k + 1 - 1 = k
      OBVIOUS
    <3>2. b[k + 1] = Spread(b[k + 1 - 1], k + 1)
      BY <2>r, <3>1
    <3>3. b[k + 1] = Spread(b[k], k + 1)
      BY <3>1, <3>2
    <3> QED
      BY <2>2, <2>14, <2>16, <3>1, <3>3
  <2>17. \A k \in 0 .. N : k \in T
    BY <2>14, <2>15, <2>16, UpTo
  <2>18. b[N] \in SUBSET C
    BY <2>14, <2>17
  <2>19. PICK B : B = b[N]
    OBVIOUS
  <2>20. ASSUME C # {}, B = {} PROVE \E n \in C : Cardinality(B) + Cardinality(Closer(n) \ B) < m
    <3>1. PICK n : n = Closest(At[q], C)
      OBVIOUS
    <3>2. n \in C /\ \A c \in C : Near(At[q], n) <= Near(At[q], c)
      BY <2>20, <3>1, NearestIs
    <3>3. \A c \in C : ~ (Near(At[q], c) < Near(At[q], n))
      BY <3>2, NearNat
    <3>4. Closer(n) \ B = {}
      BY <3>3
    <3>5. Cardinality(B) = 0 /\ Cardinality(Closer(n) \ B) = 0
      BY <2>20, <3>4, FS_EmptySet
    <3>6. Cardinality(B) + Cardinality(Closer(n) \ B) < m
      BY <3>5
    <3> HIDE DEF Closer
    <3> QED
      BY <3>2, <3>6
  <2> HIDE DEF Closer
  <2>21. SelectNeighbors(At[q], C, m) =
           B \cup {n \in C \ B : Cardinality(B) + Cardinality(Closer(n) \ B) < m}
    BY <2>12, <2>19
  <2>22. ASSUME C # {} PROVE SelectNeighbors(At[q], C, m) # {}
    BY <2>20, <2>21, <2>22
  <2> QED
    BY <2>18, <2>19, <2>21, <2>22
<1> QED
  BY <1>1, <1>2

\* Where a descent may stand: within a part X of the graph that no edge leaves, and it has
\* raised only if some edge leads to no node.
Intact(g) == \A n \in DOMAIN g : \A l \in DOMAIN g[n] : g[n][l] \subseteq DOMAIN g
Stops(g, X) == {s \in [node : X, broken : BOOLEAN] : Intact(g) => ~ s.broken}

\* In an intact graph the layers hold nodes only.
LEMMA IntactLayers ==
  ASSUME NEW g, Intact(g), NEW level
  PROVE  \A n \in DOMAIN g : Layer(g, n, level) \subseteq DOMAIN g
  BY DEF Intact, Layer

\* What the search of a layer finds from a node of X.
LEMMA FoundIn ==
  ASSUME NEW g, DOMAIN g \subseteq Ids, NEW q \in Ids, NEW ef \in Nat \ {0}, NEW level,
         NEW X \in SUBSET DOMAIN g, NEW start \in X, Shut(g, level, X),
         NEW t, t = SearchLayer(g, At[q], ef, start, level)
  PROVE  /\ t.results \subseteq X /\ t.broken \in BOOLEAN
         /\ ~ t.broken => t.results # {}
         /\ t.results # {} => Closest(At[q], t.results) \in t.results
         /\ Intact(g) => ~ t.broken
<1>1. SearchesOn(g, At[q], start, level, t) /\ Ended(At[q], t)
  BY LayerSearched
<1>2. Walks(g, start, level, t) /\ t.results \subseteq Taken(t) /\ t.visited \subseteq X
  BY <1>1 DEF SearchesOn, Walks
<1>3. t.results \subseteq X
  BY <1>2 DEF Taken
<1>4. t.broken \in BOOLEAN
  BY <1>2 DEF Walks
<1>5. ~ t.broken => t.results # {}
  <2>1. CASE t.frontier = {}
    BY <1>1, <1>2, <2>1 DEF SearchesOn, Walks, Taken
  <2>2. CASE t.frontier # {}
    BY <1>1, <2>2 DEF Ended
  <2> QED
    BY <2>1, <2>2
<1>6. t.results # {} => Closest(At[q], t.results) \in t.results
  BY <1>3, NearestIs
<1>7. Intact(g) => ~ t.broken
  BY <1>2, IntactLayers DEF Walks
<1> QED
  BY <1>3, <1>4, <1>5, <1>6, <1>7

\* One step of the descent stays in X.
LEMMA StepDownStays ==
  ASSUME NEW g, DOMAIN g \subseteq Ids, NEW q \in Ids, NEW X \in SUBSET DOMAIN g,
         NEW level, Shut(g, level, X), NEW s \in Stops(g, X)
  PROVE  StepDown(g, At[q], s, level) \in Stops(g, X)
<1>1. s.node \in X /\ s.broken \in BOOLEAN /\ (Intact(g) => ~ s.broken)
  BY DEF Stops
<1>2. CASE s.broken
  BY <1>2 DEF StepDown
<1>3. CASE ~ s.broken
  <2>1. PICK t : t = SearchLayer(g, At[q], 1, s.node, level)
    OBVIOUS
  <2>2. /\ t.results \subseteq X /\ t.broken \in BOOLEAN
        /\ t.results # {} => Closest(At[q], t.results) \in t.results
        /\ Intact(g) => ~ t.broken
    <3>1. PICK ef \in Nat \ {0} : ef = 1
      OBVIOUS
    <3>2. PICK x \in X : x = s.node
      BY <1>1
    <3>3. t = SearchLayer(g, At[q], ef, x, level)
      BY <2>1, <3>1, <3>2
    <3> QED
      BY <3>3, FoundIn
  <2>3. PICK n : n = IF t.results = {} THEN s.node ELSE Closest(At[q], t.results)
    OBVIOUS
  <2>4. n \in X
    BY <1>1, <2>2, <2>3
  <2>5. StepDown(g, At[q], s, level) = [node |-> n, broken |-> t.broken]
    BY <1>3, <2>1, <2>3 DEF StepDown
  <2> QED
    BY <2>2, <2>4, <2>5 DEF Stops
<1> QED
  BY <1>1, <1>2, <1>3

\* So does the whole descent.
LEMMA DescendStays ==
  ASSUME NEW g, DOMAIN g \subseteq Ids, NEW q \in Ids, NEW X \in SUBSET DOMAIN g,
         NEW top \in Nat, NEW bottom \in Nat, bottom <= top,
         \A l \in Nat : Shut(g, l, X), NEW start \in X
  PROVE  Descend(g, At[q], start, top, bottom) \in Stops(g, X)
<1>i. bottom \in Int /\ top \in Int
  OBVIOUS
<1>1. PICK S : S = Stops(g, X)
  OBVIOUS
<1>2. PICK s0 : s0 = [node |-> start, broken |-> FALSE]
  OBVIOUS
<1>3. s0 \in S
  BY <1>1, <1>2 DEF Stops
<1>4. \A l \in bottom .. top, s \in S : StepDown(g, At[q], s, l + 1) \in S
  <2> TAKE l \in bottom .. top, s \in S
  <2>1. l + 1 \in Nat
    OBVIOUS
  <2> QED
    BY <1>1, <2>1, StepDownStays
<1>5. PICK F : F = [p \in (bottom .. top) \X S |-> StepDown(g, At[q], p[2], p[1] + 1)]
  OBVIOUS
<1>6. F \in [(bottom .. top) \X S -> S]
  BY <1>4, <1>5
<1>7. PICK a \in [bottom .. top -> S] : RunsDown(a, bottom, top, s0, F)
  BY <1>i, <1>3, <1>6, RunDownExists
<1>8. a = [l \in bottom .. top |-> IF l = top THEN s0 ELSE F[<<l, a[l + 1]>>]]
  BY <1>7 DEF RunsDown
<1>9. ASSUME NEW l \in bottom .. top
      PROVE  a[l] = IF l = top THEN [node |-> start, broken |-> FALSE]
                    ELSE StepDown(g, At[q], a[l + 1], l + 1)
  <2>1. l # top => l + 1 \in bottom .. top
    OBVIOUS
  <2>2. l # top => a[l + 1] \in S
    BY <1>7, <2>1
  <2> QED
    BY <1>2, <1>5, <1>8, <2>2
<1>10. a = [l \in bottom .. top |->
              IF l = top THEN [node |-> start, broken |-> FALSE]
              ELSE StepDown(g, At[q], a[l + 1], l + 1)]
  BY <1>7, <1>9
<1> DEFINE at[l \in bottom .. top] ==
             IF l = top THEN [node |-> start, broken |-> FALSE]
             ELSE StepDown(g, At[q], at[l + 1], l + 1)
<1>11. at = [l \in bottom .. top |->
              IF l = top THEN [node |-> start, broken |-> FALSE]
              ELSE StepDown(g, At[q], at[l + 1], l + 1)]
  BY <1>10
<1>12. PICK b : b = at
  OBVIOUS
<1>13. Descend(g, At[q], start, top, bottom) = b[bottom]
  BY <1>12 DEF Descend
<1> HIDE DEF at
<1>14. b = [l \in bottom .. top |->
              IF l = top THEN [node |-> start, broken |-> FALSE]
              ELSE StepDown(g, At[q], b[l + 1], l + 1)]
  BY <1>11, <1>12
<1>15. /\ b[top] = s0
       /\ \A l \in bottom .. top - 1 : b[l] = StepDown(g, At[q], b[l + 1], l + 1)
  <2>1. b[top] = s0
    BY <1>2, <1>14
  <2>2. ASSUME NEW l \in bottom .. top - 1 PROVE b[l] = StepDown(g, At[q], b[l + 1], l + 1)
    <3>1. l \in bottom .. top /\ l # top
      OBVIOUS
    <3> QED
      BY <1>14, <3>1
  <2> QED
    BY <2>1, <2>2
<1>16. PICK T : T = {l \in bottom .. top : b[l] \in S}
  OBVIOUS
<1>17. top \in T
  BY <1>3, <1>15, <1>16
<1>18. ASSUME NEW l \in bottom .. top - 1, l + 1 \in T PROVE l \in T
  <2>1. b[l + 1] \in S
    BY <1>16, <1>18
  <2>2. l \in bottom .. top
    OBVIOUS
  <2>3. StepDown(g, At[q], b[l + 1], l + 1) \in S
    BY <1>4, <2>1, <2>2
  <2> QED
    BY <1>15, <1>16, <2>2, <2>3
<1>19. \A l \in bottom .. top : l \in T
  BY <1>i, <1>16, <1>17, <1>18, DownTo
<1>20. b[bottom] \in S
  BY <1>16, <1>19
<1> QED
  BY <1>1, <1>13, <1>20

-----------------------------------------------------------------------------
(***************************************************************************)
(* HNSW: the graph and an insert.                                          *)
(***************************************************************************)
\* Graphs over the nodes D with layers up to top; every edge, but for those to the ids of R,
\* leads to a node and comes back.
HnswGraphs(D, top) == [D -> UNION {[L -> SUBSET Ids] : L \in SUBSET (0 .. top)}]
NoLoops(g) == \A n \in DOMAIN g : \A l \in DOMAIN g[n] : n \notin g[n][l]
MutualLayers(g, R) ==
  \A n \in DOMAIN g : \A l \in Nat : \A m \in Layer(g, n, l) :
    m \notin R => m \in DOMAIN g /\ n \in Layer(g, m, l)
SoundGraph(g, D, top, R) == g \in HnswGraphs(D, top) /\ NoLoops(g) /\ MutualLayers(g, R)

\* The same, node by node.
GraphOver(g, D, top) ==
  /\ DOMAIN g = D
  /\ \A n \in D : /\ g[n] = [l \in DOMAIN g[n] |-> g[n][l]]
                  /\ DOMAIN g[n] \subseteq 0 .. top
                  /\ \A l \in DOMAIN g[n] : g[n][l] \subseteq Ids

\* A graph of the set has the shape, node by node.
LEMMA GraphIs ==
  ASSUME NEW D, NEW top \in Nat, NEW g \in HnswGraphs(D, top)
  PROVE  GraphOver(g, D, top)
<1>1. DOMAIN g = D
  BY DEF HnswGraphs
<1>2. ASSUME NEW n \in D
      PROVE  /\ g[n] = [l \in DOMAIN g[n] |-> g[n][l]]
             /\ DOMAIN g[n] \subseteq 0 .. top
             /\ \A l \in DOMAIN g[n] : g[n][l] \subseteq Ids
  <2>1. PICK L \in SUBSET (0 .. top) : g[n] \in [L -> SUBSET Ids]
    BY DEF HnswGraphs
  <2> QED
    BY <2>1
<1> QED
  BY <1>1, <1>2 DEF GraphOver

\* A graph whose edges come back, its nodes being the set L.
LEMMA IsMutual ==
  ASSUME NEW h, NEW L, NEW R, DOMAIN h = L,
         \A n \in L : \A l \in Nat : \A m \in Layer(h, n, l) :
           m \notin R => m \in L /\ n \in Layer(h, m, l)
  PROVE  MutualLayers(h, R)
  BY DEF MutualLayers

\* A graph of that shape is in the set.
LEMMA IsGraph ==
  ASSUME NEW D, NEW top \in Nat, NEW g, g = [n \in D |-> g[n]], GraphOver(g, D, top)
  PROVE  g \in HnswGraphs(D, top)
<1>1. ASSUME NEW n \in D PROVE g[n] \in UNION {[L -> SUBSET Ids] : L \in SUBSET (0 .. top)}
  <2>1. PICK L \in SUBSET (0 .. top) : L = DOMAIN g[n]
    BY DEF GraphOver
  <2>2. g[n] \in [L -> SUBSET Ids]
    BY <2>1 DEF GraphOver
  <2> QED
    BY <2>2
<1> QED
  BY <1>1 DEF HnswGraphs

\* The neighbours that can be linked.
Linkable(g, D, id, level) == {n \in D \ {id} : level \in DOMAIN g[n]}

\* What linking adds to the layers.
Links(g, h, D, id, level, nb) ==
  \A n \in D :
    /\ DOMAIN h[n] = DOMAIN g[n] \cup (IF n = id THEN {level} ELSE {})
    /\ \A l \in Nat :
         Layer(h, n, l) = Layer(g, n, l) \cup
           (IF l # level THEN {} ELSE IF n = id THEN nb ELSE IF n \in nb THEN {id} ELSE {})

\* Linking adds the edges that Links names and no others.
LEMMA LinkLayers ==
  ASSUME NEW D \in SUBSET Ids, NEW top \in Nat, NEW g \in HnswGraphs(D, top), NEW id \in D,
         NEW level \in 0 .. top, NEW nb \in SUBSET Linkable(g, D, id, level),
         NEW h, h = Link(g, id, level, nb)
  PROVE  h \in HnswGraphs(D, top) /\ Links(g, h, D, id, level, nb)
<1>g. GraphOver(g, D, top)
  BY GraphIs
<1>1. /\ DOMAIN g = D
      /\ \A n \in D : /\ g[n] = [l \in DOMAIN g[n] |-> g[n][l]]
                      /\ DOMAIN g[n] \subseteq 0 .. top
                      /\ \A l \in DOMAIN g[n] : g[n][l] \subseteq Ids
  BY <1>g DEF GraphOver
<1>2. h = [n \in D |->
             IF n = id
               THEN [l \in DOMAIN g[id] \cup {level} |->
                       IF l = level THEN Layer(g, id, level) \cup nb ELSE g[id][l]]
             ELSE IF n \in nb THEN [g[n] EXCEPT ![level] = @ \cup {id}]
             ELSE g[n]]
  BY <1>1 DEF Link
<1>3. nb \subseteq D \ {id} /\ \A n \in nb : level \in DOMAIN g[n]
  BY DEF Linkable
<1>4. \A n \in D : Layer(g, n, level) \subseteq Ids
  BY <1>1 DEF Layer
<1>5. h[id] = [l \in DOMAIN g[id] \cup {level} |->
                 IF l = level THEN Layer(g, id, level) \cup nb ELSE g[id][l]]
  BY <1>2
<1>6. \A n \in nb : h[n] = [g[n] EXCEPT ![level] = @ \cup {id}]
  BY <1>2, <1>3
<1>7. \A n \in D \ ({id} \cup nb) : h[n] = g[n]
  BY <1>2
<1>8. ASSUME NEW n \in D
      PROVE  /\ h[n] = [l \in DOMAIN h[n] |-> h[n][l]]
             /\ DOMAIN h[n] = DOMAIN g[n] \cup (IF n = id THEN {level} ELSE {})
             /\ \A l \in DOMAIN h[n] : h[n][l] \subseteq Ids
             /\ \A l \in Nat :
                  Layer(h, n, l) = Layer(g, n, l) \cup
                    (IF l # level THEN {} ELSE IF n = id THEN nb ELSE IF n \in nb THEN {id} ELSE {})
  <2>1. CASE n = id
    <3>1. /\ h[n] = [l \in DOMAIN h[n] |-> h[n][l]]
          /\ DOMAIN h[n] = DOMAIN g[n] \cup {level}
          /\ \A l \in DOMAIN h[n] : h[n][l] = IF l = level THEN Layer(g, n, level) \cup nb ELSE g[n][l]
      BY <1>5, <2>1
    <3>2. \A l \in DOMAIN h[n] : h[n][l] \subseteq Ids
      BY <1>1, <1>3, <1>4, <2>1, <3>1
    <3>3. \A l \in Nat : Layer(h, n, l) = Layer(g, n, l) \cup (IF l # level THEN {} ELSE nb)
      BY <3>1 DEF Layer
    <3> QED
      BY <2>1, <3>1, <3>2, <3>3
  <2>2. CASE n \in nb
    <3>1. n # id /\ level \in DOMAIN g[n]
      BY <1>3, <2>2
    <3>2. /\ h[n] = [l \in DOMAIN h[n] |-> h[n][l]]
          /\ DOMAIN h[n] = DOMAIN g[n]
          /\ \A l \in DOMAIN h[n] : h[n][l] = IF l = level THEN g[n][l] \cup {id} ELSE g[n][l]
      BY <1>1, <1>6, <2>2, <3>1, ZenonT(40)
    <3>3. \A l \in DOMAIN h[n] : h[n][l] \subseteq Ids
      <4> TAKE l \in DOMAIN h[n]
      <4>1. g[n][l] \subseteq Ids /\ id \in Ids
        BY <1>1, <3>2
      <4>2. h[n][l] \subseteq g[n][l] \cup {id}
        BY <3>2
      <4> QED
        BY <4>1, <4>2
    <3>4. \A l \in Nat : Layer(h, n, l) = Layer(g, n, l) \cup (IF l # level THEN {} ELSE {id})
      BY <3>1, <3>2 DEF Layer
    <3> QED
      BY <2>2, <3>1, <3>2, <3>3, <3>4
  <2>3. CASE n \notin nb /\ n # id
    <3>1. h[n] = g[n]
      BY <1>7, <2>3
    <3> QED
      BY <1>1, <2>3, <3>1 DEF Layer
  <2> QED
    BY <2>1, <2>2, <2>3
<1>9. h \in HnswGraphs(D, top)
  <2>1. h = [n \in D |-> h[n]]
    BY <1>2
  <2>2. ASSUME NEW n \in D PROVE DOMAIN h[n] \subseteq 0 .. top
    <3>1. DOMAIN h[n] = DOMAIN g[n] \cup (IF n = id THEN {level} ELSE {}) /\ DOMAIN g[n] \subseteq 0 .. top
      BY <1>1, <1>8
    <3> QED
      BY <3>1
  <2>3. DOMAIN h = D
    BY <1>2
  <2>4. GraphOver(h, D, top)
    BY <1>8, <2>2, <2>3 DEF GraphOver
  <2> QED
    BY <2>1, <2>4, IsGraph
<1>10. Links(g, h, D, id, level, nb)
  BY <1>8 DEF Links
<1> QED
  BY <1>9, <1>10

\* Linking keeps a graph sound: its new edges go both ways.
LEMMA LinkKeeps ==
  ASSUME NEW D \in SUBSET Ids, NEW top \in Nat, NEW R, NEW g, SoundGraph(g, D, top, R),
         NEW id \in D, NEW level \in 0 .. top, NEW nb \in SUBSET Linkable(g, D, id, level),
         NEW h, h = Link(g, id, level, nb)
  PROVE  SoundGraph(h, D, top, R)
<1>1. g \in HnswGraphs(D, top) /\ NoLoops(g) /\ MutualLayers(g, R)
  BY DEF SoundGraph
<1>k. h \in HnswGraphs(D, top) /\ Links(g, h, D, id, level, nb)
  BY <1>1, LinkLayers
<1>2. /\ h \in HnswGraphs(D, top)
      /\ \A n \in D : \A l \in Nat :
           Layer(h, n, l) = Layer(g, n, l) \cup
             (IF l # level THEN {} ELSE IF n = id THEN nb ELSE IF n \in nb THEN {id} ELSE {})
  BY <1>k DEF Links
<1>o. GraphOver(g, D, top) /\ GraphOver(h, D, top)
  BY <1>1, <1>2, GraphIs
<1>3. DOMAIN g = D /\ DOMAIN h = D /\ level \in Nat
      /\ \A n \in D : DOMAIN h[n] \subseteq 0 .. top
  BY <1>o DEF GraphOver
<1>4. nb \subseteq D \ {id}
  BY DEF Linkable
<1>5. NoLoops(h)
  <2> SUFFICES ASSUME NEW n \in D, NEW l \in DOMAIN h[n] PROVE n \notin h[n][l]
    BY <1>3 DEF NoLoops
  <2>1. l \in Nat /\ h[n][l] = Layer(h, n, l)
    BY <1>3 DEF Layer
  <2>2. n \notin Layer(g, n, l)
    BY <1>1, <1>3 DEF NoLoops, Layer
  <2> QED
    BY <1>2, <1>4, <2>1, <2>2
<1>6. MutualLayers(h, R)
  <2>d. DOMAIN h = D
    BY <1>3
  <2> SUFFICES ASSUME NEW n \in D, NEW l \in Nat, NEW m \in Layer(h, n, l), m \notin R
               PROVE  m \in D /\ n \in Layer(h, m, l)
    BY <2>d, IsMutual
  <2>1. CASE m \in Layer(g, n, l)
    <3>1. m \in D /\ n \in Layer(g, m, l)
      BY <1>1, <1>3, <2>1 DEF MutualLayers
    <3> QED
      BY <1>2, <3>1
  <2>2. CASE m \notin Layer(g, n, l)
    <3>1. l = level /\ ((n = id /\ m \in nb) \/ (n \in nb /\ m = id))
      BY <1>2, <2>2
    <3> QED
      BY <1>2, <1>4, <3>1
  <2> QED
    BY <2>1, <2>2
<1> QED
  BY <1>2, <1>5, <1>6 DEF SoundGraph

\* The states of an insert under way.
Builds(D, top, R) ==
  {s \in [graph : HnswGraphs(D, top), node : D, broken : BOOLEAN] : SoundGraph(s.graph, D, top, R)}

\* What connecting a node on a layer does.
Connects(s, t, D, X, id, level) ==
  /\ t.node \in X
  /\ Intact(s.graph) /\ ~ s.broken => ~ t.broken
  /\ ~ t.broken =>
       \E nb \in SUBSET Linkable(s.graph, D, id, level) :
         /\ t.graph = Link(s.graph, id, level, nb) /\ nb \subseteq X
         /\ X \subseteq Linkable(s.graph, D, id, level) => nb # {}

\* _connect_node on a sound graph: it leaves a sound graph, stays in a part that is shut, and links
\* the node to at least one other when all of that part has the layer.
LEMMA ConnectIs ==
  ASSUME NEW D \in SUBSET Ids, NEW top \in Nat, NEW R, NEW s \in Builds(D, top, R),
         NEW id \in D, NEW level \in 0 .. top, NEW X \in SUBSET D, s.node \in X,
         Shut(s.graph, level, X), NEW t, t = Connect(s, id, level)
  PROVE  t \in Builds(D, top, R) /\ Connects(s, t, D, X, id, level)
<1>1. /\ s.graph \in HnswGraphs(D, top) /\ s.node \in D /\ s.broken \in BOOLEAN
      /\ SoundGraph(s.graph, D, top, R) /\ s = [graph |-> s.graph, node |-> s.node, broken |-> s.broken]
  BY DEF Builds
<1>2. PICK g : g = s.graph
  OBVIOUS
<1>3. DOMAIN g = D
  BY <1>1, <1>2, GraphIs DEF GraphOver
<1>4. PICK x \in X : x = s.node
  OBVIOUS
<1>5. PICK found : found = SearchLayer(g, At[id], EfConstruction, x, level)
  OBVIOUS
<1>6. /\ found.results \subseteq X /\ found.broken \in BOOLEAN
      /\ ~ found.broken => found.results # {}
      /\ found.results # {} => Closest(At[id], found.results) \in found.results
      /\ Intact(g) => ~ found.broken
  <2>1. DOMAIN g \subseteq Ids /\ id \in Ids /\ X \in SUBSET DOMAIN g /\ Shut(g, level, X)
    BY <1>2, <1>3
  <2>2. EfConstruction \in Nat \ {0}
    BY SearchAssumption
  <2> QED
    BY <1>5, <2>1, <2>2, FoundIn, SMTT(30)
<1>7. CASE s.broken
  <2>1. t = s
    BY <1>7 DEF Connect
  <2> QED
    BY <1>1, <1>7, <2>1 DEF Connects, Builds
<1>8. CASE ~ s.broken /\ found.broken
  <2>1. t = [s EXCEPT !.broken = TRUE]
    BY <1>2, <1>4, <1>5, <1>8 DEF Connect
  <2>2. t.graph = s.graph /\ t.node = s.node /\ t.broken = TRUE
        /\ t = [graph |-> s.graph, node |-> s.node, broken |-> TRUE]
    BY <1>1, <2>1
  <2> QED
    BY <1>1, <1>2, <1>6, <1>8, <2>2 DEF Connects, Builds
<1>9. CASE ~ s.broken /\ ~ found.broken
  <2>1. PICK C : C = {n \in found.results \ {id} : level \in DOMAIN g[n]}
    OBVIOUS
  <2>2. PICK nb : nb = SelectNeighbors(At[id], C, M)
    OBVIOUS
  <2>3. C \in SUBSET Ids /\ C \subseteq X /\ C \subseteq Linkable(g, D, id, level)
    BY <1>6, <2>1 DEF Linkable
  <2>4. nb \subseteq C /\ (C # {} => nb # {})
    <3>1. M \in Nat \ {0} /\ id \in Ids
      BY SearchAssumption
    <3> QED
      BY <2>2, <2>3, <3>1, SelectIs
  <2>5. PICK n : n = IF found.results = {} THEN x ELSE Closest(At[id], found.results)
    OBVIOUS
  <2>6. n \in X
    BY <1>6, <2>5
  <2>7. PICK h : h = Link(g, id, level, nb)
    OBVIOUS
  <2>8. t = [graph |-> h, node |-> n, broken |-> FALSE]
    BY <1>2, <1>4, <1>5, <1>9, <2>1, <2>2, <2>5, <2>7 DEF Connect
  <2>9. nb \in SUBSET Linkable(g, D, id, level)
    BY <2>3, <2>4
  <2>10. SoundGraph(h, D, top, R)
    BY <1>1, <1>2, <2>7, <2>9, LinkKeeps
  <2>11. t \in Builds(D, top, R)
    BY <2>6, <2>8, <2>10 DEF Builds, SoundGraph
  <2>12. X \subseteq Linkable(g, D, id, level) => nb # {}
    BY <1>6, <1>9, <2>1, <2>4 DEF Linkable
  <2>13. t.graph = Link(s.graph, id, level, nb) /\ t.node = n /\ t.broken = FALSE /\ nb \subseteq X
    BY <1>2, <2>3, <2>4, <2>7, <2>8
  <2> QED
    BY <1>2, <2>6, <2>9, <2>11, <2>12, <2>13 DEF Connects
<1> QED
  BY <1>1, <1>6, <1>7, <1>8, <1>9

\* a is the run of the loop over the layers of an insert.
JoinRun(a, g, D, R, id, level, top) ==
  LET below == Descend(g, At[id], entryPoint, top, level)
  IN /\ a \in [0 .. level + 1 -> Builds(D, top, R)]
     /\ a[level + 1] = [graph |-> g, node |-> below.node, broken |-> below.broken]
     /\ \A l \in 0 .. level : a[l] = Connect(a[l + 1], id, l)

\* No edge leaves all the nodes.
LEMMA ShutAll == \A g, l, D : DOMAIN g = D => Shut(g, l, D)
  BY DEF Shut

\* _connect_node keeps the state of an insert.
LEMMA ConnectBuilds ==
  ASSUME NEW D \in SUBSET Ids, NEW top \in Nat, NEW R, NEW s \in Builds(D, top, R),
         NEW id \in D, NEW level \in 0 .. top
  PROVE  Connect(s, id, level) \in Builds(D, top, R)
<1>1. s.node \in D /\ DOMAIN s.graph = D
  BY GraphIs DEF Builds, GraphOver
<1>2. D \in SUBSET D /\ Shut(s.graph, level, D)
  BY <1>1, ShutAll
<1>3. PICK t : t = Connect(s, id, level)
  OBVIOUS
<1>4. t \in Builds(D, top, R)
  BY <1>1, <1>2, <1>3, ConnectIs
<1> QED
  BY <1>3, <1>4

\* An insert into a graph that has an entry point has a run.
LEMMA JoinRuns ==
  ASSUME NEW D \in SUBSET Ids, NEW top \in Nat, NEW R, NEW g, SoundGraph(g, D, top, R),
         NEW id \in D, NEW level \in 0 .. top, entryPoint \in D
  PROVE  \E a : /\ JoinRun(a, g, D, R, id, level, top)
                /\ ConnectFrom(g, id, level, top) = a[0]
<1>1. PICK S : S = Builds(D, top, R)
  OBVIOUS
<1>2. PICK below : below = Descend(g, At[id], entryPoint, top, level)
  OBVIOUS
<1>3. g \in HnswGraphs(D, top) /\ DOMAIN g = D
  BY GraphIs DEF SoundGraph, GraphOver
<1>4. below \in Stops(g, D)
  <2>1. /\ DOMAIN g \subseteq Ids /\ id \in Ids /\ D \in SUBSET DOMAIN g /\ level \in Nat /\ level <= top
        /\ \A l \in Nat : Shut(g, l, D)
    BY <1>3, ShutAll
  <2>2. PICK start \in D : start = entryPoint
    OBVIOUS
  <2>3. Descend(g, At[id], start, top, level) \in Stops(g, D)
    BY <2>1, DescendStays
  <2> QED
    BY <1>2, <2>2, <2>3
<1>5. PICK s0 : s0 = [graph |-> g, node |-> below.node, broken |-> below.broken]
  OBVIOUS
<1>6. s0 \in S
  BY <1>1, <1>3, <1>4, <1>5 DEF Stops, Builds
<1>7. \A l \in 0 .. level, s \in S : Connect(s, id, l) \in S
  <2> TAKE l \in 0 .. level, s \in S
  <2>1. l \in 0 .. top
    OBVIOUS
  <2> QED
    BY <1>1, <2>1, ConnectBuilds
<1>8. PICK hi \in Int : hi = level + 1
  OBVIOUS
<1>9. PICK F : F = [p \in (0 .. hi) \X S |-> IF p[1] <= level THEN Connect(p[2], id, p[1]) ELSE p[2]]
  OBVIOUS
<1>10. F \in [(0 .. hi) \X S -> S]
  <2> SUFFICES ASSUME NEW p \in (0 .. hi) \X S
               PROVE  (IF p[1] <= level THEN Connect(p[2], id, p[1]) ELSE p[2]) \in S
    BY <1>9
  <2>1. p[1] \in 0 .. hi /\ p[2] \in S
    OBVIOUS
  <2>2. p[1] <= level => p[1] \in 0 .. level
    BY <1>8, <2>1
  <2> QED
    BY <1>7, <2>1, <2>2
<1>11. PICK a \in [0 .. hi -> S] : RunsDown(a, 0, hi, s0, F)
  <2>1. 0 \in Int /\ 0 <= hi
    BY <1>8
  <2> QED
    BY <1>6, <1>10, <2>1, RunDownExists
<1>12. a = [l \in 0 .. hi |-> IF l = hi THEN s0 ELSE F[<<l, a[l + 1]>>]]
  BY <1>11 DEF RunsDown
<1>13. ASSUME NEW l \in 0 .. hi
       PROVE  a[l] = IF l = hi THEN s0 ELSE Connect(a[l + 1], id, l)
  <2>1. l # hi => l + 1 \in 0 .. hi /\ l <= level
    BY <1>8
  <2>2. l # hi => a[l + 1] \in S
    BY <1>11, <2>1
  <2> QED
    BY <1>9, <1>12, <2>1, <2>2
<1>14. ASSUME NEW l \in 0 .. level + 1
       PROVE  a[l] = IF l = level + 1
                       THEN [graph |-> g, node |-> below.node, broken |-> below.broken]
                       ELSE Connect(a[l + 1], id, l)
  BY <1>5, <1>8, <1>13
<1>15. a = [l \in 0 .. level + 1 |->
              IF l = level + 1 THEN [graph |-> g, node |-> below.node, broken |-> below.broken]
              ELSE Connect(a[l + 1], id, l)]
  BY <1>8, <1>11, <1>14
<1> DEFINE done[l \in 0 .. level + 1] ==
              IF l = level + 1 THEN [graph |-> g, node |-> below.node, broken |-> below.broken]
              ELSE Connect(done[l + 1], id, l)
<1>16. done = [l \in 0 .. level + 1 |->
              IF l = level + 1 THEN [graph |-> g, node |-> below.node, broken |-> below.broken]
              ELSE Connect(done[l + 1], id, l)]
  BY <1>15
<1>17. PICK b : b = done
  OBVIOUS
<1>18. ConnectFrom(g, id, level, top) = b[0]
  BY <1>2, <1>17 DEF ConnectFrom
<1> HIDE DEF done
<1>19. b = [l \in 0 .. level + 1 |->
              IF l = level + 1 THEN [graph |-> g, node |-> below.node, broken |-> below.broken]
              ELSE Connect(b[l + 1], id, l)]
  BY <1>16, <1>17
<1>20. /\ b[level + 1] = s0
       /\ \A l \in 0 .. level : b[l] = Connect(b[l + 1], id, l)
  <2>1. b[level + 1] = s0
    BY <1>5, <1>19
  <2>2. ASSUME NEW l \in 0 .. level PROVE b[l] = Connect(b[l + 1], id, l)
    <3>1. l \in 0 .. level + 1 /\ l # level + 1
      OBVIOUS
    <3> QED
      BY <1>19, <3>1
  <2> QED
    BY <2>1, <2>2
<1>21. PICK T : T = {l \in 0 .. hi : b[l] \in S}
  OBVIOUS
<1>22. hi \in T
  BY <1>6, <1>8, <1>20, <1>21
<1>23. ASSUME NEW l \in 0 .. hi - 1, l + 1 \in T PROVE l \in T
  <2>1. b[l + 1] \in S /\ l \in 0 .. level /\ l \in 0 .. hi
    BY <1>8, <1>21, <1>23
  <2>2. Connect(b[l + 1], id, l) \in S
    BY <1>7, <2>1
  <2> QED
    BY <1>20, <1>21, <2>1, <2>2
<1>24. \A l \in 0 .. hi : l \in T
  <2>1. 0 \in Int /\ 0 <= hi
    BY <1>8
  <2> QED
    BY <1>21, <1>22, <1>23, <2>1, DownTo
<1>25. b \in [0 .. level + 1 -> Builds(D, top, R)]
  <2>1. b = [l \in 0 .. level + 1 |-> b[l]]
    BY <1>19
  <2>2. \A l \in 0 .. level + 1 : b[l] \in S
    BY <1>8, <1>21, <1>24
  <2> QED
    BY <1>1, <2>1, <2>2
<1>26. JoinRun(b, g, D, R, id, level, top)
  BY <1>2, <1>5, <1>20, <1>25 DEF JoinRun
<1> QED
  BY <1>18, <1>26

\* Without inserts repeated, every edge leads to a node.
LEMMA MutualIntact ==
  ASSUME NEW D \in SUBSET Ids, NEW top \in Nat, NEW g, SoundGraph(g, D, top, {})
  PROVE  Intact(g)
<1>1. GraphOver(g, D, top) /\ MutualLayers(g, {})
  BY GraphIs DEF SoundGraph
<1> SUFFICES ASSUME NEW n \in D, NEW l \in DOMAIN g[n], NEW m \in g[n][l] PROVE m \in D
  BY <1>1 DEF Intact, GraphOver
<1>2. l \in Nat /\ m \in Layer(g, n, l)
  BY <1>1 DEF GraphOver, Layer
<1> QED
  BY <1>1, <1>2 DEF MutualLayers, GraphOver

\* Layer 0 after the insert of a new node id: it has neighbours, and they have it.
Joined(g, t, D, id) ==
  /\ ~ t.broken
  /\ \A n \in D : 0 \in DOMAIN t.graph[n]
  /\ \E nb \in SUBSET (D \ {id}) :
       /\ nb # {} /\ nb \subseteq Layer(t.graph, id, 0)
       /\ \A n \in D \ {id} : Layer(g, n, 0) \subseteq Layer(t.graph, n, 0)
       /\ \A n \in nb : id \in Layer(t.graph, n, 0)

\* Below layer l an insert has not touched the graph yet.
Untouched(g, s, D, id, l) ==
  /\ ~ s.broken /\ s.node \in D \ {id}
  /\ \A n \in D : \A k \in 0 .. l - 1 :
       /\ Layer(s.graph, n, k) = Layer(g, n, k)
       /\ k \in DOMAIN g[n] => k \in DOMAIN s.graph[n]

\* An insert of a new node into a graph whose edges all lead to nodes joins it to layer 0.
LEMMA NewNodeJoins ==
  ASSUME NEW D \in SUBSET Ids, NEW top \in Nat, NEW g, SoundGraph(g, D, top, {}),
         NEW id \in D, NEW level \in 0 .. top, entryPoint \in D \ {id},
         DOMAIN g[id] = {}, \A n \in D \ {id} : 0 \in DOMAIN g[n]
  PROVE  Joined(g, ConnectFrom(g, id, level, top), D, id)
<1>1. PICK a : JoinRun(a, g, D, {}, id, level, top) /\ ConnectFrom(g, id, level, top) = a[0]
  BY JoinRuns
<1>2. PICK X : X = D \ {id}
  OBVIOUS
<1>3. GraphOver(g, D, top) /\ MutualLayers(g, {}) /\ Intact(g)
  BY GraphIs, MutualIntact DEF SoundGraph
<1>4. \A l \in Nat : \A n \in D : id \notin Layer(g, n, l)
  <2> TAKE l \in Nat
  <2> TAKE n \in D
  <2>1. Layer(g, id, l) = {}
    BY DEF Layer
  <2> QED
    BY <1>3, <2>1 DEF MutualLayers, GraphOver
<1>5. \A l \in Nat : Shut(g, l, X)
  BY <1>2, <1>3, <1>4 DEF Shut, GraphOver
<1>6. PICK below : below = Descend(g, At[id], entryPoint, top, level)
  OBVIOUS
<1>7. below \in Stops(g, X)
  <2>1. /\ DOMAIN g \subseteq Ids /\ id \in Ids /\ X \in SUBSET DOMAIN g /\ level \in Nat /\ level <= top
    BY <1>2, <1>3 DEF GraphOver
  <2>2. PICK start \in X : start = entryPoint
    BY <1>2
  <2>3. Descend(g, At[id], start, top, level) \in Stops(g, X)
    BY <1>5, <2>1, DescendStays
  <2> QED
    BY <1>6, <2>2, <2>3
<1>8. /\ a \in [0 .. level + 1 -> Builds(D, top, {})]
      /\ a[level + 1] = [graph |-> g, node |-> below.node, broken |-> below.broken]
      /\ \A l \in 0 .. level : a[l] = Connect(a[l + 1], id, l)
  BY <1>1, <1>6 DEF JoinRun
<1>9. Untouched(g, a[level + 1], D, id, level + 1)
  BY <1>2, <1>3, <1>7, <1>8 DEF Untouched, Stops
<1>10. ASSUME NEW l \in 0 .. level, NEW s, s = a[l + 1], Untouched(g, s, D, id, l + 1)
       PROVE  \E nb \in SUBSET Linkable(s.graph, D, id, l) :
                /\ ~ a[l].broken /\ a[l].node \in X
                /\ a[l].graph = Link(s.graph, id, l, nb)
                /\ X \subseteq Linkable(s.graph, D, id, l) => nb # {}
  <2>1. s \in Builds(D, top, {})
    <3>1. l + 1 \in 0 .. level + 1
      OBVIOUS
    <3> QED
      BY <1>8, <1>10, <3>1
  <2>2. SoundGraph(s.graph, D, top, {}) /\ DOMAIN s.graph = D
    BY <2>1, GraphIs DEF Builds, GraphOver
  <2>3. Intact(s.graph)
    BY <2>2, MutualIntact
  <2>4. \A n \in D : Layer(s.graph, n, l) = Layer(g, n, l)
    <3>1. l \in 0 .. l + 1 - 1
      OBVIOUS
    <3> QED
      BY <1>10, <3>1 DEF Untouched
  <2>5. Shut(s.graph, l, X)
    <3>1. l \in Nat
      OBVIOUS
    <3>2. DOMAIN g = D
      BY <1>3 DEF GraphOver
    <3> QED
      BY <1>2, <1>5, <2>2, <2>4, <3>1, <3>2 DEF Shut
  <2>6. s.node \in X /\ ~ s.broken /\ X \in SUBSET D
    BY <1>2, <1>10 DEF Untouched
  <2>7. PICK t : t = Connect(s, id, l)
    OBVIOUS
  <2>8. Connects(s, t, D, X, id, l)
    <3>1. l \in 0 .. top
      OBVIOUS
    <3> QED
      BY <2>1, <2>5, <2>6, <2>7, <3>1, ConnectIs
  <2>9. a[l] = t
    BY <1>8, <1>10, <2>7
  <2> QED
    BY <2>3, <2>6, <2>8, <2>9 DEF Connects
<1>11. ASSUME NEW l \in 0 .. level, NEW s, s = a[l + 1], Untouched(g, s, D, id, l + 1),
              NEW nb \in SUBSET Linkable(s.graph, D, id, l), a[l].graph = Link(s.graph, id, l, nb)
       PROVE  Links(s.graph, a[l].graph, D, id, l, nb)
  <2>1. l + 1 \in 0 .. level + 1 /\ l \in 0 .. top
    OBVIOUS
  <2>2. s.graph \in HnswGraphs(D, top)
    BY <1>8, <1>11, <2>1 DEF Builds
  <2>3. PICK h : h = Link(s.graph, id, l, nb)
    OBVIOUS
  <2>4. Links(s.graph, h, D, id, l, nb)
    BY <2>1, <2>2, <2>3, LinkLayers
  <2> QED
    BY <1>11, <2>3, <2>4
<1>12. ASSUME NEW l \in 0 .. level, Untouched(g, a[l + 1], D, id, l + 1)
       PROVE  Untouched(g, a[l], D, id, l)
  <2>1. PICK s : s = a[l + 1]
    OBVIOUS
  <2>u. Untouched(g, s, D, id, l + 1)
    BY <1>12, <2>1
  <2>2. PICK nb \in SUBSET Linkable(s.graph, D, id, l) :
          /\ ~ a[l].broken /\ a[l].node \in X
          /\ a[l].graph = Link(s.graph, id, l, nb)
    BY <1>10, <2>1, <2>u
  <2>3. Links(s.graph, a[l].graph, D, id, l, nb)
    BY <1>11, <2>1, <2>2, <2>u
  <2>4. ASSUME NEW n \in D, NEW k \in 0 .. l - 1
        PROVE  /\ Layer(a[l].graph, n, k) = Layer(g, n, k)
               /\ k \in DOMAIN g[n] => k \in DOMAIN a[l].graph[n]
    <3>1. k \in Nat /\ k # l /\ k \in 0 .. l + 1 - 1
      OBVIOUS
    <3>2. /\ DOMAIN a[l].graph[n] = DOMAIN s.graph[n] \cup (IF n = id THEN {l} ELSE {})
          /\ Layer(a[l].graph, n, k) = Layer(s.graph, n, k) \cup
               (IF k # l THEN {} ELSE IF n = id THEN nb ELSE IF n \in nb THEN {id} ELSE {})
      BY <2>3, <3>1 DEF Links
    <3>3. Layer(a[l].graph, n, k) = Layer(s.graph, n, k)
      BY <3>1, <3>2
    <3>4. DOMAIN s.graph[n] \subseteq DOMAIN a[l].graph[n]
      BY <3>2
    <3> QED
      BY <2>u, <3>1, <3>3, <3>4 DEF Untouched
  <2> QED
    BY <1>2, <2>2, <2>4 DEF Untouched
<1>13. Untouched(g, a[1], D, id, 1)
  <2>1. PICK T : T = {l \in 1 .. level + 1 : Untouched(g, a[l], D, id, l)}
    OBVIOUS
  <2>2. PICK hi \in Int : hi = level + 1
    OBVIOUS
  <2>3. hi \in T
    BY <1>9, <2>1, <2>2
  <2>4. ASSUME NEW l \in 1 .. hi - 1, l + 1 \in T PROVE l \in T
    <3>1. l \in 0 .. level /\ l \in 1 .. level + 1
      BY <2>2
    <3>2. Untouched(g, a[l + 1], D, id, l + 1)
      BY <2>1, <2>4
    <3> QED
      BY <1>12, <2>1, <3>1, <3>2
  <2>5. \A l \in 1 .. hi : l \in T
    <3>1. 1 \in Int /\ 1 <= hi /\ T \in SUBSET (1 .. hi)
      BY <2>1, <2>2
    <3> QED
      BY <2>3, <2>4, <3>1, DownTo
  <2>6. 1 \in T
    BY <2>2, <2>5
  <2> QED
    BY <2>1, <2>6
<1>14. PICK s : s = a[1]
  OBVIOUS
<1>15. Untouched(g, s, D, id, 0 + 1) /\ s = a[0 + 1]
  BY <1>13, <1>14
<1>16. PICK nb \in SUBSET Linkable(s.graph, D, id, 0) :
         /\ ~ a[0].broken
         /\ a[0].graph = Link(s.graph, id, 0, nb)
         /\ X \subseteq Linkable(s.graph, D, id, 0) => nb # {}
  <2>1. 0 \in 0 .. level
    OBVIOUS
  <2> QED
    BY <1>10, <1>15, <2>1
<1>17. Links(s.graph, a[0].graph, D, id, 0, nb)
  <2>1. 0 \in 0 .. level
    OBVIOUS
  <2> QED
    BY <1>11, <1>15, <1>16, <2>1
<1>18. \A n \in D :
         /\ Layer(s.graph, n, 0) = Layer(g, n, 0)
         /\ 0 \in DOMAIN g[n] => 0 \in DOMAIN s.graph[n]
  <2>1. 0 \in 0 .. 0 + 1 - 1
    OBVIOUS
  <2> QED
    BY <1>15, <2>1 DEF Untouched
<1>19. nb # {}
  BY <1>2, <1>16, <1>18 DEF Linkable
<1>20. nb \subseteq D \ {id}
  BY DEF Linkable
<1>21. \A n \in D :
         /\ DOMAIN a[0].graph[n] = DOMAIN s.graph[n] \cup (IF n = id THEN {0} ELSE {})
         /\ Layer(a[0].graph, n, 0) = Layer(g, n, 0) \cup
              (IF n = id THEN nb ELSE IF n \in nb THEN {id} ELSE {})
  <2> TAKE n \in D
  <2>1. /\ DOMAIN a[0].graph[n] = DOMAIN s.graph[n] \cup (IF n = id THEN {0} ELSE {})
        /\ \A l \in Nat :
             Layer(a[0].graph, n, l) = Layer(s.graph, n, l) \cup
               (IF l # 0 THEN {} ELSE IF n = id THEN nb ELSE IF n \in nb THEN {id} ELSE {})
    BY <1>17 DEF Links
  <2>2. Layer(a[0].graph, n, 0) = Layer(s.graph, n, 0) \cup
          (IF n = id THEN nb ELSE IF n \in nb THEN {id} ELSE {})
    BY <2>1
  <2> QED
    BY <1>18, <2>1, <2>2
<1>22. \A n \in D : 0 \in DOMAIN a[0].graph[n]
  BY <1>18, <1>21
<1> QED
  BY <1>1, <1>16, <1>19, <1>20, <1>21, <1>22 DEF Joined

\* The first node connects with itself in hand; again, the graph stays sound.
LEMMA ConnectFirstBuilds ==
  ASSUME NEW D \in SUBSET Ids, NEW top \in Nat, NEW R, NEW g, SoundGraph(g, D, top, R),
         NEW id \in D, NEW level \in 0 .. top
  PROVE  ConnectFirst(g, id, level) \in Builds(D, top, R)
<1>1. PICK s : s = [graph |-> g, node |-> id, broken |-> FALSE]
  OBVIOUS
<1>2. s \in Builds(D, top, R)
  BY <1>1 DEF Builds, SoundGraph
<1>3. PICK bottom : bottom = Connect(s, id, 0)
  OBVIOUS
<1>4. bottom \in Builds(D, top, R)
  <2>1. 0 \in 0 .. top
    OBVIOUS
  <2> QED
    BY <1>2, <1>3, <2>1, ConnectBuilds
<1>5. PICK b : b = [bottom EXCEPT !.node = id]
  OBVIOUS
<1>6. b \in Builds(D, top, R)
  BY <1>4, <1>5 DEF Builds
<1>7. Connect(b, id, level) \in Builds(D, top, R)
  BY <1>6, ConnectBuilds
<1>8. ConnectFirst(g, id, level) = IF level = 0 THEN bottom ELSE Connect(b, id, level)
  BY <1>1, <1>3, <1>5 DEF ConnectFirst
<1> QED
  BY <1>4, <1>7, <1>8

\* An insert through an entry point leaves the state of an insert.
LEMMA ConnectFromBuilds ==
  ASSUME NEW D \in SUBSET Ids, NEW top \in Nat, NEW R, NEW g, SoundGraph(g, D, top, R),
         NEW id \in D, NEW level \in 0 .. top, entryPoint \in D
  PROVE  ConnectFrom(g, id, level, top) \in Builds(D, top, R)
<1>1. PICK a : JoinRun(a, g, D, R, id, level, top) /\ ConnectFrom(g, id, level, top) = a[0]
  BY JoinRuns
<1>2. 0 \in 0 .. level + 1
  OBVIOUS
<1> QED
  BY <1>1, <1>2 DEF JoinRun

\* A node that is inserted, for the first time or again, starts without layers.
LEMMA FreshIsSound ==
  ASSUME NEW D \in SUBSET Ids, NEW low \in Nat, NEW top \in Nat, low <= top, NEW R, NEW g,
         SoundGraph(g, D, low, R), NEW id \in Ids,
         NEW h, h = [n \in D \cup {id} |-> IF n = id THEN NoLayers ELSE g[n]]
  PROVE  SoundGraph(h, D \cup {id}, top, IF id \in D THEN R \cup {id} ELSE R)
<1>1. GraphOver(g, D, low) /\ NoLoops(g) /\ MutualLayers(g, R)
  BY GraphIs DEF SoundGraph
<1>2. /\ DOMAIN g = D
      /\ \A n \in D : /\ g[n] = [l \in DOMAIN g[n] |-> g[n][l]]
                      /\ DOMAIN g[n] \subseteq 0 .. low
                      /\ \A l \in DOMAIN g[n] : g[n][l] \subseteq Ids
  BY <1>1 DEF GraphOver
<1>3. PICK E : E = D \cup {id}
  OBVIOUS
<1>4. NoLayers = [l \in DOMAIN NoLayers |-> NoLayers[l]] /\ DOMAIN NoLayers = {}
  BY DEF NoLayers
<1>5. DOMAIN h = E /\ h[id] = NoLayers /\ \A n \in E \ {id} : n \in D /\ h[n] = g[n]
  BY <1>3
<1>6. GraphOver(h, E, top)
  <2> SUFFICES ASSUME NEW n \in E
               PROVE  /\ h[n] = [l \in DOMAIN h[n] |-> h[n][l]]
                      /\ DOMAIN h[n] \subseteq 0 .. top
                      /\ \A l \in DOMAIN h[n] : h[n][l] \subseteq Ids
    BY <1>5 DEF GraphOver
  <2>1. CASE n = id
    BY <1>4, <1>5, <2>1
  <2>2. CASE n # id
    <3>1. n \in D /\ h[n] = g[n]
      BY <1>5, <2>2
    <3>2. 0 .. low \subseteq 0 .. top
      OBVIOUS
    <3> QED
      BY <1>2, <3>1, <3>2
  <2> QED
    BY <2>1, <2>2
<1>7. h \in HnswGraphs(E, top)
  <2>1. h = [n \in E |-> h[n]]
    BY <1>3
  <2> QED
    BY <1>6, <2>1, IsGraph
<1>8. NoLoops(h)
  BY <1>1, <1>2, <1>4, <1>5 DEF NoLoops
<1>9. \A l \in Nat : Layer(h, id, l) = {} /\ \A n \in E \ {id} : Layer(h, n, l) = Layer(g, n, l)
  BY <1>4, <1>5 DEF Layer
<1>10. MutualLayers(h, IF id \in D THEN R \cup {id} ELSE R)
  <2> SUFFICES ASSUME NEW n \in E, NEW l \in Nat, NEW m \in Layer(h, n, l),
                      m \notin R, id \in D => m # id
               PROVE  m \in E /\ n \in Layer(h, m, l)
    BY <1>5 DEF MutualLayers
  <2>1. n # id /\ n \in D /\ m \in Layer(g, n, l)
    BY <1>5, <1>9
  <2>2. m \in D /\ n \in Layer(g, m, l)
    BY <1>1, <1>2, <2>1 DEF MutualLayers
  <2>3. m # id /\ m \in E
    BY <1>3, <2>2
  <2> QED
    BY <1>9, <2>2, <2>3
<1> QED
  BY <1>3, <1>7, <1>8, <1>10 DEF SoundGraph

\* The graph that an insert of id starts from.
Fresh(id) == [n \in Nodes \cup {id} |-> IF n = id THEN NoLayers ELSE graph[n]]

\* The keys of the graph are in the order of their insertion.
InOrder(S, ord) ==
  /\ ord \subseteq S \X S
  /\ \A a, b \in S : (<<a, b>> \in ord) = (a # b /\ <<b, a>> \notin ord)
  /\ \A a, b, c \in S : <<a, b>> \in ord /\ <<b, c>> \in ord => <<a, c>> \in ord

\* The type invariant with what the operations need of the graph.
HnswInv == TypeOK /\ SoundGraph(graph, Nodes, maxLevel, reinserted)

\* The state in pieces.
HnswPieces ==
  /\ Nodes \subseteq Ids
  /\ InOrder(Nodes, order)
  /\ entryPoint \in Nodes \cup {None}
  /\ (entryPoint = None) = (Nodes = {})
  /\ maxLevel \in 0 .. TopLevel
  /\ deleted \subseteq Nodes
  /\ reinserted \subseteq Ids
  /\ removed \in BOOLEAN
  /\ SoundGraph(graph, Nodes, maxLevel, reinserted)

\* The two forms of the invariant say the same.
LEMMA PiecesMakeInv == HnswPieces <=> HnswInv
<1>1. HnswInv => HnswPieces
  BY DEF HnswInv, HnswPieces, TypeOK, InOrder
<1>2. ASSUME HnswPieces PROVE HnswInv
  <2>1. maxLevel \in Nat
    BY <1>2, IndexAssumption DEF HnswPieces
  <2>2. GraphOver(graph, Nodes, maxLevel) /\ NoLoops(graph)
    BY <1>2, <2>1, GraphIs DEF HnswPieces, SoundGraph
  <2>3. \A n \in Nodes :
          /\ DOMAIN graph[n] \subseteq 0 .. maxLevel
          /\ \A l \in DOMAIN graph[n] : graph[n][l] \subseteq Ids \ {n}
    <3> TAKE n \in Nodes
    <3>1. /\ DOMAIN graph[n] \subseteq 0 .. maxLevel
          /\ \A l \in DOMAIN graph[n] : graph[n][l] \subseteq Ids
      BY <2>2 DEF GraphOver
    <3>2. \A l \in DOMAIN graph[n] : n \notin graph[n][l]
      BY <2>2 DEF NoLoops, Nodes
    <3> QED
      BY <3>1, <3>2
  <2> QED
    BY <1>2, <2>3 DEF HnswInv, HnswPieces, TypeOK, InOrder
<1> QED
  BY <1>1, <1>2

\* A new node goes to the end of the order.
LEMMA OrderGrows ==
  ASSUME NEW S, NEW ord, InOrder(S, ord), NEW id, id \notin S
  PROVE  InOrder(S \cup {id}, ord \cup (S \X {id}))
<1>1. PICK T : T = S \cup {id}
  OBVIOUS
<1>2. PICK R : R = ord \cup (S \X {id})
  OBVIOUS
<1>3. /\ ord \subseteq S \X S
      /\ \A a, b \in S : (<<a, b>> \in ord) = (a # b /\ <<b, a>> \notin ord)
      /\ \A a, b, c \in S : <<a, b>> \in ord /\ <<b, c>> \in ord => <<a, c>> \in ord
  BY DEF InOrder
<1>4. /\ \A a, b \in S : <<a, b>> \in R <=> <<a, b>> \in ord
      /\ \A a \in S : <<a, id>> \in R /\ <<id, a>> \notin R
      /\ <<id, id>> \notin R /\ R \subseteq T \X T
  BY <1>1, <1>2, <1>3
<1>5. ASSUME NEW a \in T, NEW b \in T PROVE (<<a, b>> \in R) = (a # b /\ <<b, a>> \notin R)
  BY <1>1, <1>3, <1>4
<1>6. ASSUME NEW a \in T, NEW b \in T, NEW c \in T, <<a, b>> \in R, <<b, c>> \in R
      PROVE  <<a, c>> \in R
  BY <1>1, <1>3, <1>4, <1>6
<1> QED
  BY <1>1, <1>2, <1>4, <1>5, <1>6 DEF InOrder

\* What an insert does to the graph.
LEMMA InsertBuilds ==
  ASSUME HnswPieces, NEW id \in Ids, NEW level \in 0 .. TopLevel, Insert(id, level)
  PROVE  /\ maxLevel' = (IF level > maxLevel THEN level ELSE maxLevel) /\ maxLevel' \in 0 .. TopLevel
         /\ \E s \in Builds(Nodes \cup {id}, maxLevel', reinserted') :
              /\ graph' = s.graph
              /\ s = IF entryPoint = None THEN ConnectFirst(Fresh(id), id, level)
                     ELSE ConnectFrom(Fresh(id), id, level, maxLevel')
         /\ SoundGraph(Fresh(id), Nodes \cup {id}, maxLevel', reinserted')
<1>1. PICK D : D = Nodes
  OBVIOUS
<1>2. PICK top : top = IF level > maxLevel THEN level ELSE maxLevel
  OBVIOUS
<1>3. PICK low \in Nat : low = maxLevel
  BY IndexAssumption DEF HnswPieces
<1>4. top \in Nat /\ low <= top /\ level \in 0 .. top /\ top \in 0 .. TopLevel
  BY <1>2, <1>3, IndexAssumption DEF HnswPieces
<1>5. PICK R : R = IF id \in D THEN reinserted \cup {id} ELSE reinserted
  OBVIOUS
<1>6. PICK h : h = Fresh(id)
  OBVIOUS
<1>7. D \in SUBSET Ids /\ SoundGraph(graph, D, low, reinserted)
      /\ h = [n \in D \cup {id} |-> IF n = id THEN NoLayers ELSE graph[n]]
  BY <1>1, <1>3, <1>6 DEF HnswPieces, Fresh
<1>8. PICK g : g = graph
  OBVIOUS
<1>9. SoundGraph(h, D \cup {id}, top, R)
  BY <1>4, <1>5, <1>7, <1>8, FreshIsSound
<1>10. PICK E \in SUBSET Ids : E = D \cup {id}
  BY <1>7
<1>11. ConnectFirst(h, id, level) \in Builds(E, top, R)
  BY <1>4, <1>9, <1>10, ConnectFirstBuilds
<1>12. entryPoint # None => ConnectFrom(h, id, level, top) \in Builds(E, top, R)
  <2>1. entryPoint # None => entryPoint \in E
    BY <1>1, <1>10 DEF HnswPieces
  <2> QED
    BY <1>4, <1>9, <1>10, <2>1, ConnectFromBuilds
<1>13. PICK s : s = IF entryPoint = None THEN ConnectFirst(h, id, level) ELSE ConnectFrom(h, id, level, top)
  OBVIOUS
<1>14. maxLevel' = top /\ reinserted' = R /\ graph' = s.graph
  BY <1>1, <1>2, <1>5, <1>6, <1>13 DEF Insert, Fresh
<1>15. s \in Builds(E, top, R)
  BY <1>11, <1>12, <1>13
<1> QED
  BY <1>1, <1>2, <1>4, <1>6, <1>9, <1>10, <1>13, <1>14, <1>15

-----------------------------------------------------------------------------
(***************************************************************************)
(* HNSW: the invariant, at every step.                                     *)
(***************************************************************************)
\* insert() keeps the invariant.
LEMMA InsertKeeps ==
  ASSUME HnswPieces, NEW id \in Ids, NEW level \in 0 .. TopLevel, Insert(id, level)
  PROVE  HnswPieces'
<1>1. PICK E : E = Nodes \cup {id}
  OBVIOUS
<1>2. /\ maxLevel' \in 0 .. TopLevel
      /\ \E s \in Builds(E, maxLevel', reinserted') : graph' = s.graph
  BY <1>1, InsertBuilds
<1>3. PICK top \in Nat : top = maxLevel'
  BY <1>2, IndexAssumption
<1>4. PICK g : g = graph'
  OBVIOUS
<1>5. SoundGraph(g, E, top, reinserted')
  BY <1>2, <1>3, <1>4 DEF Builds
<1>6. DOMAIN g = E
  BY <1>5, GraphIs DEF SoundGraph, GraphOver
<1>7. Nodes' = E
  BY <1>4, <1>6 DEF Nodes
<1>8. InOrder(E, order')
  <2>1. CASE id \in Nodes
    <3>1. E = Nodes /\ order' = order
      BY <1>1, <2>1 DEF Insert
    <3> QED
      BY <3>1 DEF HnswPieces
  <2>2. CASE id \notin Nodes
    <3>1. PICK S : S = Nodes
      OBVIOUS
    <3>2. PICK ord : ord = order
      OBVIOUS
    <3>3. InOrder(S, ord) /\ id \notin S /\ E = S \cup {id} /\ order' = ord \cup (S \X {id})
      BY <1>1, <2>2, <3>1, <3>2 DEF Insert, HnswPieces
    <3> QED
      BY <3>3, OrderGrows
  <2> QED
    BY <2>1, <2>2
<1>9. /\ entryPoint' \in E \cup {None} /\ (entryPoint' = None) = (E = {})
      /\ deleted' \subseteq E /\ reinserted' \subseteq Ids /\ removed' \in BOOLEAN /\ E \subseteq Ids
  <2>1. id # None /\ E # {}
    BY <1>1, IndexAssumption
  <2> QED
    BY <1>1, <2>1 DEF Insert, HnswPieces
<1> QED
  BY <1>2, <1>3, <1>4, <1>5, <1>7, <1>8, <1>9 DEF HnswPieces

\* A set of ids in order has an oldest element.
LEMMA OldestIs ==
  ASSUME NEW D, InOrder(D, order), NEW S \in SUBSET Ids, S # {}, S \subseteq D
  PROVE  Oldest(S) \in S
<1>1. PICK R : R = [p \in S |-> {r \in S : <<r, p>> \in order}]
  OBVIOUS
<1>2. IsFiniteSet(S) /\ Cardinality(S) \in Nat /\ Cardinality(S) # 0
  BY IdSets, FS_EmptySet
<1>3. /\ \A a, b \in S : (<<a, b>> \in order) = (a # b /\ <<b, a>> \notin order)
      /\ \A a, b, c \in S : <<a, b>> \in order /\ <<b, c>> \in order => <<a, c>> \in order
  BY DEF InOrder
<1>4. R \in [S -> SUBSET S] /\ \A p \in S : p \notin R[p]
  BY <1>1, <1>3
<1>5. \A p \in S : \A r \in R[p] : R[r] \subseteq R[p]
  BY <1>1, <1>3
<1>6. \A p, r \in S : p = r \/ p \in R[r] \/ r \in R[p]
  BY <1>1, <1>3
<1>7. /\ \A p \in S : Cardinality(R[p]) \in 0 .. Cardinality(S) - 1
      /\ \A p, r \in S : Cardinality(R[r]) = Cardinality(R[p]) => r = p
      /\ \A p, r \in S : Cardinality(R[r]) < Cardinality(R[p]) => r \in R[p]
      /\ \A n \in 0 .. Cardinality(S) - 1 : \E p \in S : Cardinality(R[p]) = n
  BY <1>2, <1>4, <1>5, <1>6, RanksArePositions
<1>8. PICK p \in S : Cardinality(R[p]) = 0
  <2>1. 0 \in 0 .. Cardinality(S) - 1
    BY <1>2
  <2> QED
    BY <1>7, <2>1
<1>9. \A m \in S \ {p} : <<p, m>> \in order
  <2> TAKE m \in S \ {p}
  <2>1. Cardinality(R[m]) \in Nat /\ Cardinality(R[m]) # 0
    BY <1>2, <1>7, <1>8
  <2>2. p \in R[m]
    BY <1>7, <1>8, <2>1
  <2> QED
    BY <1>1, <2>2
<1> QED
  BY <1>9 DEF Oldest

\* In h, a node of L has the neighbours it has in g, but for the nodes of gone that have it.
LeftBy(g, h, L, gone) ==
  \A n \in L : \A l \in Nat : \A m :
    m \in Layer(h, n, l) <=> m \in Layer(g, n, l) /\ ~ (m \in gone /\ n \in Layer(g, m, l))

\* The nodes of gone leave the lists of the nodes that they have in theirs, and the graph:
\* the edges that are left still come back.
LEMMA UnlinkedMutual ==
  ASSUME NEW D, NEW gone, NEW L, L = D \ gone, NEW R,
         NEW g, DOMAIN g = D, MutualLayers(g, R), NEW h, DOMAIN h = L,
         LeftBy(g, h, L, gone)
  PROVE  MutualLayers(h, R)
<1>1. \A n \in L : \A l \in Nat : \A m \in Layer(h, n, l) : m \notin R => m \in L /\ n \in Layer(h, m, l)
  <2> SUFFICES ASSUME NEW n \in L, NEW l \in Nat, NEW m, m \in Layer(h, n, l), m \notin R
               PROVE  m \in L /\ n \in Layer(h, m, l)
    OBVIOUS
  <2>1. m \in Layer(g, n, l) /\ ~ (m \in gone /\ n \in Layer(g, m, l))
    BY DEF LeftBy
  <2>2. m \in D /\ n \in Layer(g, m, l)
    BY <2>1 DEF MutualLayers
  <2>3. m \in L
    BY <2>1, <2>2
  <2>4. n \notin gone
    OBVIOUS
  <2> QED
    BY <2>2, <2>3, <2>4 DEF LeftBy
<1> QED
  BY <1>1, IsMutual

\* A node off the lists of all that had it in theirs: mutual edges stay mutual.
LEMMA UnlinkKeeps ==
  ASSUME NEW D \in SUBSET Ids, NEW top \in Nat, NEW R, NEW g, SoundGraph(g, D, top, R),
         NEW gone \in SUBSET D, NEW L, L = D \ gone,
         NEW h, h = [n \in L |->
                       [l \in DOMAIN g[n] |-> g[n][l] \ {x \in gone : n \in Layer(g, x, l)}]]
  PROVE  SoundGraph(h, L, top, R)
<1>1. GraphOver(g, D, top) /\ NoLoops(g) /\ MutualLayers(g, R)
  BY GraphIs DEF SoundGraph
<1>2. /\ DOMAIN g = D
      /\ \A n \in D : /\ DOMAIN g[n] \subseteq 0 .. top
                      /\ \A l \in DOMAIN g[n] : g[n][l] \subseteq Ids
  BY <1>1 DEF GraphOver
<1>3. DOMAIN h = L
      /\ \A n \in L :
           h[n] = [l \in DOMAIN g[n] |-> g[n][l] \ {x \in gone : n \in Layer(g, x, l)}]
  OBVIOUS
<1>4. \A n \in L : /\ h[n] = [l \in DOMAIN h[n] |-> h[n][l]]
                   /\ DOMAIN h[n] = DOMAIN g[n]
                   /\ \A l \in DOMAIN g[n] : h[n][l] \subseteq g[n][l]
  BY <1>3
<1>5. GraphOver(h, L, top)
  <2> SUFFICES ASSUME NEW n \in L
               PROVE  /\ h[n] = [l \in DOMAIN h[n] |-> h[n][l]]
                      /\ DOMAIN h[n] \subseteq 0 .. top
                      /\ \A l \in DOMAIN h[n] : h[n][l] \subseteq Ids
    BY <1>3 DEF GraphOver
  <2>1. n \in D
    OBVIOUS
  <2> QED
    BY <1>2, <1>4, <2>1
<1>6. h \in HnswGraphs(L, top)
  <2>1. h = [n \in L |-> h[n]]
    OBVIOUS
  <2> QED
    BY <1>5, <2>1, IsGraph
<1>7. NoLoops(h)
  BY <1>1, <1>2, <1>3, <1>4 DEF NoLoops
<1>8. \A n \in L : \A l \in Nat :
        Layer(h, n, l) = Layer(g, n, l) \ {x \in gone : n \in Layer(g, x, l)}
  <2> TAKE n \in L
  <2> TAKE l \in Nat
  <2>1. CASE l \in DOMAIN g[n]
    BY <1>3, <2>1 DEF Layer
  <2>2. CASE l \notin DOMAIN g[n]
    BY <1>4, <2>2 DEF Layer
  <2> QED
    BY <2>1, <2>2
<1>m. \A n \in L : \A l \in Nat : \A m :
        m \in Layer(h, n, l) <=> m \in Layer(g, n, l) /\ ~ (m \in gone /\ n \in Layer(g, m, l))
  <2> TAKE n \in L
  <2> TAKE l \in Nat
  <2> TAKE m
  <2>1. PICK U : U = {x \in gone : n \in Layer(g, x, l)}
    OBVIOUS
  <2>2. m \in U <=> m \in gone /\ n \in Layer(g, m, l)
    BY <2>1
  <2>3. Layer(h, n, l) = Layer(g, n, l) \ U
    BY <1>8, <2>1
  <2> QED
    BY <2>2, <2>3
<1>d. DOMAIN h = L /\ MutualLayers(g, R) /\ DOMAIN g = D
  BY <1>1, <1>2, <1>3
<1>u. LeftBy(g, h, L, gone)
  BY <1>m DEF LeftBy
<1>9. MutualLayers(h, R)
  BY <1>d, <1>u, UnlinkedMutual, Zenon
<1> QED
  BY <1>6, <1>7, <1>9 DEF SoundGraph

\* compact() keeps the invariant: the entry point moves to a live node while there is one.
LEMMA CompactKeeps ==
  ASSUME HnswPieces, Compact
  PROVE  HnswPieces'
<1>1. PICK D : D = Nodes
  OBVIOUS
<1>2. PICK g : g = graph
  OBVIOUS
<1>3. PICK gone : gone = deleted
  OBVIOUS
<1>4. PICK L : L = D \ gone
  OBVIOUS
<1>5. PICK h : h = [n \in L |->
                      [l \in DOMAIN g[n] |-> g[n][l] \ {x \in gone : n \in Layer(g, x, l)}]]
  OBVIOUS
<1>6. PICK top \in Nat : top = maxLevel
  BY IndexAssumption DEF HnswPieces
<1>7. SoundGraph(h, L, top, reinserted)
  <2>1. D \in SUBSET Ids /\ gone \in SUBSET D /\ SoundGraph(g, D, top, reinserted)
    BY <1>1, <1>2, <1>3, <1>6 DEF HnswPieces
  <2> QED
    BY <1>4, <1>5, <2>1, UnlinkKeeps, ZenonT(40)
<1>8. graph' = h /\ Live = L
  BY <1>1, <1>2, <1>3, <1>4, <1>5 DEF Compact, Unlinked, Live
<1>9. Nodes' = L
  BY <1>5, <1>8 DEF Nodes
<1>10. L \subseteq D /\ InOrder(D, order) /\ InOrder(L, order')
  <2>1. order' = order \cap (L \X L) /\ L \subseteq D /\ InOrder(D, order)
    BY <1>1, <1>4, <1>8 DEF Compact, HnswPieces
  <2>2. \A a, b \in L : <<a, b>> \in order' <=> <<a, b>> \in order
    BY <2>1
  <2>3. order' \subseteq L \X L
    BY <2>1
  <2>4. /\ \A a, b \in L : (<<a, b>> \in order) = (a # b /\ <<b, a>> \notin order)
        /\ \A a, b, c \in L : <<a, b>> \in order /\ <<b, c>> \in order => <<a, c>> \in order
    BY <2>1 DEF InOrder
  <2>5. /\ \A a, b \in L : (<<a, b>> \in order') = (a # b /\ <<b, a>> \notin order')
        /\ \A a, b, c \in L : <<a, b>> \in order' /\ <<b, c>> \in order' => <<a, c>> \in order'
    BY <2>2, <2>4
  <2> QED
    BY <2>1, <2>3, <2>5 DEF InOrder
<1>11. L # {} => Oldest(L) \in L
  <2>1. L \in SUBSET Ids
    BY <1>1, <1>4 DEF HnswPieces
  <2> QED
    BY <1>10, <2>1, OldestIs
<1>12. /\ entryPoint' \in L \cup {None} /\ (entryPoint' = None) = (L = {})
       /\ deleted' \subseteq L /\ reinserted' = reinserted /\ removed' \in BOOLEAN
       /\ maxLevel' = maxLevel /\ L \subseteq Ids
  <2>1. entryPoint' = IF entryPoint \notin gone THEN entryPoint ELSE IF L = {} THEN None ELSE Oldest(L)
    BY <1>3, <1>8 DEF Compact
  <2>2. gone # {} /\ gone \subseteq D /\ D \subseteq Ids /\ None \notin Ids
        /\ entryPoint \in D \cup {None} /\ (entryPoint = None) = (D = {})
    BY <1>1, <1>3, IndexAssumption DEF Compact, HnswPieces
  <2>3. entryPoint' \in L \cup {None} /\ (entryPoint' = None) = (L = {})
    <3>1. CASE entryPoint \notin gone
      <4>1. entryPoint \in D /\ entryPoint # None
        BY <2>2
      <4> QED
        BY <1>4, <2>1, <3>1, <4>1
    <3>2. CASE entryPoint \in gone /\ L = {}
      BY <2>1, <3>2
    <3>3. CASE entryPoint \in gone /\ L # {}
      BY <1>4, <1>11, <2>1, <2>2, <3>3
    <3> QED
      BY <3>1, <3>2, <3>3
  <2> QED
    BY <1>4, <2>2, <2>3 DEF Compact, HnswPieces
<1> QED
  BY <1>6, <1>7, <1>8, <1>9, <1>10, <1>12 DEF HnswPieces

\* The empty graph is sound.
LEMMA EmptyIsSound == SoundGraph(<<>>, {}, 0, {})
<1>1. PICK g : g = <<>>
  OBVIOUS
<1>2. DOMAIN g = {} /\ g = [n \in {} |-> g[n]]
  BY <1>1
<1>3. g \in HnswGraphs({}, 0)
  BY <1>2 DEF HnswGraphs
<1> QED
  BY <1>1, <1>2, <1>3 DEF SoundGraph, NoLoops, MutualLayers

\* An empty index satisfies the invariant.
LEMMA EmptyPieces ==
  ASSUME graph = <<>>, order = {}, entryPoint = None, maxLevel = 0, deleted = {},
         reinserted = {}, removed = FALSE
  PROVE  HnswPieces
<1>1. Nodes = {}
  BY DEF Nodes
<1>2. SoundGraph(graph, Nodes, maxLevel, reinserted)
  BY <1>1, EmptyIsSound
<1>3. 0 \in 0 .. TopLevel
  BY IndexAssumption
<1> QED
  BY <1>1, <1>2, <1>3 DEF HnswPieces, InOrder

\* The invariant holds at the start.
LEMMA HnswInitially == Init => HnswPieces
  BY EmptyPieces DEF Init

\* Every step keeps the invariant.
LEMMA HnswStep == HnswPieces /\ [Next]_vars => HnswPieces'
<1> SUFFICES ASSUME HnswPieces, [Next]_vars PROVE HnswPieces'
  OBVIOUS
<1>1. CASE \E id \in Ids, level \in 0 .. TopLevel : Insert(id, level)
  BY <1>1, InsertKeeps
<1>2. ASSUME NEW id \in Ids, Delete(id) PROVE HnswPieces'
  <2>1. graph' = graph /\ Nodes' = Nodes /\ id \in Nodes /\ deleted' = deleted \cup {id}
    BY <1>2 DEF Delete, Nodes, Live
  <2> QED
    BY <1>2, <2>1 DEF Delete, HnswPieces, history
<1>3. CASE Compact
  BY <1>3, CompactKeeps
<1>4. CASE Clear
  <2>1. /\ graph' = <<>> /\ order' = {} /\ entryPoint' = None /\ maxLevel' = 0 /\ deleted' = {}
        /\ reinserted' = {} /\ removed' = FALSE
    BY <1>4 DEF Clear
  <2>2. Nodes' = {}
    BY <2>1 DEF Nodes
  <2>3. SoundGraph(graph', Nodes', maxLevel', reinserted')
    BY <2>1, <2>2, EmptyIsSound
  <2>4. 0 \in 0 .. TopLevel
    BY IndexAssumption
  <2> QED
    BY <2>1, <2>2, <2>3, <2>4 DEF HnswPieces, InOrder
<1>5. ASSUME NEW format \in Formats, SaveAndLoad(format) PROVE HnswPieces'
  <2>1. Nodes' = Nodes /\ deleted' \subseteq deleted
    BY <1>5 DEF SaveAndLoad, SavedTombstones, Nodes
  <2> QED
    BY <1>5, <2>1 DEF SaveAndLoad, HnswPieces, history
<1>6. CASE UNCHANGED vars
  BY <1>6 DEF vars, history, HnswPieces, Nodes
<1> QED
  BY <1>1, <1>2, <1>3, <1>4, <1>5, <1>6 DEF Next

\* At every step of HNSW's inserts, deletes, compactions, saves and loads the graph is sound: its
\* layers are sets of ids, no node is its own neighbour, and edges go both ways but for those to
\* ids that were inserted again.
THEOREM HnswStaysSound == Spec => []HnswInv
<1>1. Init => HnswInv
  BY HnswInitially, PiecesMakeInv
<1>2. HnswInv /\ [Next]_vars => HnswInv'
  <2>1. HnswPieces' <=> HnswInv'
    BY PiecesMakeInv, PTL
  <2> QED
    BY <2>1, HnswStep, PiecesMakeInv
<1> QED
  BY <1>1, <1>2, PTL DEF Spec

\* Every variable of the index has its type, the entry point is a node as long as there is one, and
\* no node has a layer above max_level.
THEOREM HnswTypeCorrect == Spec => []TypeOK
<1>1. HnswInv => TypeOK
  BY DEF HnswInv
<1> QED
  BY <1>1, HnswStaysSound, PTL

\* An edge that insert() makes to a node that is not inserted again comes back, whatever is deleted
\* and compacted: compact() leaves no edge to a node it removes.
THEOREM EdgesAreMutual == Spec => []EdgesMutual
<1>1. HnswInv => EdgesMutual
  <2> SUFFICES ASSUME HnswInv, NEW n \in Nodes, NEW l \in DOMAIN graph[n], NEW m \in graph[n][l],
                      m \notin reinserted
               PROVE  m \in Nodes /\ n \in Layer(graph, m, l)
    BY DEF EdgesMutual
  <2>1. l \in Nat /\ m \in Layer(graph, n, l) /\ MutualLayers(graph, reinserted)
    BY IndexAssumption DEF HnswInv, TypeOK, SoundGraph, Layer
  <2> QED
    BY <2>1 DEF MutualLayers, Nodes
<1> QED
  BY <1>1, HnswStaysSound, PTL

\* _search_layer ends at a local optimum: its nearest result has no nearer neighbour in the layer,
\* for every graph the index can have, every start, query, layer and breadth.
THEOREM SearchesEndAtOptimum == Spec => []SearchEndsAtOptimum
<1>1. HnswInv => SearchEndsAtOptimum
  <2> SUFFICES ASSUME HnswInv, NEW start \in Nodes, NEW q \in Ids, NEW ef \in {1, 2},
                      NEW l \in 0 .. maxLevel, NEW found, found = SearchLayer(graph, At[q], ef, start, l),
                      ~ found.broken, NEW n \in Layer(graph, Closest(At[q], found.results), l)
               PROVE  Near(At[q], n) >= Near(At[q], Closest(At[q], found.results))
    BY DEF SearchEndsAtOptimum
  <2>1. DOMAIN graph \subseteq Ids /\ start \in DOMAIN graph /\ ef \in Nat \ {0}
    BY DEF HnswInv, TypeOK, Nodes
  <2> QED
    BY <2>1, EndsAtOptimum
<1> QED
  BY <1>1, HnswStaysSound, PTL

-----------------------------------------------------------------------------
(***************************************************************************)
(* HNSW: a filtered search that may return every node.                     *)
(***************************************************************************)
\* The states of a filtered search as broad as there are ids: of what it has taken, exactly
\* the nodes that pass are results.
FilterStates(g, start, passing) ==
  {s \in [frontier : SUBSET DOMAIN g, visited : SUBSET DOMAIN g, results : SUBSET DOMAIN g,
          broken : BOOLEAN, ef : Nat, most : Nat, explored : Nat, filteredOut : Nat] :
     /\ Walks(g, start, 0, s) /\ ~ s.broken
     /\ s.results = passing \cap Taken(s)
     /\ s.ef >= Cardinality(Ids)}

\* A round of such a search takes one more node, and it does not end before its frontier is empty.
LEMMA FilterGoesOn ==
  ASSUME NEW g, DOMAIN g \subseteq Ids, \A n \in DOMAIN g : Layer(g, n, 0) \subseteq DOMAIN g,
         NEW q \in Ids, NEW start, NEW passing \in SUBSET Ids, passing # Ids,
         NEW s \in FilterStates(g, start, passing),
         NEW t, t = VisitFiltered(g, At[q], passing, 0, s)
  PROVE  /\ t \in FilterStates(g, start, passing)
         /\ s.frontier = {} => t = s
         /\ s.frontier # {} => Cardinality(Taken(t)) = Cardinality(Taken(s)) + 1
<1>1. /\ s.frontier \in SUBSET DOMAIN g /\ s.visited \in SUBSET DOMAIN g
      /\ s.results \in SUBSET DOMAIN g /\ s.broken = FALSE
      /\ s.ef \in Nat /\ s.most \in Nat /\ s.explored \in Nat /\ s.filteredOut \in Nat
      /\ s = [frontier |-> s.frontier, visited |-> s.visited, results |-> s.results,
              broken |-> FALSE, ef |-> s.ef, most |-> s.most, explored |-> s.explored,
              filteredOut |-> s.filteredOut]
      /\ Walks(g, start, 0, s) /\ s.results = passing \cap Taken(s) /\ s.ef >= Cardinality(Ids)
  BY DEF FilterStates
<1>2. CASE s.frontier = {}
  BY <1>2 DEF VisitFiltered
<1>3. CASE s.frontier # {}
  <2>1. PICK c \in Nat : c = Cardinality(Ids)
    BY IdSets
  <2>2. ASSUME NEW A \in SUBSET Ids PROVE Cardinality(A) \in Nat /\ Cardinality(A) <= c
    BY <2>1, IdSets, FS_Subset
  <2>3. Cardinality(s.results) < s.ef
    <3>1. s.results \in SUBSET Ids /\ s.results # Ids
      BY <1>1
    <3>2. /\ Cardinality(s.results) <= Cardinality(Ids)
          /\ Cardinality(Ids) = Cardinality(s.results) => Ids = s.results
      BY <3>1, IdSets, FS_Subset
    <3> QED
      BY <1>1, <2>1, <2>2, <3>1, <3>2
  <2>4. PICK n : n = Closest(At[q], s.frontier)
    OBVIOUS
  <2>5. n \in s.frontier /\ n \in DOMAIN g
    <3>1. s.frontier \in SUBSET Ids
      BY <1>1
    <3> QED
      BY <1>1, <1>3, <2>4, <3>1, NearestIs
  <2>6. ~ (/\ s.results # {}
           /\ Near(At[q], n) >= Near(At[q], Farthest(At[q], s.results))
           /\ Cardinality(s.results) >= s.ef)
    <3>1. Cardinality(s.results) \in Nat
      BY <1>1, <2>2
    <3> QED
      BY <1>1, <2>3, <3>1
  <2>7. PICK R : R = IF n \in passing THEN Keep(At[q], s.results \cup {n}, s.ef) ELSE s.results
    OBVIOUS
  <2>8. R = s.results \cup (passing \cap {n})
    <3>1. s.results \cup {n} \in SUBSET Ids
      BY <1>1, <2>5
    <3>2. Cardinality(s.results \cup {n}) \in Nat /\ Cardinality(s.results \cup {n}) <= c
      BY <2>2, <3>1
    <3>3. ~ (Cardinality(s.results \cup {n}) > s.ef)
      BY <1>1, <2>1, <3>2
    <3>4. Keep(At[q], s.results \cup {n}, s.ef) = s.results \cup {n}
      BY <3>3 DEF Keep
    <3> QED
      BY <2>7, <3>4
  <2>9. PICK out : out = s.filteredOut + (IF n \in passing THEN 0 ELSE 1)
    OBVIOUS
  <2>10. PICK e : e = IF n \notin passing /\ 2 * out > s.explored /\ s.ef < s.most
                        THEN (IF 2 * s.ef < s.most THEN 2 * s.ef ELSE s.most)
                        ELSE s.ef
    OBVIOUS
  <2>11. out \in Nat /\ e \in Nat /\ e >= c
    <3>1. out \in Nat
      BY <1>1, <2>9
    <3>2. e \in Nat /\ e >= s.ef
      <4>1. CASE n \notin passing /\ 2 * out > s.explored /\ s.ef < s.most
        <5>1. e = IF 2 * s.ef < s.most THEN 2 * s.ef ELSE s.most
          BY <2>10, <4>1
        <5>2. s.ef < s.most
          BY <4>1
        <5> QED
          BY <1>1, <5>1, <5>2
      <4>2. CASE ~ (n \notin passing /\ 2 * out > s.explored /\ s.ef < s.most)
        BY <1>1, <2>10, <4>2
      <4> QED
        BY <4>1, <4>2
    <3> QED
      BY <1>1, <2>1, <3>1, <3>2
  <2>12. PICK counted : counted = [s EXCEPT !.explored = s.explored + 1, !.filteredOut = out, !.ef = e]
    OBVIOUS
  <2>13. t = Expand(g, 0, counted, n, R)
    BY <1>3, <2>4, <2>6, <2>7, <2>9, <2>10, <2>12 DEF VisitFiltered
  <2>14. counted = [frontier |-> s.frontier, visited |-> s.visited, results |-> s.results,
                    broken |-> FALSE, ef |-> e, most |-> s.most, explored |-> s.explored + 1,
                    filteredOut |-> out]
    BY <1>1, <2>12
  <2>15. PICK U : U = Layer(g, n, 0) \ s.visited
    OBVIOUS
  <2>16. U \in SUBSET DOMAIN g
    BY <2>5, <2>15
  <2>17. t = [frontier |-> (s.frontier \ {n}) \cup U, visited |-> s.visited \cup U, results |-> R,
              broken |-> FALSE, ef |-> e, most |-> s.most, explored |-> s.explored + 1,
              filteredOut |-> out]
    BY <2>13, <2>14, <2>15, <2>16 DEF Expand
  <2>18. /\ t.frontier = (s.frontier \ {n}) \cup U /\ t.visited = s.visited \cup U
         /\ t.broken = FALSE /\ t.results = R /\ t.ef = e
    BY <2>17
  <2>19. Expanded(g, 0, s, n, t)
    BY <1>1, <2>15, <2>16, <2>18 DEF Expanded
  <2>20. Walks(g, start, 0, t) /\ n \notin Taken(s) /\ Taken(t) = Taken(s) \cup {n}
    BY <1>1, <2>5, <2>18, <2>19, WalkKeeps
  <2>21. t.results = passing \cap Taken(t)
    BY <1>1, <2>8, <2>18, <2>20
  <2>22. t \in [frontier : SUBSET DOMAIN g, visited : SUBSET DOMAIN g, results : SUBSET DOMAIN g,
                broken : BOOLEAN, ef : Nat, most : Nat, explored : Nat, filteredOut : Nat]
    <3>1. /\ (s.frontier \ {n}) \cup U \in SUBSET DOMAIN g /\ s.visited \cup U \in SUBSET DOMAIN g
          /\ R \in SUBSET DOMAIN g /\ s.explored + 1 \in Nat
      BY <1>1, <2>5, <2>8, <2>16
    <3>2. PICK fr \in SUBSET DOMAIN g : fr = (s.frontier \ {n}) \cup U
      BY <3>1
    <3>3. PICK vi \in SUBSET DOMAIN g : vi = s.visited \cup U
      BY <3>1
    <3>4. PICK ex \in Nat : ex = s.explored + 1
      BY <3>1
    <3>5. PICK mo \in Nat : mo = s.most
      BY <1>1
    <3>6. t = [frontier |-> fr, visited |-> vi, results |-> R, broken |-> FALSE, ef |-> e,
               most |-> mo, explored |-> ex, filteredOut |-> out]
      BY <2>17, <3>2, <3>3, <3>4, <3>5
    <3>7. R \in SUBSET DOMAIN g /\ e \in Nat /\ out \in Nat
      BY <2>11, <3>1
    <3>8. /\ t.frontier = fr /\ t.visited = vi /\ t.results = R /\ t.broken = FALSE /\ t.ef = e
          /\ t.most = mo /\ t.explored = ex /\ t.filteredOut = out
      BY <3>6
    <3>9. t = [frontier |-> t.frontier, visited |-> t.visited, results |-> t.results,
               broken |-> t.broken, ef |-> t.ef, most |-> t.most, explored |-> t.explored,
               filteredOut |-> t.filteredOut]
      BY <3>6, <3>8
    <3> QED
      BY <3>7, <3>8, <3>9
  <2>23. t \in FilterStates(g, start, passing)
    BY <2>1, <2>11, <2>18, <2>20, <2>21, <2>22 DEF FilterStates
  <2>24. Cardinality(Taken(t)) = Cardinality(Taken(s)) + 1
    <3>1. Taken(s) \in SUBSET Ids
      BY <1>1 DEF Taken
    <3>2. IsFiniteSet(Taken(s))
      BY <3>1, IdSets
    <3> QED
      BY <2>20, <3>2, FS_AddElement
  <2> QED
    BY <1>3, <2>23, <2>24
<1> QED
  BY <1>2, <1>3

\* Every node can be reached from every other in layer 0, which every node has.
Connected(g) ==
  /\ \A n \in DOMAIN g : 0 \in DOMAIN g[n]
  /\ \A A \in SUBSET DOMAIN g : A # {} /\ Shut(g, 0, A) => A = DOMAIN g

\* Over a connected graph it returns exactly the nodes that pass.
LEMMA FilterFindsAll ==
  ASSUME NEW g, DOMAIN g \subseteq Ids, Intact(g), Connected(g), NEW q \in Ids,
         NEW start \in DOMAIN g, NEW passing \in SUBSET Ids, passing # Ids
  PROVE  SearchLayerFiltered(g, At[q], Cardinality(Ids), start, 0, passing).results
           = passing \cap DOMAIN g
<1>1. PICK N \in Nat : N = Cardinality(DOMAIN g)
  BY IdSets
<1>2. PICK wide \in Nat : wide = Cardinality(Ids)
  BY IdSets
<1>3. PICK S : S = FilterStates(g, start, passing)
  OBVIOUS
<1>4. PICK s0 : s0 = [frontier |-> {start}, visited |-> {start}, results |-> {}, broken |-> FALSE,
                      ef |-> wide, most |-> wide * MaxExpansion, explored |-> 0, filteredOut |-> 0]
  OBVIOUS
<1>5. \A n \in DOMAIN g : Layer(g, n, 0) \subseteq DOMAIN g
  BY IntactLayers
<1>6. s0 \in S /\ Taken(s0) = {}
  <2>1. wide * MaxExpansion \in Nat
    BY SearchAssumption
  <2>2. s0 \in [frontier : SUBSET DOMAIN g, visited : SUBSET DOMAIN g, results : SUBSET DOMAIN g,
                broken : BOOLEAN, ef : Nat, most : Nat, explored : Nat, filteredOut : Nat]
    BY <1>4, <2>1
  <2>3. /\ s0.frontier = {start} /\ s0.visited = {start} /\ s0.results = {} /\ s0.broken = FALSE
        /\ s0.ef = wide
    BY <1>4
  <2>4. Walks(g, start, 0, s0) /\ Taken(s0) = {}
    BY <2>3 DEF Walks, Taken
  <2>5. s0.results = passing \cap Taken(s0) /\ s0.ef >= Cardinality(Ids)
    BY <1>2, <2>3, <2>4
  <2>6. s0 \in FilterStates(g, start, passing)
    BY <2>2, <2>3, <2>4, <2>5 DEF FilterStates
  <2> QED
    BY <1>3, <2>4, <2>6
<1>7. \A s \in S : VisitFiltered(g, At[q], passing, 0, s) \in S
  <2> TAKE s \in S
  <2>1. PICK t : t = VisitFiltered(g, At[q], passing, 0, s)
    OBVIOUS
  <2>2. t \in FilterStates(g, start, passing)
    BY <1>3, <1>5, <2>1, FilterGoesOn
  <2> QED
    BY <1>3, <2>1, <2>2
<1>8. PICK F : F = [p \in (1 .. N) \X S |-> VisitFiltered(g, At[q], passing, 0, p[2])]
  OBVIOUS
<1>9. F \in [(1 .. N) \X S -> S]
  BY <1>7, <1>8
<1>10. PICK a \in [0 .. N -> S] : RunsUp(a, N, s0, F)
  BY <1>6, <1>9, RunExists
<1>11. a = [k \in 0 .. N |-> IF k = 0 THEN s0 ELSE F[<<k, a[k - 1]>>]]
  BY <1>10 DEF RunsUp
<1>12. ASSUME NEW k \in 0 .. N
       PROVE  a[k] = IF k = 0 THEN s0 ELSE VisitFiltered(g, At[q], passing, 0, a[k - 1])
  <2>1. k # 0 => a[k - 1] \in S /\ k \in 1 .. N
    BY <1>10
  <2> QED
    BY <1>8, <1>11, <2>1
<1>13. a = [k \in 0 .. N |->
             IF k = 0 THEN s0 ELSE VisitFiltered(g, At[q], passing, 0, a[k - 1])]
  BY <1>10, <1>12
<1> DEFINE after[k \in 0 .. N] ==
             IF k = 0 THEN s0 ELSE VisitFiltered(g, At[q], passing, 0, after[k - 1])
<1>14. after = [k \in 0 .. N |->
             IF k = 0 THEN s0 ELSE VisitFiltered(g, At[q], passing, 0, after[k - 1])]
  BY <1>13
<1>15. SearchLayerFiltered(g, At[q], wide, start, 0, passing) = after[N]
  BY <1>1, <1>4 DEF SearchLayerFiltered
<1>16. PICK b : b = after
  OBVIOUS
<1> HIDE DEF after
<1>17. b = [k \in 0 .. N |->
             IF k = 0 THEN s0 ELSE VisitFiltered(g, At[q], passing, 0, b[k - 1])]
  BY <1>14, <1>16
<1>18. PICK T : T = {k \in 0 .. N : b[k] \in S /\ (b[k].frontier = {} \/ Cardinality(Taken(b[k])) >= k)}
  OBVIOUS
<1>19. 0 \in T
  <2>1. b[0] = s0
    BY <1>17
  <2>2. Cardinality(Taken(s0)) = 0
    BY <1>6, FS_EmptySet
  <2>3. Cardinality(Taken(b[0])) >= 0
    BY <2>1, <2>2
  <2>4. b[0] \in S /\ 0 \in 0 .. N
    BY <1>6, <2>1
  <2> QED
    BY <1>18, <2>3, <2>4
<1>20. ASSUME NEW k \in 0 .. N - 1, k \in T PROVE k + 1 \in T
  <2>1. PICK s \in S : s = b[k]
    BY <1>18, <1>20
  <2>2. PICK t : t = VisitFiltered(g, At[q], passing, 0, s)
    OBVIOUS
  <2>3. b[k + 1] = t
    <3>1. k + 1 \in 0 .. N /\ k + 1 # 0 /\ k + 1 - 1 = k
      OBVIOUS
    <3>2. b[k + 1] = VisitFiltered(g, At[q], passing, 0, b[k + 1 - 1])
      BY ONLY <1>17, <3>1
    <3> QED
      BY <2>1, <2>2, <3>1, <3>2
  <2>4. /\ t \in S
        /\ s.frontier = {} => t = s
        /\ s.frontier # {} => Cardinality(Taken(t)) = Cardinality(Taken(s)) + 1
    BY <1>3, <1>5, <2>2, FilterGoesOn
  <2>5. Cardinality(Taken(s)) \in Nat
    <3>1. Taken(s) \in SUBSET Ids
      BY <1>3 DEF FilterStates, Taken
    <3> QED
      BY <3>1, IdSets
  <2>6. s.frontier = {} \/ Cardinality(Taken(s)) >= k
    BY <1>18, <1>20, <2>1
  <2>7. t.frontier = {} \/ Cardinality(Taken(t)) >= k + 1
    BY <2>4, <2>5, <2>6
  <2>8. k + 1 \in 0 .. N
    OBVIOUS
  <2> QED
    BY <1>18, <2>3, <2>4, <2>7, <2>8
<1>21. \A k \in 0 .. N : k \in T
  BY <1>18, <1>19, <1>20, UpTo
<1>22. PICK t \in S : t = b[N] /\ (t.frontier = {} \/ Cardinality(Taken(t)) >= N)
  BY <1>18, <1>21
<1>23. /\ Walks(g, start, 0, t) /\ ~ t.broken /\ t.results = passing \cap Taken(t)
       /\ t.visited \subseteq DOMAIN g /\ t.frontier \subseteq t.visited /\ start \in t.visited
       /\ \A n \in Taken(t) : Layer(g, n, 0) \subseteq t.visited
  BY <1>3 DEF FilterStates, Walks
<1>24. Taken(t) = DOMAIN g
  <2>1. CASE t.frontier = {}
    <3>1. Taken(t) = t.visited
      BY <2>1 DEF Taken
    <3>2. Shut(g, 0, t.visited)
      BY <1>23, <3>1 DEF Shut
    <3> QED
      BY <1>23, <3>1, <3>2 DEF Connected
  <2>2. CASE Cardinality(Taken(t)) >= N
    <3>1. Taken(t) \in SUBSET DOMAIN g
      BY <1>23 DEF Taken
    <3>2. IsFiniteSet(DOMAIN g) /\ Cardinality(Taken(t)) \in Nat
      BY <3>1, IdSets
    <3>3. /\ Cardinality(Taken(t)) <= Cardinality(DOMAIN g)
          /\ Cardinality(DOMAIN g) = Cardinality(Taken(t)) => DOMAIN g = Taken(t)
      BY <3>1, <3>2, FS_Subset
    <3> QED
      BY <1>1, <2>2, <3>2, <3>3
  <2> QED
    BY <1>22, <2>1, <2>2
<1> QED
  BY <1>2, <1>15, <1>16, <1>22, <1>23, <1>24

-----------------------------------------------------------------------------
(***************************************************************************)
(* HNSW: the graph stays connected.                                        *)
(***************************************************************************)
\* An insert of a new node links it to the others, so that the graph stays connected.
LEMMA JoinedConnects ==
  ASSUME NEW D \in SUBSET Ids, NEW id \in D, NEW g, DOMAIN g = D, NEW t, DOMAIN t.graph = D,
         Joined(g, t, D, id), \A n \in D \ {id} : id \notin Layer(g, n, 0),
         \A A \in SUBSET (D \ {id}) : A # {} /\ Shut(g, 0, A) => A = D \ {id}
  PROVE  Connected(t.graph)
<1>1. PICK nb \in SUBSET (D \ {id}) :
        /\ nb # {} /\ nb \subseteq Layer(t.graph, id, 0)
        /\ \A n \in D \ {id} : Layer(g, n, 0) \subseteq Layer(t.graph, n, 0)
        /\ \A n \in nb : id \in Layer(t.graph, n, 0)
  BY DEF Joined
<1>2. ASSUME NEW A \in SUBSET D, A # {}, Shut(t.graph, 0, A) PROVE A = D
  <2>1. PICK B : B = A \ {id}
    OBVIOUS
  <2>2. \A n \in A : Layer(t.graph, n, 0) \cap D \subseteq A
    BY <1>2 DEF Shut
  <2>3. B # {}
    <3>1. SUFFICES ASSUME id \in A PROVE B # {}
      BY <1>2, <2>1
    <3>2. nb \subseteq A
      BY <1>1, <2>2, <3>1
    <3> QED
      BY <1>1, <2>1, <3>2
  <2>4. Shut(g, 0, B)
    <3> SUFFICES ASSUME NEW n \in B, NEW m \in Layer(g, n, 0), m \in D PROVE m \in B
      BY DEF Shut
    <3>1. n \in D \ {id} /\ n \in A
      BY <2>1
    <3>2. m \in Layer(t.graph, n, 0) /\ m # id
      BY <1>1, <3>1
    <3> QED
      BY <2>1, <2>2, <3>1, <3>2
  <2>5. B = D \ {id}
    BY <2>1, <2>3, <2>4
  <2>6. PICK n \in nb : n \in B
    BY <1>1, <2>5
  <2>7. id \in A
    BY <1>1, <2>1, <2>2, <2>6
  <2> QED
    BY <2>1, <2>5, <2>7
<1> QED
  BY <1>2 DEF Connected, Joined

\* The first node gets layer 0.
LEMMA FirstHasLayer ==
  ASSUME NEW id \in Ids, NEW top \in Nat, NEW g, SoundGraph(g, {id}, top, {}),
         NEW level \in 0 .. top
  PROVE  0 \in DOMAIN ConnectFirst(g, id, level).graph[id]
<1>1. PICK D \in SUBSET Ids : D = {id}
  OBVIOUS
<1>2. SoundGraph(g, D, top, {}) /\ id \in D /\ g \in HnswGraphs(D, top)
  BY <1>1 DEF SoundGraph
<1>3. ASSUME NEW s \in Builds(D, top, {}), ~ s.broken, NEW l \in 0 .. top,
             NEW t, t = Connect(s, id, l)
      PROVE  /\ t \in Builds(D, top, {}) /\ ~ t.broken
             /\ DOMAIN t.graph[id] = DOMAIN s.graph[id] \cup {l}
  <2>1. SoundGraph(s.graph, D, top, {}) /\ s.graph \in HnswGraphs(D, top) /\ s.node \in D
    BY DEF Builds
  <2>2. DOMAIN s.graph = D /\ Intact(s.graph)
    BY <2>1, GraphIs, MutualIntact DEF GraphOver
  <2>3. t \in Builds(D, top, {}) /\ Connects(s, t, D, D, id, l)
    <3>1. D \in SUBSET D /\ Shut(s.graph, l, D)
      BY <2>2, ShutAll
    <3> QED
      BY <1>2, <1>3, <2>1, <3>1, ConnectIs
  <2>4. ~ t.broken
    BY <1>3, <2>2, <2>3 DEF Connects
  <2>5. PICK nb \in SUBSET Linkable(s.graph, D, id, l) : t.graph = Link(s.graph, id, l, nb)
    BY <2>3, <2>4 DEF Connects
  <2>6. PICK f : f = s.graph
    OBVIOUS
  <2>7. PICK h : h = t.graph
    OBVIOUS
  <2>8. Links(f, h, D, id, l, nb)
    BY <1>2, <2>1, <2>5, <2>6, <2>7, LinkLayers
  <2>9. DOMAIN h[id] = DOMAIN f[id] \cup {l}
    BY <1>2, <2>8 DEF Links
  <2> QED
    BY <2>3, <2>4, <2>6, <2>7, <2>9
<1>4. PICK s : s = [graph |-> g, node |-> id, broken |-> FALSE]
  OBVIOUS
<1>5. s \in Builds(D, top, {}) /\ ~ s.broken
  BY <1>2, <1>4 DEF Builds
<1>6. PICK bottom : bottom = Connect(s, id, 0)
  OBVIOUS
<1>7. bottom \in Builds(D, top, {}) /\ ~ bottom.broken /\ 0 \in DOMAIN bottom.graph[id]
  <2>1. 0 \in 0 .. top
    OBVIOUS
  <2> QED
    BY <1>3, <1>5, <1>6, <2>1
<1>8. PICK b : b = [bottom EXCEPT !.node = id]
  OBVIOUS
<1>9. b \in Builds(D, top, {}) /\ ~ b.broken /\ b.graph = bottom.graph
  BY <1>2, <1>7, <1>8 DEF Builds
<1>10. PICK t : t = Connect(b, id, level)
  OBVIOUS
<1>11. 0 \in DOMAIN t.graph[id]
  <2>1. DOMAIN t.graph[id] = DOMAIN b.graph[id] \cup {level}
    BY <1>3, <1>9, <1>10
  <2> QED
    BY <1>7, <1>9, <2>1
<1>12. ConnectFirst(g, id, level) = IF level = 0 THEN bottom ELSE t
  BY <1>4, <1>6, <1>8, <1>10 DEF ConnectFirst
<1> QED
  BY <1>7, <1>11, <1>12

\* Unless an id was inserted again or a node was removed, the graph is connected.
Whole == reinserted = {} /\ ~ removed => Connected(graph)

\* insert() of a new node keeps the graph connected.
LEMMA InsertStaysWhole ==
  ASSUME HnswPieces, Whole, NEW id \in Ids, NEW level \in 0 .. TopLevel, Insert(id, level)
  PROVE  Whole'
<1> SUFFICES ASSUME reinserted' = {}, ~ removed' PROVE Connected(graph')
  BY DEF Whole
<1>1. id \notin Nodes /\ reinserted = {} /\ Connected(graph)
  BY DEF Insert, Whole
<1>2. PICK D \in SUBSET Ids : D = Nodes \cup {id}
  BY DEF HnswPieces
<1>3. PICK top \in Nat : top = maxLevel'
  <2>1. maxLevel' \in 0 .. TopLevel
    BY InsertBuilds
  <2> QED
    BY <2>1, IndexAssumption
<1>4. PICK h : h = Fresh(id)
  OBVIOUS
<1>5. /\ top = (IF level > maxLevel THEN level ELSE maxLevel) /\ top \in 0 .. TopLevel
      /\ SoundGraph(h, D, top, {})
  BY <1>2, <1>3, <1>4, InsertBuilds
<1>6. PICK t \in Builds(D, top, {}) :
        /\ graph' = t.graph
        /\ t = IF entryPoint = None THEN ConnectFirst(h, id, level)
               ELSE ConnectFrom(h, id, level, top)
  BY <1>2, <1>3, <1>4, InsertBuilds
<1>7. level \in 0 .. top
  BY <1>5, IndexAssumption DEF HnswPieces
<1>8. DOMAIN t.graph = D
  BY GraphIs DEF Builds, GraphOver
<1>9. CASE entryPoint = None
  <2>1. D = {id}
    BY <1>2, <1>9 DEF HnswPieces
  <2>2. 0 \in DOMAIN t.graph[id]
    BY <1>5, <1>6, <1>7, <1>9, <2>1, FirstHasLayer
  <2>3. \A n \in D : 0 \in DOMAIN t.graph[n]
    BY <2>1, <2>2
  <2>4. \A A \in SUBSET D : A # {} => A = D
    BY <2>1
  <2> QED
    BY <1>6, <1>8, <2>3, <2>4 DEF Connected
<1>10. CASE entryPoint # None
  <2>1. entryPoint \in D \ {id} /\ D \ {id} = Nodes
    BY <1>1, <1>2, <1>10 DEF HnswPieces
  <2>2. h = [n \in D |-> IF n = id THEN NoLayers ELSE graph[n]] /\ id \in D
    BY <1>2, <1>4 DEF Fresh
  <2>3. DOMAIN h[id] = {} /\ \A n \in D \ {id} : h[n] = graph[n]
    BY <2>2 DEF NoLayers
  <2>4. \A n \in D \ {id} : 0 \in DOMAIN h[n]
    BY <1>1, <2>1, <2>3 DEF Connected, Nodes
  <2>5. Joined(h, t, D, id)
    BY <1>5, <1>6, <1>7, <1>10, <2>1, <2>2, <2>3, <2>4, NewNodeJoins
  <2>6. \A n \in D \ {id} : Layer(h, n, 0) = Layer(graph, n, 0)
    BY <2>3 DEF Layer
  <2>7. Intact(graph) /\ DOMAIN graph = D \ {id}
    <3>1. PICK g : g = graph
      OBVIOUS
    <3>2. PICK low \in Nat : low = maxLevel
      BY IndexAssumption DEF HnswPieces
    <3>3. Nodes \in SUBSET Ids /\ SoundGraph(g, Nodes, low, {})
      BY <1>1, <3>1, <3>2 DEF HnswPieces
    <3>4. Intact(g)
      BY <3>3, MutualIntact
    <3> QED
      BY <2>1, <3>1, <3>4 DEF Nodes
  <2>8. \A n \in D \ {id} : id \notin Layer(h, n, 0)
    BY <2>6, <2>7, IntactLayers
  <2>9. ASSUME NEW A \in SUBSET (D \ {id}), A # {}, Shut(h, 0, A) PROVE A = D \ {id}
    <3>1. Shut(graph, 0, A)
      BY <2>2, <2>6, <2>7, <2>9 DEF Shut
    <3> QED
      BY <1>1, <2>7, <2>9, <3>1 DEF Connected
  <2>10. DOMAIN h = D
    BY <2>2
  <2>11. Connected(t.graph)
    BY <1>8, <2>2, <2>5, <2>8, <2>9, <2>10, JoinedConnects
  <2> QED
    BY <1>6, <2>11
<1> QED
  BY <1>9, <1>10

\* The empty graph is connected.
LEMMA EmptyIsWhole ==
  ASSUME NEW g, g = <<>>
  PROVE  Connected(g)
<1>1. DOMAIN g = {}
  OBVIOUS
<1> QED
  BY <1>1 DEF Connected

\* Every step keeps the graph connected, until an id is inserted again or a node removed.
LEMMA WholeStep == HnswPieces /\ Whole /\ [Next]_vars => Whole'
<1> SUFFICES ASSUME HnswPieces, Whole, [Next]_vars PROVE Whole'
  OBVIOUS
<1>1. CASE \E id \in Ids, level \in 0 .. TopLevel : Insert(id, level)
  BY <1>1, InsertStaysWhole
<1>2. ASSUME NEW id \in Ids, Delete(id) PROVE Whole'
  BY <1>2 DEF Delete, Whole, history
<1>3. CASE Compact
  BY <1>3 DEF Compact, Whole
<1>4. CASE Clear
  <2>1. graph' = <<>>
    BY <1>4 DEF Clear
  <2> QED
    BY <2>1, EmptyIsWhole DEF Whole
<1>5. ASSUME NEW format \in Formats, SaveAndLoad(format) PROVE Whole'
  BY <1>5 DEF SaveAndLoad, Whole, history
<1>6. CASE UNCHANGED vars
  BY <1>6 DEF vars, history, Whole
<1> QED
  BY <1>1, <1>2, <1>3, <1>4, <1>5, <1>6 DEF Next

\* As long as no id is inserted twice and no node removed, layer 0 connects all nodes.
THEOREM HnswStaysWhole == Spec => [](HnswInv /\ Whole)
<1>1. Init => HnswInv /\ Whole
  <2>1. Init => graph = <<>>
    BY DEF Init
  <2>2. Init => Whole
    BY <2>1, EmptyIsWhole DEF Whole
  <2> QED
    BY <2>2, HnswInitially, PiecesMakeInv
<1>2. (HnswInv /\ Whole) /\ [Next]_vars => (HnswInv /\ Whole)'
  <2>1. HnswPieces' <=> HnswInv'
    BY PiecesMakeInv, PTL
  <2> QED
    BY <2>1, HnswStep, WholeStep, PiecesMakeInv
<1> QED
  BY <1>1, <1>2, PTL DEF Spec

\* _search_layer_filtered with a breadth of all ids finds exactly the live nodes that pass, through
\* tombstones and nodes that do not pass, as long as no id is inserted twice and no node removed.
THEOREM FilteredSearchIsExact == Spec => []FilteredSearchExact
<1>1. HnswInv /\ Whole => FilteredSearchExact
  <2> SUFFICES ASSUME HnswInv, Whole, reinserted = {}, ~ removed,
                      NEW q \in Ids, NEW passing \in (SUBSET Ids) \ {Ids}
               PROVE  Search(At[q], Cardinality(Ids), passing) = passing \cap Live
    BY DEF FilteredSearchExact
  <2>1. HnswPieces /\ Connected(graph)
    BY PiecesMakeInv DEF Whole
  <2>2. PICK g : g = graph
    OBVIOUS
  <2>3. PICK top \in Nat : top = maxLevel
    BY <2>1, IndexAssumption DEF HnswPieces
  <2>4. DOMAIN g \in SUBSET Ids /\ DOMAIN g = Nodes /\ Intact(g)
    <3>1. Nodes \in SUBSET Ids /\ SoundGraph(g, Nodes, top, {})
      BY <2>1, <2>2, <2>3 DEF HnswPieces
    <3> QED
      BY <2>2, <3>1, MutualIntact DEF Nodes
  <2>5. PICK found :
          found = SearchLayerFiltered(graph, At[q], Cardinality(Ids),
                    Descend(graph, At[q], entryPoint, maxLevel, 0).node, 0, passing)
    OBVIOUS
  <2>6. Search(At[q], Cardinality(Ids), passing)
          = IF entryPoint = None THEN {} ELSE found.results \ deleted
    BY <2>5 DEF Search
  <2>7. CASE entryPoint = None
    <3>1. Live = {}
      BY <2>1, <2>7 DEF HnswPieces, Live
    <3> QED
      BY <2>6, <2>7, <3>1
  <2>8. CASE entryPoint # None
    <3>1. PICK start \in DOMAIN g : start = entryPoint
      BY <2>1, <2>4, <2>8 DEF HnswPieces
    <3>2. PICK X \in SUBSET DOMAIN g : X = DOMAIN g
      OBVIOUS
    <3>3. Descend(g, At[q], start, top, 0) \in Stops(g, X)
      <4>1. \A l \in Nat : Shut(g, l, X)
        BY <3>2, ShutAll
      <4>2. 0 \in Nat /\ 0 <= top /\ DOMAIN g \subseteq Ids /\ start \in X
        BY <2>4, <3>2
      <4> QED
        BY <4>1, <4>2, DescendStays
    <3>4. PICK n \in DOMAIN g : n = Descend(g, At[q], start, top, 0).node
      BY <3>2, <3>3 DEF Stops
    <3>5. found = SearchLayerFiltered(g, At[q], Cardinality(Ids), n, 0, passing)
      BY <2>2, <2>3, <2>5, <3>1, <3>4
    <3>6. found.results = passing \cap DOMAIN g
      BY <2>1, <2>2, <2>4, <3>5, FilterFindsAll
    <3> QED
      BY <2>4, <2>6, <2>8, <3>6 DEF Live
  <2> QED
    BY <2>7, <2>8
<1> QED
  BY <1>1, HnswStaysWhole, PTL

-----------------------------------------------------------------------------
(***************************************************************************)
(* VamanaIndex: what its loops over sequences return.                      *)
(***************************************************************************)
\* k is what the first n of s have of S, in their order.
Kept(s, S, n, k) ==
  /\ Len(k) <= n
  /\ \A i \in 1 .. Len(k) : \E m \in 1 .. n : s[m] = k[i]
  /\ \A m \in 1 .. n : s[m] \in S => \E i \in 1 .. Len(k) : k[i] = s[m]
  /\ \A i, j \in 1 .. Len(k) : i < j => \E l, m \in 1 .. n : l < m /\ s[l] = k[i] /\ s[m] = k[j]
  /\ n > 0 /\ s[1] \in S => Len(k) > 0 /\ k[1] = s[1]
  /\ (\A m \in 1 .. n : s[m] \in S) => Len(k) = n /\ \A m \in 1 .. n : k[m] = s[m]

\* Keeping goes on with the next of a sequence.
LEMMA KeptNext ==
  ASSUME NEW T, NEW s \in Seq(T), NEW S, NEW n \in 0 .. Len(s) - 1, NEW k \in Seq(T \cap S),
         Kept(s, S, n, k), NEW h, h = IF s[n + 1] \in S THEN Append(k, s[n + 1]) ELSE k
  PROVE  h \in Seq(T \cap S) /\ Kept(s, S, n + 1, h)
<1>1. CASE s[n + 1] \notin S
  <2>1. h = k /\ n + 1 \in 1 .. n + 1
    BY <1>1
  <2>2. \A i \in 1 .. Len(k) : \E m \in 1 .. n + 1 : s[m] = k[i]
    BY DEF Kept
  <2>3. \A m \in 1 .. n + 1 : s[m] \in S => \E i \in 1 .. Len(k) : k[i] = s[m]
    <3> SUFFICES ASSUME NEW m \in 1 .. n + 1, s[m] \in S PROVE \E i \in 1 .. Len(k) : k[i] = s[m]
      OBVIOUS
    <3>1. m \in 1 .. n
      BY <1>1
    <3> QED
      BY <3>1 DEF Kept
  <2>4. \A i, j \in 1 .. Len(k) :
          i < j => \E l, m \in 1 .. n + 1 : l < m /\ s[l] = k[i] /\ s[m] = k[j]
    <3> SUFFICES ASSUME NEW i \in 1 .. Len(k), NEW j \in 1 .. Len(k), i < j
                 PROVE  \E l, m \in 1 .. n + 1 : l < m /\ s[l] = k[i] /\ s[m] = k[j]
      OBVIOUS
    <3>1. \E l, m \in 1 .. n : l < m /\ s[l] = k[i] /\ s[m] = k[j]
      BY DEF Kept
    <3> QED
      BY <3>1
  <2>5. s[1] \in S => n > 0
    BY <1>1
  <2> QED
    BY <1>1, <2>1, <2>2, <2>3, <2>4, <2>5 DEF Kept
<1>2. CASE s[n + 1] \in S
  <2>1. s[n + 1] \in T
    OBVIOUS
  <2>2. /\ h \in Seq(T \cap S) /\ Len(h) = Len(k) + 1 /\ h[Len(k) + 1] = s[n + 1]
        /\ \A i \in 1 .. Len(k) : h[i] = k[i]
    BY <1>2, <2>1
  <2>3. \A i \in 1 .. Len(h) : i \in 1 .. Len(k) \/ i = Len(k) + 1
    BY <2>2
  <2>4. \A m \in 1 .. n + 1 : m \in 1 .. n \/ m = n + 1
    OBVIOUS
  <2>5. \A i \in 1 .. Len(h) : \E m \in 1 .. n + 1 : s[m] = h[i]
    <3> SUFFICES ASSUME NEW i \in 1 .. Len(h) PROVE \E m \in 1 .. n + 1 : s[m] = h[i]
      OBVIOUS
    <3>1. i \in 1 .. Len(k) => \E m \in 1 .. n : s[m] = k[i]
      BY DEF Kept
    <3>2. n + 1 \in 1 .. n + 1
      OBVIOUS
    <3> QED
      BY <2>2, <2>3, <3>1, <3>2
  <2>6. \A m \in 1 .. n + 1 : s[m] \in S => \E i \in 1 .. Len(h) : h[i] = s[m]
    <3> SUFFICES ASSUME NEW m \in 1 .. n + 1, s[m] \in S PROVE \E i \in 1 .. Len(h) : h[i] = s[m]
      OBVIOUS
    <3>1. m \in 1 .. n => \E i \in 1 .. Len(k) : k[i] = s[m]
      BY DEF Kept
    <3>2. Len(k) + 1 \in 1 .. Len(h) /\ \A i \in 1 .. Len(k) : i \in 1 .. Len(h)
      BY <2>2
    <3> QED
      BY <2>2, <2>4, <3>1, <3>2
  <2>7. \A i, j \in 1 .. Len(h) :
          i < j => \E l, m \in 1 .. n + 1 : l < m /\ s[l] = h[i] /\ s[m] = h[j]
    <3> SUFFICES ASSUME NEW i \in 1 .. Len(h), NEW j \in 1 .. Len(h), i < j
                 PROVE  \E l, m \in 1 .. n + 1 : l < m /\ s[l] = h[i] /\ s[m] = h[j]
      OBVIOUS
    <3>1. i \in 1 .. Len(k)
      BY <2>2
    <3>2. CASE j \in 1 .. Len(k)
      <4>1. \E l, m \in 1 .. n : l < m /\ s[l] = k[i] /\ s[m] = k[j]
        BY <3>1, <3>2 DEF Kept
      <4> QED
        BY <2>2, <3>1, <3>2, <4>1
    <3>3. CASE j = Len(k) + 1
      <4>1. \E l \in 1 .. n : s[l] = k[i]
        BY <3>1 DEF Kept
      <4>2. \A l \in 1 .. n : l < n + 1 /\ l \in 1 .. n + 1 /\ n + 1 \in 1 .. n + 1
        OBVIOUS
      <4> QED
        BY <2>2, <3>1, <3>3, <4>1, <4>2
    <3> QED
      BY <2>3, <3>2, <3>3
  <2>8. s[1] \in S => h[1] = s[1]
    <3>1. CASE n = 0
      <4>1. Len(k) = 0
        BY <3>1 DEF Kept
      <4> QED
        BY <2>2, <3>1, <4>1
    <3>2. CASE n > 0
      <4>1. s[1] \in S => Len(k) > 0 /\ k[1] = s[1]
        BY <3>2 DEF Kept
      <4> QED
        BY <2>2, <4>1
    <3> QED
      BY <3>1, <3>2
  <2>9. (\A m \in 1 .. n + 1 : s[m] \in S) => Len(h) = n + 1 /\ \A m \in 1 .. n + 1 : h[m] = s[m]
    <3> SUFFICES ASSUME \A m \in 1 .. n + 1 : s[m] \in S
                 PROVE  Len(h) = n + 1 /\ \A m \in 1 .. n + 1 : h[m] = s[m]
      OBVIOUS
    <3>1. Len(k) = n /\ \A m \in 1 .. n : k[m] = s[m]
      BY DEF Kept
    <3> QED
      BY <2>2, <2>4, <3>1
  <2>10. Len(h) <= n + 1
    BY <2>2 DEF Kept
  <2>11. Len(h) > 0
    BY <2>2
  <2> QED
    BY <2>2, <2>5, <2>6, <2>7, <2>8, <2>9, <2>10, <2>11 DEF Kept
<1> QED
  BY <1>1, <1>2

\* Keeping returns what a sequence has of a set, in its order.
LEMMA KeepingIs ==
  ASSUME NEW T, NEW s \in Seq(T), NEW S
  PROVE  Keeping(s, S) \in Seq(T \cap S) /\ Kept(s, S, Len(s), Keeping(s, S))
<1>1. PICK N \in Nat : N = Len(s)
  OBVIOUS
<1>2. PICK F : F = [p \in (1 .. N) \X Seq(T) |->
                      IF s[p[1]] \in S THEN Append(p[2], s[p[1]]) ELSE p[2]]
  OBVIOUS
<1>3. F \in [(1 .. N) \X Seq(T) -> Seq(T)]
  <2> SUFFICES ASSUME NEW p \in (1 .. N) \X Seq(T)
               PROVE  (IF s[p[1]] \in S THEN Append(p[2], s[p[1]]) ELSE p[2]) \in Seq(T)
    BY <1>2
  <2>1. p[1] \in 1 .. N /\ p[2] \in Seq(T) /\ s[p[1]] \in T
    BY <1>1
  <2> QED
    BY <2>1, AppendProperties
<1>4. PICK a \in [0 .. N -> Seq(T)] : RunsUp(a, N, <<>>, F)
  <2>1. <<>> \in Seq(T)
    OBVIOUS
  <2> QED
    BY <1>3, <2>1, RunExists
<1>5. a = [k \in 0 .. N |-> IF k = 0 THEN <<>> ELSE F[<<k, a[k - 1]>>]]
  BY <1>4 DEF RunsUp
<1>6. ASSUME NEW n \in 0 .. N
      PROVE  a[n] = IF n = 0 THEN <<>>
                    ELSE IF s[n] \in S THEN Append(a[n - 1], s[n]) ELSE a[n - 1]
  <2>1. n # 0 => a[n - 1] \in Seq(T) /\ n \in 1 .. N
    BY <1>4
  <2> QED
    BY <1>2, <1>5, <2>1
<1>7. a = [n \in 0 .. N |-> IF n = 0 THEN <<>>
                            ELSE IF s[n] \in S THEN Append(a[n - 1], s[n]) ELSE a[n - 1]]
  BY <1>4, <1>6
<1> DEFINE kept[n \in 0 .. N] ==
             IF n = 0 THEN <<>> ELSE IF s[n] \in S THEN Append(kept[n - 1], s[n]) ELSE kept[n - 1]
<1>8. kept = [n \in 0 .. N |-> IF n = 0 THEN <<>> ELSE IF s[n] \in S THEN Append(kept[n - 1], s[n])
                               ELSE kept[n - 1]]
  BY <1>7
<1>9. Keeping(s, S) = kept[N]
  BY <1>1 DEF Keeping
<1>10. PICK b : b = kept
  OBVIOUS
<1> HIDE DEF kept
<1>11. b = [n \in 0 .. N |-> IF n = 0 THEN <<>> ELSE IF s[n] \in S THEN Append(b[n - 1], s[n])
                             ELSE b[n - 1]]
  BY <1>8, <1>10
<1>b. ASSUME NEW n \in 0 .. N
      PROVE  b[n] = IF n = 0 THEN <<>>
                    ELSE IF s[n] \in S THEN Append(b[n - 1], s[n]) ELSE b[n - 1]
  BY <1>11
<1>12. PICK X : X = {n \in 0 .. N : b[n] \in Seq(T \cap S) /\ Kept(s, S, n, b[n])}
  OBVIOUS
<1>13. 0 \in X
  <2>1. b[0] = <<>>
    BY <1>11
  <2>2. Kept(s, S, 0, <<>>)
    BY DEF Kept
  <2>3. 0 \in 0 .. N /\ <<>> \in Seq(T \cap S)
    OBVIOUS
  <2> QED
    BY <1>12, <2>1, <2>2, <2>3
<1>14. ASSUME NEW n \in 0 .. N - 1, n \in X PROVE n + 1 \in X
  <2>1. b[n] \in Seq(T \cap S) /\ Kept(s, S, n, b[n]) /\ n + 1 \in 0 .. N
    BY <1>12, <1>14
  <2>2. b[n + 1] = IF s[n + 1] \in S THEN Append(b[n], s[n + 1]) ELSE b[n]
    <3>1. n + 1 # 0 /\ n + 1 - 1 = n
      OBVIOUS
    <3> QED
      BY <1>b, <2>1, <3>1
  <2>3. b[n + 1] \in Seq(T \cap S) /\ Kept(s, S, n + 1, b[n + 1])
    BY <1>1, <2>1, <2>2, KeptNext
  <2> QED
    BY <1>12, <2>1, <2>3
<1>15. \A n \in 0 .. N : n \in X
  BY <1>12, <1>13, <1>14, UpTo
<1>16. N \in X
  BY <1>15
<1> QED
  BY <1>1, <1>9, <1>10, <1>12, <1>16

\* The elements kept.
LEMMA KeepingSet ==
  ASSUME NEW T, NEW s \in Seq(T), NEW S
  PROVE  /\ ToSet(Keeping(s, S)) = ToSet(s) \cap S
         /\ ToSet(s) \subseteq S => Keeping(s, S) = s
<1>1. PICK k : k = Keeping(s, S)
  OBVIOUS
<1>2. k \in Seq(T \cap S) /\ Kept(s, S, Len(s), k)
  BY <1>1, KeepingIs
<1>3. ToSet(k) = {k[i] : i \in 1 .. Len(k)} /\ ToSet(s) = {s[m] : m \in 1 .. Len(s)}
  BY <1>2 DEF ToSet
<1>4. \A i \in 1 .. Len(k) : k[i] \in S
  BY <1>2
<1>5. ToSet(k) = ToSet(s) \cap S
  <2>1. ToSet(k) \subseteq ToSet(s) \cap S
    BY <1>2, <1>3, <1>4 DEF Kept
  <2>2. \A m \in 1 .. Len(s) : s[m] \in S => \E i \in 1 .. Len(k) : k[i] = s[m]
    BY <1>2 DEF Kept
  <2>3. ToSet(s) \cap S \subseteq ToSet(k)
    BY <1>3, <2>2
  <2> QED
    BY <2>1, <2>3
<1>6. ASSUME ToSet(s) \subseteq S PROVE k = s
  <2>1. Len(k) = Len(s) /\ \A m \in 1 .. Len(s) : k[m] = s[m]
    BY <1>2, <1>3, <1>6 DEF Kept
  <2>2. k \in Seq(T)
    BY <1>2
  <2> QED
    BY <2>1, <2>2, SeqEqual
<1> QED
  BY <1>1, <1>5, <1>6

\* Sorting is a rearrangement f by which keys ascend, and what comes first with the least
\* key stays first.
Sorts(s, key, f) ==
  /\ f \in [1 .. Len(s) -> 1 .. Len(s)]
  /\ \A m \in 1 .. Len(s) : \E n \in 1 .. Len(s) : f[n] = m
  /\ \A m, n \in 1 .. Len(s) : m < n => key[f[m]] <= key[f[n]] /\ f[m] # f[n]
  /\ Len(s) > 0 /\ (\A m \in 1 .. Len(s) : key[1] <= key[m]) => f[1] = 1

LEMMA SortedIs ==
  ASSUME NEW T, NEW s \in Seq(T), NEW key \in [1 .. Len(s) -> Int]
  PROVE  /\ SortedBy(s, key) \in Seq(T) /\ Len(SortedBy(s, key)) = Len(s)
         /\ \E f : Sorts(s, key, f) /\ \A n \in 1 .. Len(s) : SortedBy(s, key)[n] = s[f[n]]
<1>1. PICK N \in Nat : N = Len(s)
  OBVIOUS
<1>2. PICK B : B = [j \in 1 .. N |->
                      {i \in 1 .. N : key[i] < key[j] \/ (key[i] = key[j] /\ i < j)}]
  OBVIOUS
<1>3. /\ B \in [1 .. N -> SUBSET (1 .. N)]
      /\ \A i, j \in 1 .. N : i \in B[j] <=> (key[i] < key[j] \/ (key[i] = key[j] /\ i < j))
  BY <1>2
<1>4. \A j \in 1 .. N : j \notin B[j]
  BY <1>1, <1>3
<1>5. \A j \in 1 .. N : \A i \in B[j] : B[i] \subseteq B[j]
  BY <1>1, <1>3
<1>6. \A i, j \in 1 .. N : i = j \/ i \in B[j] \/ j \in B[i]
  BY <1>1, <1>3
<1>7. IsFiniteSet(1 .. N) /\ Cardinality(1 .. N) = N
  BY FS_Interval
<1>g. PICK G : G = 1 .. N
  OBVIOUS
<1>r. /\ \A j \in G : Cardinality(B[j]) \in 0 .. Cardinality(G) - 1
      /\ \A i, j \in G : Cardinality(B[j]) < Cardinality(B[i]) => j \in B[i]
      /\ \A i, j \in G : Cardinality(B[j]) = Cardinality(B[i]) => j = i
      /\ \A n \in 0 .. Cardinality(G) - 1 : \E j \in G : Cardinality(B[j]) = n
  <2>1. B \in [G -> SUBSET G] /\ IsFiniteSet(G)
    BY <1>3, <1>7, <1>g
  <2>2. \A j \in G : j \notin B[j]
    BY <1>4, <1>g
  <2>3. \A j \in G : \A i \in B[j] : B[i] \subseteq B[j]
    BY <1>5, <1>g
  <2>4. \A i, j \in G : i = j \/ i \in B[j] \/ j \in B[i]
    BY <1>6, <1>g
  <2> QED
    BY <2>1, <2>2, <2>3, <2>4, RanksArePositions
<1>8. /\ \A j \in 1 .. N : Cardinality(B[j]) \in 0 .. N - 1
      /\ \A i, j \in 1 .. N : Cardinality(B[j]) < Cardinality(B[i]) => j \in B[i]
      /\ \A n \in 0 .. N - 1 : \E j \in 1 .. N : Cardinality(B[j]) = n
      /\ \A i, j \in 1 .. N : Cardinality(B[j]) = Cardinality(B[i]) => j = i
  BY <1>7, <1>g, <1>r
<1>9. PICK f : f = [n \in 1 .. Len(s) |->
                      CHOOSE j \in DOMAIN s :
                        Cardinality({i \in DOMAIN s : key[i] < key[j] \/ (key[i] = key[j] /\ i < j)})
                          = n - 1]
  OBVIOUS
<1>10. ASSUME NEW n \in 1 .. N PROVE f[n] \in 1 .. N /\ Cardinality(B[f[n]]) = n - 1
  <2>1. n - 1 \in 0 .. N - 1
    OBVIOUS
  <2>2. \E j \in 1 .. N : Cardinality(B[j]) = n - 1
    BY <1>8, <2>1
  <2>3. f[n] = CHOOSE j \in 1 .. N : Cardinality(B[j]) = n - 1
    <3>1. DOMAIN s = 1 .. N
      BY <1>1
    <3>2. \A j \in DOMAIN s :
            B[j] = {i \in DOMAIN s : key[i] < key[j] \/ (key[i] = key[j] /\ i < j)}
      BY <1>2, <3>1
    <3>3. f[n] = CHOOSE j \in DOMAIN s : Cardinality(B[j]) = n - 1
      BY <1>1, <1>9, <3>2
    <3> QED
      BY <3>1, <3>3
  <2> QED
    BY <2>2, <2>3
<1>11. SortedBy(s, key) = [n \in 1 .. N |-> s[f[n]]]
  <2>1. SortedBy(s, key) = [n \in 1 .. Len(s) |-> s[f[n]]]
    BY <1>9 DEF SortedBy
  <2> QED
    BY <1>1, <2>1
<1>12. SortedBy(s, key) \in Seq(T) /\ Len(SortedBy(s, key)) = N
  <2>1. \A n \in 1 .. N : s[f[n]] \in T
    BY <1>1, <1>10
  <2> QED
    BY <1>1, <1>11, <2>1
<1>13. \A m \in 1 .. N : \E n \in 1 .. N : f[n] = m
  <2> SUFFICES ASSUME NEW m \in 1 .. N PROVE \E n \in 1 .. N : f[n] = m
    OBVIOUS
  <2>1. PICK n \in 1 .. N : n - 1 = Cardinality(B[m])
    <3>1. Cardinality(B[m]) \in 0 .. N - 1
      BY <1>8
    <3> QED
      BY <3>1
  <2>2. f[n] \in 1 .. N /\ Cardinality(B[f[n]]) = Cardinality(B[m])
    BY <1>10, <2>1
  <2>3. f[n] = m
    BY <1>8, <2>2
  <2> QED
    BY <2>1, <2>3
<1>14. ASSUME NEW m \in 1 .. N, NEW n \in 1 .. N, m < n
       PROVE  key[f[m]] <= key[f[n]] /\ f[m] # f[n]
  <2>1. Cardinality(B[f[m]]) < Cardinality(B[f[n]]) /\ f[m] \in 1 .. N /\ f[n] \in 1 .. N
    BY <1>10, <1>14
  <2>2. f[m] \in B[f[n]]
    BY <1>8, <2>1
  <2>3. f[m] # f[n] /\ key[f[m]] \in Int /\ key[f[n]] \in Int
    BY <1>1, <1>4, <2>1, <2>2
  <2>4. \A i, j \in 1 .. N : i \in B[j] => key[i] <= key[j]
    <3> SUFFICES ASSUME NEW i \in 1 .. N, NEW j \in 1 .. N, i \in B[j]
                 PROVE  key[i] <= key[j]
      OBVIOUS
    <3>1. key[i] < key[j] \/ (key[i] = key[j] /\ i < j)
      BY <1>3
    <3>2. key[i] \in Int /\ key[j] \in Int
      BY <1>1
    <3> QED
      BY ONLY <3>1, <3>2
  <2> QED
    BY ONLY <2>1, <2>2, <2>3, <2>4
<1>15. ASSUME N > 0, \A m \in 1 .. N : key[1] <= key[m] PROVE f[1] = 1
  <2>1. 1 \in 1 .. N /\ \A i \in 1 .. N : key[i] \in Int
    BY <1>1, <1>15
  <2>2. B[1] = {}
    BY <1>3, <1>15, <2>1
  <2>3. Cardinality(B[1]) = 0
    BY <2>2, FS_EmptySet
  <2>4. Cardinality(B[f[1]]) = 0 /\ f[1] \in 1 .. N
    BY <1>10, <2>1
  <2> QED
    BY <1>8, <2>1, <2>3, <2>4
<1>16. f \in [1 .. N -> 1 .. N]
  BY <1>1, <1>9, <1>10
<1>17. Sorts(s, key, f)
  BY <1>1, <1>13, <1>14, <1>15, <1>16 DEF Sorts
<1> QED
  BY <1>1, <1>10, <1>11, <1>12, <1>17

\* A sorted sequence has the same elements.
LEMMA SortedSet ==
  ASSUME NEW T, NEW s \in Seq(T), NEW key \in [1 .. Len(s) -> Int]
  PROVE  ToSet(SortedBy(s, key)) = ToSet(s)
<1>1. PICK t : t = SortedBy(s, key)
  OBVIOUS
<1>2. t \in Seq(T) /\ Len(t) = Len(s) /\ \E f : Sorts(s, key, f) /\ \A n \in 1 .. Len(s) : t[n] = s[f[n]]
  BY <1>1, SortedIs
<1>3. PICK f : Sorts(s, key, f) /\ \A n \in 1 .. Len(s) : t[n] = s[f[n]]
  BY <1>2
<1>4. ToSet(t) = {t[n] : n \in 1 .. Len(s)} /\ ToSet(s) = {s[n] : n \in 1 .. Len(s)}
  BY <1>2 DEF ToSet
<1>5. ToSet(t) \subseteq ToSet(s)
  <2>1. \A n \in 1 .. Len(s) : f[n] \in 1 .. Len(s)
    BY <1>3 DEF Sorts
  <2> QED
    BY <1>3, <1>4, <2>1
<1>6. \A m \in 1 .. Len(s) : \E n \in 1 .. Len(s) : t[n] = s[m]
  <2>1. \A m \in 1 .. Len(s) : \E n \in 1 .. Len(s) : f[n] = m
    BY <1>3 DEF Sorts
  <2> QED
    BY <1>3, <2>1
<1>7. ToSet(s) \subseteq ToSet(t)
  BY <1>4, <1>6
<1> QED
  BY <1>1, <1>5, <1>7

\* The first elements of a sequence.
LEMMA FirstOnesIs ==
  ASSUME NEW T, NEW s \in Seq(T), NEW n \in Nat
  PROVE  /\ FirstOnes(s, n) \in Seq(T)
         /\ Len(s) <= n => FirstOnes(s, n) = s
<1>1. PICK k \in 0 .. Len(s) : k = IF n < Len(s) THEN n ELSE Len(s)
  OBVIOUS
<1>2. \A i \in 1 .. k : s[i] \in T
  OBVIOUS
<1>3. SubSeq(s, 1, k) \in Seq(T)
  BY <1>2, SubSeqProperties
<1>4. SubSeq(s, 1, Len(s)) = s
  BY SubSeqFull
<1>5. Len(s) <= n => k = Len(s)
  BY <1>1
<1> QED
  BY <1>1, <1>3, <1>4, <1>5 DEF FirstOnes

-----------------------------------------------------------------------------
(* VamanaIndex: graphs whose rows hold nodes. *)

VamanaGraph(g) ==
  /\ g.nodes \in Seq(VIds) /\ g.vectors \in [VIds -> Points \cup {NoPoint}]
  /\ g.rows \in Seq(Seq(1 .. Len(g.nodes))) /\ Len(g.rows) = Len(g.nodes)

LEMMA GraphDistances ==
  ASSUME NEW g, VamanaGraph(g)
  PROVE  /\ DOMAIN g.nodes = 1 .. Len(g.nodes) /\ Len(g.nodes) \in Nat
         /\ \A i \in 1 .. Len(g.nodes) : HasPoint(g, i) => PointOf(g, i) \in Points
         /\ \A i, j \in 1 .. Len(g.nodes) : Distance(g, i, j) \in Nat
         /\ \A i \in 1 .. Len(g.nodes) : HasPoint(g, i) => Distance(g, i, i) = 0
<1>1. DOMAIN g.nodes = 1 .. Len(g.nodes) /\ Len(g.nodes) \in Nat
  BY DEF VamanaGraph
<1>2. \A i \in 1 .. Len(g.nodes) : HasPoint(g, i) => PointOf(g, i) \in Points
  BY DEF VamanaGraph, HasPoint, PointOf
<1>3. \A i, j \in 1 .. Len(g.nodes) : Distance(g, i, j) \in Nat
  BY <1>2, VamanaAssumption DEF Distance
<1>4. \A i \in 1 .. Len(g.nodes) : HasPoint(g, i) => Distance(g, i, i) = 0
  BY <1>2, VamanaAssumption DEF Distance
<1> QED
  BY <1>1, <1>2, <1>3, <1>4

\* Pruning returns candidates.
LEMMA PruneTypes ==
  ASSUME NEW g, VamanaGraph(g), NEW node \in 1 .. Len(g.nodes),
         NEW candidates \in Seq(1 .. Len(g.nodes))
  PROVE  RobustPrune(g, node, candidates) \in Seq(1 .. Len(g.nodes))
<1>1. PICK D : D = 1 .. Len(g.nodes)
  OBVIOUS
<1>2. PICK N \in Nat : N = Len(candidates)
  OBVIOUS
<1>3. PICK key : key = [n \in DOMAIN candidates |-> Distance(g, node, candidates[n])]
  OBVIOUS
<1>4. key \in [1 .. Len(candidates) -> Int]
  <2>1. DOMAIN candidates = 1 .. Len(candidates)
    OBVIOUS
  <2>2. ASSUME NEW n \in 1 .. Len(candidates) PROVE Distance(g, node, candidates[n]) \in Int
    <3>1. candidates[n] \in 1 .. Len(g.nodes)
      OBVIOUS
    <3>2. \A i, j \in 1 .. Len(g.nodes) : Distance(g, i, j) \in Nat
      BY GraphDistances
    <3>3. Distance(g, node, candidates[n]) \in Nat
      BY <3>1, <3>2
    <3> QED
      BY <3>3
  <2> QED
    BY <1>3, <2>1, <2>2
<1>5. PICK t : t = SortedBy(candidates, key)
  OBVIOUS
<1>6. t \in Seq(D) /\ Len(t) = N
  BY <1>1, <1>2, <1>4, <1>5, SortedIs
<1>7. PICK F : F = [p \in (1 .. N) \X Seq(D) |->
                      IF Len(p[2]) < MaxDegree /\ ~Covered(g, node, p[2], t[p[1]])
                      THEN Append(p[2], t[p[1]]) ELSE p[2]]
  OBVIOUS
<1>8. F \in [(1 .. N) \X Seq(D) -> Seq(D)]
  <2> SUFFICES ASSUME NEW p \in (1 .. N) \X Seq(D)
               PROVE  (IF Len(p[2]) < MaxDegree /\ ~Covered(g, node, p[2], t[p[1]])
                       THEN Append(p[2], t[p[1]]) ELSE p[2]) \in Seq(D)
    BY <1>7
  <2>1. p[1] \in 1 .. N /\ p[2] \in Seq(D) /\ t[p[1]] \in D
    BY <1>6
  <2> QED
    BY <2>1, AppendProperties
<1>9. PICK a \in [0 .. N -> Seq(D)] : RunsUp(a, N, <<>>, F)
  <2>1. <<>> \in Seq(D)
    OBVIOUS
  <2> QED
    BY <1>8, <2>1, RunExists
<1>10. a = [k \in 0 .. N |-> IF k = 0 THEN <<>> ELSE F[<<k, a[k - 1]>>]]
  BY <1>9 DEF RunsUp
<1>11. ASSUME NEW n \in 0 .. N
       PROVE  a[n] = IF n = 0 THEN <<>>
                     ELSE IF Len(a[n - 1]) < MaxDegree /\ ~Covered(g, node, a[n - 1], t[n])
                          THEN Append(a[n - 1], t[n]) ELSE a[n - 1]
  <2>1. n # 0 => a[n - 1] \in Seq(D) /\ n \in 1 .. N
    BY <1>9
  <2> QED
    BY <1>7, <1>10, <2>1
<1>12. a = [n \in 0 .. N |->
              IF n = 0 THEN <<>>
              ELSE IF Len(a[n - 1]) < MaxDegree /\ ~Covered(g, node, a[n - 1], t[n])
                   THEN Append(a[n - 1], t[n]) ELSE a[n - 1]]
  BY <1>9, <1>11
<1> DEFINE chosen[n \in 0 .. N] ==
             IF n = 0 THEN <<>>
             ELSE IF Len(chosen[n - 1]) < MaxDegree /\ ~Covered(g, node, chosen[n - 1], t[n])
                  THEN Append(chosen[n - 1], t[n]) ELSE chosen[n - 1]
<1>13. chosen = [n \in 0 .. N |->
              IF n = 0 THEN <<>>
              ELSE IF Len(chosen[n - 1]) < MaxDegree /\ ~Covered(g, node, chosen[n - 1], t[n])
                   THEN Append(chosen[n - 1], t[n]) ELSE chosen[n - 1]]
  BY <1>12
<1>14. RobustPrune(g, node, candidates) =
         IF HasPoint(g, node) THEN chosen[N] ELSE FirstOnes(candidates, MaxDegree)
  BY <1>2, <1>3, <1>5 DEF RobustPrune
<1>15. PICK b : b = chosen
  OBVIOUS
<1> HIDE DEF chosen
<1>16. ASSUME NEW n \in 0 .. N
       PROVE  b[n] = IF n = 0 THEN <<>>
                     ELSE IF Len(b[n - 1]) < MaxDegree /\ ~Covered(g, node, b[n - 1], t[n])
                          THEN Append(b[n - 1], t[n]) ELSE b[n - 1]
  BY <1>13, <1>15
<1>17. PICK X : X = {n \in 0 .. N : b[n] \in Seq(D)}
  OBVIOUS
<1>18. 0 \in X
  <2>1. 0 \in 0 .. N /\ <<>> \in Seq(D)
    OBVIOUS
  <2> QED
    BY <1>16, <1>17, <2>1
<1>19. ASSUME NEW n \in 0 .. N - 1, n \in X PROVE n + 1 \in X
  <2>1. PICK m \in 0 .. N : m = n + 1
    OBVIOUS
  <2>2. m # 0 /\ m - 1 = n /\ b[n] \in Seq(D) /\ t[m] \in D
    BY <1>6, <1>17, <1>19, <2>1
  <2>3. b[m] = IF m = 0 THEN <<>>
               ELSE IF Len(b[m - 1]) < MaxDegree /\ ~Covered(g, node, b[m - 1], t[m])
                    THEN Append(b[m - 1], t[m]) ELSE b[m - 1]
    BY <1>16
  <2>4. Append(b[n], t[m]) \in Seq(D)
    BY <2>2, AppendProperties
  <2>5. b[m] \in Seq(D)
    BY <2>2, <2>3, <2>4
  <2> QED
    BY <1>17, <2>1, <2>5
<1>20. N \in X
  <2>1. \A n \in 0 .. N : n \in X
    BY <1>17, <1>18, <1>19, UpTo
  <2> QED
    BY <2>1
<1>21. FirstOnes(candidates, MaxDegree) \in Seq(D)
  BY <1>1, FirstOnesIs, VamanaAssumption
<1> QED
  BY <1>1, <1>14, <1>15, <1>17, <1>20, <1>21

\* A new node gets rows of nodes, and what it is added to keeps such rows.
LEMMA LinkedTypes ==
  ASSUME NEW g, VamanaGraph(g), NEW idx \in 1 .. Len(g.nodes),
         NEW neighbors \in Seq(1 .. Len(g.nodes))
  PROVE  /\ Linked(g, idx, neighbors) \in Seq(Seq(1 .. Len(g.nodes)))
         /\ Len(Linked(g, idx, neighbors)) = Len(g.nodes)
<1>1. PICK D : D = 1 .. Len(g.nodes)
  OBVIOUS
<1>2. PICK N \in Nat : N = Len(neighbors)
  OBVIOUS
<1>3. PICK S : S = [D -> Seq(D)]
  OBVIOUS
<1>4. \A x : x \in S <=> x \in Seq(Seq(D)) /\ Len(x) = Len(g.nodes)
  <2>1. PICK n \in Nat : n = Len(g.nodes)
    BY DEF VamanaGraph
  <2>2. PICK Q : Q = Seq(D)
    OBVIOUS
  <2>3. S = [1 .. n -> Q]
    BY <1>1, <1>3, <2>1, <2>2
  <2>4. \A x \in [1 .. n -> Q] : x \in Seq(Q) /\ Len(x) = n
    OBVIOUS
  <2>5. \A x \in Seq(Q) : Len(x) = n => x \in [1 .. n -> Q]
    OBVIOUS
  <2> QED
    BY <2>1, <2>2, <2>3, <2>4, <2>5
<1> DEFINE Step(n, x) ==
             [x EXCEPT ![idx] = Append(@, neighbors[n]),
                       ![neighbors[n]] = RobustPrune(g, neighbors[n], AddedTo(x[neighbors[n]], idx))]
<1>5. ASSUME NEW n \in 1 .. N, NEW x \in S PROVE Step(n, x) \in S
  <2>1. neighbors[n] \in D /\ idx \in D /\ x[idx] \in Seq(D) /\ x[neighbors[n]] \in Seq(D)
    <3>1. neighbors[n] \in D /\ idx \in D
      BY <1>1, <1>2
    <3> QED
      BY <1>3, <3>1
  <2>2. Append(x[idx], neighbors[n]) \in Seq(D)
    BY <2>1, AppendProperties
  <2>3. AddedTo(x[neighbors[n]], idx) \in Seq(D)
    BY <2>1, AppendProperties DEF AddedTo
  <2>4. RobustPrune(g, neighbors[n], AddedTo(x[neighbors[n]], idx)) \in Seq(D)
    BY <1>1, <2>1, <2>3, PruneTypes
  <2> QED
    BY <1>3, <1>5, <2>1, <2>2, <2>4
<1> HIDE DEF Step
<1>6. PICK F : F = [p \in (1 .. N) \X S |-> Step(p[1], p[2])]
  OBVIOUS
<1>7. F \in [(1 .. N) \X S -> S]
  BY <1>5, <1>6
<1>8. g.rows \in S
  BY <1>1, <1>4 DEF VamanaGraph
<1>9. PICK a \in [0 .. N -> S] : RunsUp(a, N, g.rows, F)
  BY <1>7, <1>8, RunExists
<1>10. a = [k \in 0 .. N |-> IF k = 0 THEN g.rows ELSE F[<<k, a[k - 1]>>]]
  BY <1>9 DEF RunsUp
<1>11. ASSUME NEW n \in 0 .. N
       PROVE  a[n] = IF n = 0 THEN g.rows ELSE Step(n, a[n - 1])
  <2>1. n # 0 => a[n - 1] \in S /\ n \in 1 .. N
    BY <1>9
  <2> QED
    BY <1>6, <1>10, <2>1
<1>12. a = [n \in 0 .. N |-> IF n = 0 THEN g.rows ELSE Step(n, a[n - 1])]
  BY <1>9, <1>11
<1> DEFINE linked[n \in 0 .. N] == IF n = 0 THEN g.rows ELSE Step(n, linked[n - 1])
<1>13. linked = [n \in 0 .. N |-> IF n = 0 THEN g.rows ELSE Step(n, linked[n - 1])]
  BY <1>12
<1>14. Linked(g, idx, neighbors) = linked[N]
  BY <1>2 DEF Linked, Step
<1>15. PICK b : b = linked
  OBVIOUS
<1> HIDE DEF linked
<1>16. ASSUME NEW n \in 0 .. N
       PROVE  b[n] = IF n = 0 THEN g.rows ELSE Step(n, b[n - 1])
  BY <1>13, <1>15
<1>17. PICK X : X = {n \in 0 .. N : b[n] \in S}
  OBVIOUS
<1>18. 0 \in X
  <2>1. 0 \in 0 .. N
    OBVIOUS
  <2> QED
    BY <1>8, <1>16, <1>17, <2>1
<1>19. ASSUME NEW n \in 0 .. N - 1, n \in X PROVE n + 1 \in X
  <2>1. b[n] \in S /\ n + 1 \in 0 .. N /\ n + 1 \in 1 .. N /\ n + 1 # 0 /\ n + 1 - 1 = n
    BY <1>17, <1>19
  <2>2. b[n + 1] = Step(n + 1, b[n])
    BY <1>16, <2>1
  <2> QED
    BY <1>5, <1>17, <2>1, <2>2
<1>20. N \in X
  <2>1. \A n \in 0 .. N : n \in X
    BY <1>17, <1>18, <1>19, UpTo
  <2> QED
    BY <2>1
<1> QED
  BY <1>1, <1>4, <1>14, <1>15, <1>17, <1>20

-----------------------------------------------------------------------------
(* VamanaIndex: the beam search. *)

\* What is on the heap, and the states of a search.
Entries(g) == [dist : Nat, node : 1 .. Len(g.nodes)]
BeamStates(g) == [open : SUBSET Entries(g), seen : SUBSET (1 .. Len(g.nodes)), found : Seq(Entries(g))]

LEMMA StartIs ==
  ASSUME NEW g, VamanaGraph(g), LiveNodes(g) # {}
  PROVE  Start(g) \in LiveNodes(g) /\ Start(g) \in 1 .. Len(g.nodes)
<1>1. LiveNodes(g) \subseteq 1 .. Len(g.nodes)
  BY GraphDistances DEF LiveNodes
<1>2. LiveNodes(g) \subseteq Nat
  BY <1>1
<1>3. \E i \in LiveNodes(g) : \A j \in LiveNodes(g) : i <= j
  BY <1>2, Least
<1>4. Start(g) \in LiveNodes(g)
  BY <1>3 DEF Start
<1> QED
  BY <1>1, <1>4

\* Something on the heap is popped.
LEMMA NearestIsOpen ==
  ASSUME NEW g, VamanaGraph(g), NEW open \in SUBSET Entries(g), open # {}
  PROVE  Nearest(open) \in open
<1>1. PICK T : T = {a.dist : a \in open}
  OBVIOUS
<1>2. T \subseteq Nat /\ T # {}
  BY <1>1 DEF Entries
<1>3. PICK d \in T : \A y \in T : d <= y
  BY <1>2, Least
<1>4. PICK U : U = {a.node : a \in {b \in open : b.dist = d}}
  OBVIOUS
<1>5. U \subseteq Nat /\ U # {}
  BY <1>1, <1>3, <1>4, GraphDistances DEF Entries
<1>6. PICK n \in U : \A y \in U : n <= y
  BY <1>5, Least
<1>7. PICK a \in open : a.dist = d /\ a.node = n
  BY <1>4, <1>6
<1>8. ASSUME NEW b \in open \ {a} PROVE Nearer(a, b)
  <2>1. a \in Entries(g) /\ b \in Entries(g) /\ b # a
    OBVIOUS
  <2>2. b.dist \in T /\ b.dist \in Nat /\ d \in Nat
    BY <1>1, <1>2, <2>1 DEF Entries
  <2>3. b.dist = d => b.node \in U /\ b.node \in Nat /\ n \in Nat /\ n <= b.node
    BY <1>4, <1>5, <1>6
  <2>4. b.dist = d => b.node # n
    BY <1>7, <2>1 DEF Entries
  <2>5. d <= b.dist
    BY <1>3, <2>2
  <2>6. CASE b.dist = d
    <3>1. n < b.node
      BY <2>3, <2>4, <2>6
    <3> QED
      BY <1>7, <2>6, <3>1 DEF Nearer
  <2>7. CASE b.dist # d
    <3>1. d < b.dist
      BY <2>2, <2>5, <2>7
    <3> QED
      BY <1>7, <3>1 DEF Nearer
  <2> QED
    BY <2>6, <2>7
<1> QED
  BY <1>7, <1>8 DEF Nearest

\* The neighbours measured are new ones; they are all of them if all have a vector.
LEMMA MeasuredIs ==
  ASSUME NEW g, VamanaGraph(g), NEW p \in Points, NEW new \in Seq(1 .. Len(g.nodes))
  PROVE  /\ Measured(g, p, new) \in SUBSET Entries(g)
         /\ \A e \in Measured(g, p, new) : e.node \in ToSet(new)
         /\ (\A i \in 1 .. Len(g.nodes) : HasPoint(g, i)) =>
              /\ \A e \in Measured(g, p, new) : e.dist = Metric[p][PointOf(g, e.node)]
              /\ \A i \in ToSet(new) : \E e \in Measured(g, p, new) : e.node = i
<1>1. PICK D : D = 1 .. Len(g.nodes)
  OBVIOUS
<1>2. PICK H : H = {i \in DOMAIN g.nodes : HasPoint(g, i)}
  OBVIOUS
<1>3. PICK k : k = Keeping(new, H)
  OBVIOUS
<1>4. k \in Seq(D \cap H) /\ Len(k) <= Len(new)
  BY <1>1, <1>3, KeepingIs DEF Kept
<1>5. DOMAIN g.nodes = D
  BY <1>1, GraphDistances
<1>6. \A i \in H : PointOf(g, i) \in Points
  BY <1>1, <1>2, <1>5, GraphDistances
<1>7. Measured(g, p, new) =
        {[dist |-> Metric[p][PointOf(g, k[n])], node |-> new[n]] : n \in 1 .. Len(k)}
  <2>1. DOMAIN k = 1 .. Len(k)
    BY <1>4
  <2> QED
    BY <1>2, <1>3, <2>1 DEF Measured
<1>8. ASSUME NEW n \in 1 .. Len(k)
      PROVE  Metric[p][PointOf(g, k[n])] \in Nat /\ new[n] \in D /\ new[n] \in ToSet(new)
  <2>1. k[n] \in H /\ n \in 1 .. Len(new)
    BY <1>4
  <2>2. new[n] \in D /\ new[n] \in ToSet(new)
    BY <1>1, <2>1 DEF ToSet
  <2>3. PointOf(g, k[n]) \in Points
    BY <1>6, <2>1
  <2> QED
    BY <2>2, <2>3, VamanaAssumption
<1>9. Measured(g, p, new) \in SUBSET Entries(g)
  BY <1>1, <1>7, <1>8 DEF Entries
<1>10. \A e \in Measured(g, p, new) : e.node \in ToSet(new)
  BY <1>7, <1>8
<1>11. ASSUME \A i \in 1 .. Len(g.nodes) : HasPoint(g, i)
       PROVE  /\ \A e \in Measured(g, p, new) : e.dist = Metric[p][PointOf(g, e.node)]
              /\ \A i \in ToSet(new) : \E e \in Measured(g, p, new) : e.node = i
  <2>1. H = D
    BY <1>1, <1>2, <1>5, <1>11
  <2>2. ToSet(new) \subseteq H
    BY <1>1, <2>1 DEF ToSet
  <2>3. k = new
    BY <1>1, <1>3, <2>2, KeepingSet
  <2>4. \A i \in ToSet(new) : \E n \in 1 .. Len(new) : new[n] = i
    BY DEF ToSet
  <2>5. Measured(g, p, new) =
          {[dist |-> Metric[p][PointOf(g, new[n])], node |-> new[n]] : n \in 1 .. Len(new)}
    BY <1>7, <2>3
  <2>6. \A e \in Measured(g, p, new) : e.dist = Metric[p][PointOf(g, e.node)]
    BY <2>5
  <2>7. ASSUME NEW n \in 1 .. Len(new) PROVE \E e \in Measured(g, p, new) : e.node = new[n]
    <3>1. PICK e : e = [dist |-> Metric[p][PointOf(g, new[n])], node |-> new[n]]
      OBVIOUS
    <3>2. e \in Measured(g, p, new) /\ e.node = new[n]
      BY <2>5, <3>1
    <3> QED
      BY <3>2
  <2> QED
    BY <2>4, <2>6, <2>7
<1> QED
  BY <1>9, <1>10, <1>11

\* A round: a is taken off the heap, all are the neighbours put there.
Round(g, p, st, t, a, new, all) ==
  /\ a = Nearest(st.open) /\ a \in st.open
  /\ new = Keeping(g.rows[a.node], DOMAIN g.nodes \ st.seen)
  /\ all = Measured(g, p, new)
  /\ t.open = IF new = <<>> THEN (st.open \ {a}) \cup all ELSE InBeam((st.open \ {a}) \cup all)
  /\ t.seen = st.seen \cup {b.node : b \in all}
  /\ t.found = Append(st.found, a)

LEMMA RoundIs ==
  ASSUME NEW g, VamanaGraph(g), NEW p \in Points, NEW st \in BeamStates(g), st.open # {}
  PROVE  /\ ExpandNode(g, p, st) \in BeamStates(g)
         /\ \E a \in Entries(g), new \in Seq(1 .. Len(g.nodes)), all \in SUBSET Entries(g) :
              /\ Round(g, p, st, ExpandNode(g, p, st), a, new, all)
              /\ g.rows[a.node] \in Seq(1 .. Len(g.nodes))
              /\ ToSet(new) = ToSet(g.rows[a.node]) \ st.seen
              /\ \A e \in all : e.node \in ToSet(new)
<1>1. PICK D : D = 1 .. Len(g.nodes)
  OBVIOUS
<1>2. PICK a : a = Nearest(st.open)
  OBVIOUS
<1>3. a \in st.open /\ a \in Entries(g)
  BY <1>2, NearestIsOpen DEF BeamStates
<1>4. g.rows[a.node] \in Seq(D)
  BY <1>1, <1>3 DEF Entries, VamanaGraph
<1>5. PICK new : new = Keeping(g.rows[a.node], DOMAIN g.nodes \ st.seen)
  OBVIOUS
<1>6. DOMAIN g.nodes = D
  BY <1>1, GraphDistances
<1>7. new \in Seq(D)
  <2>1. new \in Seq(D \cap (D \ st.seen))
    BY <1>4, <1>5, <1>6, KeepingIs
  <2> QED
    BY <2>1
<1>8. ToSet(new) = ToSet(g.rows[a.node]) \ st.seen
  <2>1. ToSet(new) = ToSet(g.rows[a.node]) \cap (D \ st.seen)
    BY <1>4, <1>5, <1>6, KeepingSet
  <2>2. ToSet(g.rows[a.node]) \subseteq D
    BY <1>4 DEF ToSet
  <2> QED
    BY <2>1, <2>2
<1>9. PICK all : all = Measured(g, p, new)
  OBVIOUS
<1>10. all \in SUBSET Entries(g) /\ \A e \in all : e.node \in ToSet(new)
  BY <1>1, <1>7, <1>9, MeasuredIs
<1>11. PICK t : t = ExpandNode(g, p, st)
  OBVIOUS
<1>12. t = [open |-> IF new = <<>> THEN (st.open \ {a}) \cup all ELSE InBeam((st.open \ {a}) \cup all),
            seen |-> st.seen \cup {b.node : b \in all}, found |-> Append(st.found, a)]
  BY <1>2, <1>5, <1>9, <1>11 DEF ExpandNode
<1>13. Round(g, p, st, t, a, new, all)
  BY <1>2, <1>3, <1>5, <1>9, <1>12 DEF Round
<1>14. t \in BeamStates(g)
  <2>1. InBeam((st.open \ {a}) \cup all) \subseteq (st.open \ {a}) \cup all
    BY DEF InBeam
  <2>2. st.open \subseteq Entries(g) /\ st.seen \subseteq D /\ st.found \in Seq(Entries(g))
    BY <1>1 DEF BeamStates
  <2>3. t.open \subseteq Entries(g)
    BY <1>10, <1>12, <2>1, <2>2
  <2>4. t.seen \subseteq D
    BY <1>1, <1>10, <1>12, <2>2 DEF Entries
  <2>5. t.found \in Seq(Entries(g))
    BY <1>3, <1>12, <2>2, AppendProperties
  <2> QED
    BY <1>1, <1>12, <2>3, <2>4, <2>5 DEF BeamStates
<1> QED
  BY <1>1, <1>3, <1>4, <1>7, <1>8, <1>10, <1>11, <1>13, <1>14

\* The entry a search begins with, and its states, one after the other.
First(g) == [dist |-> Distance(g, Start(g), Start(g)), node |-> Start(g)]

SearchRun(g, p, b) ==
  /\ b \in [0 .. Len(g.nodes) -> BeamStates(g)]
  /\ b[0] = [open |-> {First(g)}, seen |-> {Start(g)}, found |-> <<>>]
  /\ \A n \in 0 .. Len(g.nodes) - 1 :
       b[n + 1] = IF b[n].open = {} THEN b[n] ELSE ExpandNode(g, p, b[n])

LEMMA SearchRuns ==
  ASSUME NEW g, VamanaGraph(g), NEW p \in Points, LiveNodes(g) # {}
  PROVE  SearchRun(g, p, Searching(g, p))
<1>1. PICK N \in Nat : N = Len(g.nodes)
  BY GraphDistances
<1>2. PICK S : S = BeamStates(g)
  OBVIOUS
<1> DEFINE Step(st) == IF st.open = {} THEN st ELSE ExpandNode(g, p, st)
<1>3. ASSUME NEW st \in S PROVE Step(st) \in S
  BY <1>2, RoundIs
<1>4. PICK s0 : s0 = [open |-> {First(g)}, seen |-> {Start(g)}, found |-> <<>>]
  OBVIOUS
<1>5. s0 \in S
  <2>1. First(g) \in Entries(g) /\ Start(g) \in 1 .. Len(g.nodes)
    BY StartIs, GraphDistances DEF First, Entries
  <2> QED
    BY <1>2, <1>4, <2>1 DEF BeamStates
<1> HIDE DEF Step
<1>6. PICK F : F = [q \in (1 .. N) \X S |-> Step(q[2])]
  OBVIOUS
<1>7. F \in [(1 .. N) \X S -> S]
  BY <1>3, <1>6
<1>8. PICK a \in [0 .. N -> S] : RunsUp(a, N, s0, F)
  BY <1>5, <1>7, RunExists
<1>9. a = [k \in 0 .. N |-> IF k = 0 THEN s0 ELSE F[<<k, a[k - 1]>>]]
  BY <1>8 DEF RunsUp
<1>10. ASSUME NEW n \in 0 .. N PROVE a[n] = IF n = 0 THEN s0 ELSE Step(a[n - 1])
  <2>1. n # 0 => a[n - 1] \in S /\ n \in 1 .. N
    BY <1>8
  <2> QED
    BY <1>6, <1>9, <2>1
<1>11. a = [n \in 0 .. N |-> IF n = 0 THEN s0 ELSE Step(a[n - 1])]
  BY <1>8, <1>10
<1> DEFINE after[n \in 0 .. N] == IF n = 0 THEN s0 ELSE Step(after[n - 1])
<1>12. after = [n \in 0 .. N |-> IF n = 0 THEN s0 ELSE Step(after[n - 1])]
  BY <1>11
<1>13. Searching(g, p) = after
  BY <1>1, <1>4 DEF Searching, First, Step
<1>14. PICK b : b = after
  OBVIOUS
<1> HIDE DEF after
<1>15. DOMAIN b = 0 .. N /\ \A n \in 0 .. N : b[n] = IF n = 0 THEN s0 ELSE Step(b[n - 1])
  BY <1>12, <1>14
<1>16. PICK X : X = {n \in 0 .. N : b[n] \in S}
  OBVIOUS
<1>17. b[0] = s0 /\ 0 \in X
  <2>1. 0 \in 0 .. N
    OBVIOUS
  <2> QED
    BY <1>5, <1>15, <1>16, <2>1
<1>18. ASSUME NEW n \in 0 .. N - 1 PROVE b[n + 1] = Step(b[n])
  <2>1. PICK m \in 0 .. N : m = n + 1
    OBVIOUS
  <2>2. m # 0 /\ m - 1 = n
    BY <2>1
  <2> QED
    BY <1>15, <2>1, <2>2
<1>19. ASSUME NEW n \in 0 .. N - 1, n \in X PROVE n + 1 \in X
  <2>1. n + 1 \in 0 .. N /\ b[n] \in S
    BY <1>16, <1>19
  <2>2. b[n + 1] \in S
    BY <1>3, <1>18, <2>1
  <2> QED
    BY <1>16, <2>1, <2>2
<1>20. \A n \in 0 .. N : n \in X
  BY <1>16, <1>17, <1>19, UpTo
<1>21. b \in [0 .. N -> S]
  <2>1. b = [n \in 0 .. N |-> b[n]]
    BY <1>12, <1>14
  <2>2. \A n \in 0 .. N : b[n] \in S
    BY <1>16, <1>20
  <2> QED
    BY <2>1, <2>2
<1>22. \A n \in 0 .. N - 1 : b[n + 1] = IF b[n].open = {} THEN b[n] ELSE ExpandNode(g, p, b[n])
  BY <1>18 DEF Step
<1> QED
  BY <1>1, <1>2, <1>4, <1>13, <1>14, <1>17, <1>21, <1>22 DEF SearchRun

\* What a search can reach from a node in n steps along rows.
Reaches(g, i, W) ==
  /\ W \in [0 .. Len(g.nodes) -> SUBSET (1 .. Len(g.nodes))] /\ W[0] = {i}
  /\ \A n \in 0 .. Len(g.nodes) - 1 :
       W[n + 1] = W[n] \cup UNION {ToSet(g.rows[j]) : j \in W[n]}

LEMMA ReachIs ==
  ASSUME VamanaGraph(Graph), NEW i \in 1 .. Len(nodes)
  PROVE  \E W : Reaches(Graph, i, W) /\ Reach(i) = W[Len(nodes)]
<1>1. PICK N \in Nat : N = Len(nodes)
  BY GraphDistances DEF Graph
<1>2. PICK S : S = SUBSET (1 .. N)
  OBVIOUS
<1> DEFINE Step(X) == X \cup UNION {ToSet(rows[j]) : j \in X}
<1>3. ASSUME NEW X \in S PROVE Step(X) \in S
  <2>1. ASSUME NEW j \in X PROVE ToSet(rows[j]) \subseteq 1 .. N
    <3>1. rows[j] \in Seq(1 .. N)
      BY <1>1, <1>2, <1>3 DEF VamanaGraph, Graph
    <3> QED
      BY <3>1 DEF ToSet
  <2> QED
    BY <1>2, <1>3, <2>1
<1> HIDE DEF Step
<1>4. {i} \in S
  BY <1>1, <1>2
<1>6. PICK F : F = [q \in (1 .. N) \X S |-> Step(q[2])]
  OBVIOUS
<1>7. F \in [(1 .. N) \X S -> S]
  BY <1>3, <1>6
<1>8. PICK a \in [0 .. N -> S] : RunsUp(a, N, {i}, F)
  BY <1>4, <1>7, RunExists
<1>9. a = [k \in 0 .. N |-> IF k = 0 THEN {i} ELSE F[<<k, a[k - 1]>>]]
  BY <1>8 DEF RunsUp
<1>10. ASSUME NEW n \in 0 .. N PROVE a[n] = IF n = 0 THEN {i} ELSE Step(a[n - 1])
  <2>1. n # 0 => a[n - 1] \in S /\ n \in 1 .. N
    BY <1>8
  <2> QED
    BY <1>6, <1>9, <2>1
<1>11. a = [n \in 0 .. N |-> IF n = 0 THEN {i} ELSE Step(a[n - 1])]
  BY <1>8, <1>10
<1> DEFINE within[n \in 0 .. N] == IF n = 0 THEN {i} ELSE Step(within[n - 1])
<1>12. within = [n \in 0 .. N |-> IF n = 0 THEN {i} ELSE Step(within[n - 1])]
  BY <1>11
<1>13. Reach(i) = within[N]
  BY <1>1 DEF Reach, Step
<1>14. PICK b : b = within
  OBVIOUS
<1> HIDE DEF within
<1>15. DOMAIN b = 0 .. N /\ \A n \in 0 .. N : b[n] = IF n = 0 THEN {i} ELSE Step(b[n - 1])
  BY <1>12, <1>14
<1>16. PICK X : X = {n \in 0 .. N : b[n] \in S}
  OBVIOUS
<1>17. b[0] = {i} /\ 0 \in X
  <2>1. 0 \in 0 .. N
    OBVIOUS
  <2> QED
    BY <1>4, <1>15, <1>16, <2>1
<1>18. ASSUME NEW n \in 0 .. N - 1 PROVE b[n + 1] = Step(b[n])
  <2>1. PICK m \in 0 .. N : m = n + 1
    OBVIOUS
  <2>2. m # 0 /\ m - 1 = n
    BY <2>1
  <2> QED
    BY <1>15, <2>1, <2>2
<1>19. ASSUME NEW n \in 0 .. N - 1, n \in X PROVE n + 1 \in X
  <2>1. n + 1 \in 0 .. N /\ b[n] \in S
    BY <1>16, <1>19
  <2>2. b[n + 1] \in S
    BY <1>3, <1>18, <2>1
  <2> QED
    BY <1>16, <2>1, <2>2
<1>20. \A n \in 0 .. N : n \in X
  BY <1>16, <1>17, <1>19, UpTo
<1>21. b \in [0 .. N -> S]
  <2>1. b = [n \in 0 .. N |-> b[n]]
    BY <1>12, <1>14
  <2>2. \A n \in 0 .. N : b[n] \in S
    BY <1>16, <1>20
  <2> QED
    BY <2>1, <2>2
<1>22. Graph.nodes = nodes /\ Graph.rows = rows
  BY DEF Graph
<1>23. ASSUME NEW n \in 0 .. N - 1
       PROVE  b[n + 1] = b[n] \cup UNION {ToSet(Graph.rows[j]) : j \in b[n]}
  <2>1. b[n + 1] = b[n] \cup UNION {ToSet(rows[j]) : j \in b[n]}
    BY <1>18 DEF Step
  <2> QED
    BY <1>22, <2>1
<1>24. Reaches(Graph, i, b)
  BY <1>1, <1>2, <1>17, <1>21, <1>22, <1>23 DEF Reaches
<1> QED
  BY <1>1, <1>13, <1>14, <1>24

\* What a search has seen after n rounds was reached in n steps, and the start was popped first.
Seen(g, W, n, st) ==
  /\ st.seen \subseteq W[n]
  /\ \A e \in st.open : e.node \in st.seen
  /\ \A i \in 1 .. Len(st.found) : st.found[i].node \in st.seen
  /\ Len(st.found) <= n
  /\ n = 0 => st.open = {First(g)}
  /\ n > 0 => Len(st.found) > 0 /\ st.found[1] = First(g)

LEMMA SeenNext ==
  ASSUME NEW g, VamanaGraph(g), NEW p \in Points, NEW W, NEW i, Reaches(g, i, W),
         NEW n \in 0 .. Len(g.nodes) - 1, NEW st \in BeamStates(g), Seen(g, W, n, st),
         NEW t, t = IF st.open = {} THEN st ELSE ExpandNode(g, p, st)
  PROVE  Seen(g, W, n + 1, t)
<1>1. W[n + 1] = W[n] \cup UNION {ToSet(g.rows[j]) : j \in W[n]}
  BY DEF Reaches
<1>2. CASE st.open = {}
  <2>1. n > 0
    BY <1>2 DEF Seen
  <2>2. t = st /\ st.seen \subseteq W[n + 1] /\ Len(st.found) \in Nat
    BY <1>1, <1>2 DEF Seen, BeamStates
  <2> QED
    BY <1>2, <2>1, <2>2 DEF Seen
<1>3. CASE st.open # {}
  <2>1. PICK a \in Entries(g), new \in Seq(1 .. Len(g.nodes)), all \in SUBSET Entries(g) :
          /\ Round(g, p, st, t, a, new, all)
          /\ ToSet(new) = ToSet(g.rows[a.node]) \ st.seen
          /\ \A e \in all : e.node \in ToSet(new)
    BY <1>3, RoundIs
  <2>2. a \in st.open /\ a.node \in W[n]
    BY <2>1 DEF Round, Seen
  <2>3. t.seen \subseteq W[n + 1]
    <3>1. \A e \in all : e.node \in ToSet(g.rows[a.node])
      BY <2>1
    <3>2. t.seen = st.seen \cup {b.node : b \in all} /\ st.seen \subseteq W[n]
      BY <2>1 DEF Round, Seen
    <3> QED
      BY <1>1, <2>2, <3>1, <3>2
  <2>4. \A e \in t.open : e.node \in t.seen
    <3>1. t.open \subseteq st.open \cup all
      BY <2>1 DEF Round, InBeam
    <3>2. t.seen = st.seen \cup {b.node : b \in all} /\ \A e \in st.open : e.node \in st.seen
      BY <2>1 DEF Round, Seen
    <3> QED
      BY <3>1, <3>2
  <2>5. /\ Len(t.found) = Len(st.found) + 1 /\ Len(st.found) \in Nat
        /\ t.found[Len(st.found) + 1] = a
        /\ \A k \in 1 .. Len(st.found) : t.found[k] = st.found[k]
    <3>1. t.found = Append(st.found, a) /\ st.found \in Seq(Entries(g))
      BY <2>1 DEF Round, BeamStates
    <3> QED
      BY <3>1
  <2>6. \A k \in 1 .. Len(t.found) : t.found[k].node \in t.seen
    <3> SUFFICES ASSUME NEW k \in 1 .. Len(t.found) PROVE t.found[k].node \in t.seen
      OBVIOUS
    <3>1. k \in 1 .. Len(st.found) \/ k = Len(st.found) + 1
      BY <2>5
    <3>2. st.seen \subseteq t.seen /\ a.node \in st.seen
      BY <2>1, <2>2 DEF Round, Seen
    <3>3. k \in 1 .. Len(st.found) => st.found[k].node \in st.seen
      BY DEF Seen
    <3> QED
      BY <2>5, <3>1, <3>2, <3>3
  <2>7. Len(t.found) <= n + 1
    BY <2>5 DEF Seen
  <2>8. t.found[1] = First(g)
    <3>1. CASE n = 0
      <4>1. a = First(g) /\ Len(st.found) = 0
        BY <2>2, <2>5, <3>1 DEF Seen
      <4> QED
        BY <2>5, <4>1
    <3>2. CASE n > 0
      <4>1. Len(st.found) > 0 /\ st.found[1] = First(g)
        BY <3>2 DEF Seen
      <4>2. 1 \in 1 .. Len(st.found)
        BY <2>5, <4>1
      <4> QED
        BY <2>5, <4>1, <4>2
    <3> QED
      BY <3>1, <3>2
  <2>9. Len(t.found) > 0
    BY <2>5
  <2> QED
    BY <2>3, <2>4, <2>6, <2>7, <2>8, <2>9 DEF Seen
<1> QED
  BY <1>2, <1>3

\* What a search finds was reached, the start first.
LEMMA SearchFinds ==
  ASSUME NEW g, VamanaGraph(g), NEW p \in Points, LiveNodes(g) # {}, NEW W,
         Reaches(g, Start(g), W), NEW b, SearchRun(g, p, b)
  PROVE  \A n \in 0 .. Len(g.nodes) : Seen(g, W, n, b[n])
<1>1. PICK N \in Nat : N = Len(g.nodes)
  BY GraphDistances
<1>2. PICK X : X = {n \in 0 .. N : Seen(g, W, n, b[n])}
  OBVIOUS
<1>3. 0 \in X
  <2>1. b[0] = [open |-> {First(g)}, seen |-> {Start(g)}, found |-> <<>>] /\ W[0] = {Start(g)}
    BY DEF SearchRun, Reaches
  <2>2. Seen(g, W, 0, b[0])
    BY <2>1 DEF Seen, First
  <2> QED
    BY <1>2, <2>2
<1>4. ASSUME NEW n \in 0 .. N - 1, n \in X PROVE n + 1 \in X
  <2>1. /\ b[n] \in BeamStates(g) /\ Seen(g, W, n, b[n]) /\ n + 1 \in 0 .. N
        /\ b[n + 1] = IF b[n].open = {} THEN b[n] ELSE ExpandNode(g, p, b[n])
    BY <1>1, <1>2, <1>4 DEF SearchRun
  <2>2. Seen(g, W, n + 1, b[n + 1])
    BY <1>1, <2>1, SeenNext
  <2> QED
    BY <1>2, <2>1, <2>2
<1>5. \A n \in 0 .. N : n \in X
  BY <1>2, <1>3, <1>4, UpTo
<1> QED
  BY <1>1, <1>2, <1>5

-----------------------------------------------------------------------------
(* VamanaIndex: with a beam as wide as the graph and every vector kept, nothing is lost. *)

Wide(g) == BeamWidth >= Len(g.nodes) /\ \A i \in 1 .. Len(g.nodes) : HasPoint(g, i)

\* The nodes seen are on the heap or found, each once, and those found have been expanded.
Thorough(g, p, n, st) ==
  /\ Start(g) \in st.seen
  /\ \A j \in st.seen : (\E e \in st.open : e.node = j) \/ \E i \in 1 .. Len(st.found) : st.found[i].node = j
  /\ \A e, h \in st.open : e.node = h.node => e = h
  /\ \A e \in st.open : e.node \in st.seen
  /\ \A i \in 1 .. Len(st.found) : st.found[i].node \in st.seen
  /\ \A e \in st.open : \A i \in 1 .. Len(st.found) : st.found[i].node # e.node
  /\ \A i, j \in 1 .. Len(st.found) : i # j => st.found[i].node # st.found[j].node
  /\ \A i \in 1 .. Len(st.found) : ToSet(g.rows[st.found[i].node]) \subseteq st.seen
  /\ \A e \in st.open : e.node # Start(g) => e.dist = Metric[p][PointOf(g, e.node)]
  /\ \A i \in 1 .. Len(st.found) : st.found[i].node # Start(g) =>
       st.found[i].dist = Metric[p][PointOf(g, st.found[i].node)]
  /\ st.open # {} => Len(st.found) = n

\* No candidate falls out of a beam that has room for every node.
LEMMA BeamKeepsAll ==
  ASSUME NEW g, VamanaGraph(g), BeamWidth >= Len(g.nodes), NEW open \in SUBSET Entries(g),
         \A e, h \in open : e.node = h.node => e = h
  PROVE  InBeam(open) = open
<1>1. PICK N \in Nat : N = Len(g.nodes)
  BY GraphDistances
<1>2. IsFiniteSet(1 .. N) /\ Cardinality(1 .. N) = N
  BY FS_Interval
<1>3. PICK f : f = [e \in open |-> e.node]
  OBVIOUS
<1>4. f \in Injection(open, 1 .. N)
  BY <1>1, <1>3 DEF Entries, Injection, IsInjective
<1>5. IsFiniteSet(open) /\ Cardinality(open) <= N /\ Cardinality(open) \in Nat
  BY <1>2, <1>4, FS_Injection, FS_CardinalityType
<1>6. ASSUME NEW a \in open PROVE Cardinality({b \in open : Nearer(a, b)}) < BeamWidth
  <2>1. a.dist \in Nat /\ a.node \in Nat
    BY <1>1 DEF Entries
  <2>2. ~ Nearer(a, a)
    BY <2>1 DEF Nearer
  <2>3. PICK B : B = {b \in open : Nearer(a, b)}
    OBVIOUS
  <2>4. B \subseteq open /\ B # open
    BY <2>2, <2>3
  <2>5. Cardinality(B) <= Cardinality(open) /\ Cardinality(B) # Cardinality(open)
        /\ Cardinality(B) \in Nat
    BY <1>5, <2>4, FS_Subset, FS_CardinalityType
  <2> QED
    BY <1>1, <1>5, <2>3, <2>5, VamanaAssumption
<1> DEFINE Few(a) == Cardinality({b \in open : Nearer(a, b)}) < BeamWidth
<1>7. InBeam(open) = {a \in open : Few(a)}
  BY Zenon DEF InBeam
<1>8. \A a \in open : Few(a)
  BY <1>6
<1> HIDE DEF Few
<1> QED
  BY <1>7, <1>8

LEMMA ThoroughNext ==
  ASSUME NEW g, VamanaGraph(g), Wide(g), NEW p \in Points,
         NEW n \in 0 .. Len(g.nodes) - 1, NEW st \in BeamStates(g), Thorough(g, p, n, st),
         NEW t, t = IF st.open = {} THEN st ELSE ExpandNode(g, p, st)
  PROVE  Thorough(g, p, n + 1, t)
<1>1. CASE st.open = {}
  BY <1>1 DEF Thorough
<1>2. CASE st.open # {}
  <2>1. PICK a \in Entries(g), new \in Seq(1 .. Len(g.nodes)), all \in SUBSET Entries(g) :
          /\ Round(g, p, st, t, a, new, all)
          /\ ToSet(new) = ToSet(g.rows[a.node]) \ st.seen
          /\ \A e \in all : e.node \in ToSet(new)
    BY <1>2, RoundIs
  <2>2. /\ all = Measured(g, p, new)
        /\ a \in st.open
        /\ t.open = IF new = <<>> THEN (st.open \ {a}) \cup all ELSE InBeam((st.open \ {a}) \cup all)
        /\ t.seen = st.seen \cup {b.node : b \in all}
        /\ t.found = Append(st.found, a)
    BY <2>1 DEF Round
  <2>3. /\ \A e \in all : e.dist = Metric[p][PointOf(g, e.node)]
        /\ \A i \in ToSet(new) : \E e \in all : e.node = i
    BY <2>2, MeasuredIs DEF Wide
  <2>4. \A e \in all : e.node \notin st.seen
    BY <2>1
  <2>5. \A e \in st.open : e.node \in st.seen
    BY DEF Thorough
  <2>6. \A e, h \in (st.open \ {a}) \cup all : e.node = h.node => e = h
    <3> SUFFICES ASSUME NEW e \in (st.open \ {a}) \cup all, NEW h \in (st.open \ {a}) \cup all,
                        e.node = h.node
                 PROVE  e = h
      OBVIOUS
    <3>1. CASE e \in all /\ h \in all
      <4>1. e.dist = h.dist /\ e \in Entries(g) /\ h \in Entries(g)
        BY <2>3, <3>1
      <4>2. e = [dist |-> e.dist, node |-> e.node] /\ h = [dist |-> h.dist, node |-> h.node]
        BY ONLY <4>1 DEF Entries
      <4> QED
        BY ONLY <4>1, <4>2, e.node = h.node
    <3>2. CASE e \in st.open /\ h \in st.open
      BY <3>2 DEF Thorough
    <3> QED
      BY <2>4, <2>5, <3>1, <3>2
  <2>7. t.open = (st.open \ {a}) \cup all
    <3>1. (st.open \ {a}) \cup all \in SUBSET Entries(g)
      BY DEF BeamStates
    <3>2. InBeam((st.open \ {a}) \cup all) = (st.open \ {a}) \cup all
      BY <2>6, <3>1, BeamKeepsAll DEF Wide
    <3> QED
      BY <2>2, <3>2
  <2>8. /\ Len(t.found) = Len(st.found) + 1 /\ Len(st.found) \in Nat
        /\ t.found[Len(st.found) + 1] = a
        /\ \A k \in 1 .. Len(st.found) : t.found[k] = st.found[k]
    <3>1. st.found \in Seq(Entries(g))
      BY DEF BeamStates
    <3> QED
      BY <2>2, <3>1
  <2>9. \A k \in 1 .. Len(t.found) : k \in 1 .. Len(st.found) \/ k = Len(st.found) + 1
    BY <2>8
  <2>10. Len(st.found) + 1 \in 1 .. Len(t.found) /\ \A k \in 1 .. Len(st.found) : k \in 1 .. Len(t.found)
    BY <2>8
  <2>11. st.seen \subseteq t.seen /\ a.node \in st.seen
    BY <2>2, <2>5
  <2>12. Start(g) \in t.seen
    BY <2>11 DEF Thorough
  <2>13. \A j \in t.seen :
           (\E e \in t.open : e.node = j) \/ \E i \in 1 .. Len(t.found) : t.found[i].node = j
    <3> SUFFICES ASSUME NEW j \in t.seen
                 PROVE  \/ \E e \in t.open : e.node = j
                        \/ \E i \in 1 .. Len(t.found) : t.found[i].node = j
      OBVIOUS
    <3>1. CASE j \in st.seen
      <4>1. (\E e \in st.open : e.node = j) \/ \E i \in 1 .. Len(st.found) : st.found[i].node = j
        BY <3>1 DEF Thorough
      <4>2. CASE \E i \in 1 .. Len(st.found) : st.found[i].node = j
        BY <2>8, <2>10, <4>2
      <4>3. CASE \E e \in st.open : e.node = j
        <5>1. PICK e \in st.open : e.node = j
          BY <4>3
        <5>2. e = a => \E i \in 1 .. Len(t.found) : t.found[i].node = j
          BY <2>8, <2>10, <5>1
        <5>3. e # a => e \in t.open
          BY <2>7, <5>1
        <5> QED
          BY <5>1, <5>2, <5>3
      <4> QED
        BY <4>1, <4>2, <4>3
    <3>2. CASE j \notin st.seen
      <4>1. \E e \in all : e.node = j
        BY <2>2, <3>2
      <4> QED
        BY <2>7, <4>1
    <3> QED
      BY <3>1, <3>2
  <2>14. \A e, h \in t.open : e.node = h.node => e = h
    BY <2>6, <2>7
  <2>15. \A e \in t.open : e.node \in t.seen
    BY <2>2, <2>5, <2>7
  <2>16. \A i \in 1 .. Len(st.found) : st.found[i].node \in st.seen
    BY DEF Thorough
  <2>17. \A i \in 1 .. Len(t.found) : t.found[i].node \in t.seen
    <3> SUFFICES ASSUME NEW i \in 1 .. Len(t.found) PROVE t.found[i].node \in t.seen
      OBVIOUS
    <3> QED
      BY <2>8, <2>9, <2>11, <2>16
  <2>18. \A i \in 1 .. Len(st.found) : st.found[i].node # a.node
    BY <2>2 DEF Thorough
  <2>19. \A e \in t.open : \A i \in 1 .. Len(t.found) : t.found[i].node # e.node
    <3> SUFFICES ASSUME NEW e \in t.open, NEW i \in 1 .. Len(t.found) PROVE t.found[i].node # e.node
      OBVIOUS
    <3>1. e \in st.open \ {a} \/ e \in all
      BY <2>7
    <3>2. CASE i = Len(st.found) + 1
      <4>1. t.found[i].node = a.node
        BY <2>8, <3>2
      <4>2. e \in st.open \ {a} => e.node # a.node
        BY <2>2 DEF Thorough
      <4> QED
        BY <2>4, <2>11, <3>1, <4>1, <4>2
    <3>3. CASE i \in 1 .. Len(st.found)
      <4>1. t.found[i].node = st.found[i].node /\ st.found[i].node \in st.seen
        BY <2>8, <2>16, <3>3
      <4>2. e \in st.open => e.node # st.found[i].node
        BY <3>3 DEF Thorough
      <4> QED
        BY <2>4, <3>1, <4>1, <4>2
    <3> QED
      BY <2>9, <3>2, <3>3
  <2>20. \A i, j \in 1 .. Len(t.found) : i # j => t.found[i].node # t.found[j].node
    <3> SUFFICES ASSUME NEW i \in 1 .. Len(t.found), NEW j \in 1 .. Len(t.found), i # j
                 PROVE  t.found[i].node # t.found[j].node
      OBVIOUS
    <3>1. CASE i \in 1 .. Len(st.found) /\ j \in 1 .. Len(st.found)
      <4>1. st.found[i].node # st.found[j].node
        BY <3>1 DEF Thorough
      <4> QED
        BY <2>8, <3>1, <4>1
    <3>2. CASE i = Len(st.found) + 1 /\ j \in 1 .. Len(st.found)
      BY <2>8, <2>18, <3>2
    <3>3. CASE j = Len(st.found) + 1 /\ i \in 1 .. Len(st.found)
      BY <2>8, <2>18, <3>3
    <3> QED
      BY <2>9, <3>1, <3>2, <3>3
  <2>21. \A i \in 1 .. Len(t.found) : ToSet(g.rows[t.found[i].node]) \subseteq t.seen
    <3> SUFFICES ASSUME NEW i \in 1 .. Len(t.found) PROVE ToSet(g.rows[t.found[i].node]) \subseteq t.seen
      OBVIOUS
    <3>1. CASE i = Len(st.found) + 1
      <4>1. t.found[i] = a
        BY <2>8, <3>1
      <4>2. ToSet(g.rows[a.node]) \subseteq st.seen \cup ToSet(new)
        BY <2>1
      <4>3. ToSet(new) \subseteq t.seen
        BY <2>2, <2>3
      <4> QED
        BY <2>11, <4>1, <4>2, <4>3
    <3>2. CASE i \in 1 .. Len(st.found)
      <4>1. ToSet(g.rows[st.found[i].node]) \subseteq st.seen /\ t.found[i] = st.found[i]
        BY <2>8, <3>2 DEF Thorough
      <4> QED
        BY <2>11, <4>1
    <3> QED
      BY <2>9, <3>1, <3>2
  <2>22. \A e \in t.open : e.node # Start(g) => e.dist = Metric[p][PointOf(g, e.node)]
    BY <2>3, <2>7 DEF Thorough
  <2>23. \A i \in 1 .. Len(t.found) : t.found[i].node # Start(g) =>
           t.found[i].dist = Metric[p][PointOf(g, t.found[i].node)]
    <3> SUFFICES ASSUME NEW i \in 1 .. Len(t.found), t.found[i].node # Start(g)
                 PROVE  t.found[i].dist = Metric[p][PointOf(g, t.found[i].node)]
      OBVIOUS
    <3>1. a.node # Start(g) => a.dist = Metric[p][PointOf(g, a.node)]
      BY <2>2 DEF Thorough
    <3>2. i \in 1 .. Len(st.found) => st.found[i] = t.found[i]
      BY <2>8
    <3>3. i \in 1 .. Len(st.found) => t.found[i].dist = Metric[p][PointOf(g, t.found[i].node)]
      BY <3>2 DEF Thorough
    <3> QED
      BY <2>8, <2>9, <3>1, <3>3
  <2>24. Len(t.found) = n + 1
    BY <1>2, <2>8 DEF Thorough
  <2> QED
    BY <2>12, <2>13, <2>14, <2>15, <2>17, <2>19, <2>20, <2>21, <2>22, <2>23, <2>24 DEF Thorough
<1> QED
  BY <1>1, <1>2

\* What has been found is what can be reached, each node once and at its distance.
FoundAll(g, p, W, found) ==
  /\ \A i, j \in 1 .. Len(found) : i # j => found[i].node # found[j].node
  /\ \A i \in 1 .. Len(found) : found[i].node # Start(g) =>
       found[i].dist = Metric[p][PointOf(g, found[i].node)]
  /\ \A j \in W[Len(g.nodes)] : \E i \in 1 .. Len(found) : found[i].node = j

\* Such a search ends with an empty heap: it has found all.
LEMMA SearchFindsAll ==
  ASSUME NEW g, VamanaGraph(g), Wide(g), NEW p \in Points, LiveNodes(g) # {}, NEW W,
         Reaches(g, Start(g), W), NEW b, SearchRun(g, p, b),
         NEW found, found = b[Len(g.nodes)].found
  PROVE  FoundAll(g, p, W, found)
<1>1. PICK N \in Nat : N = Len(g.nodes)
  BY GraphDistances
<1>2. PICK X : X = {n \in 0 .. N : Thorough(g, p, n, b[n])}
  OBVIOUS
<1>3. 0 \in X
  <2>1. b[0] = [open |-> {First(g)}, seen |-> {Start(g)}, found |-> <<>>]
    BY DEF SearchRun
  <2>2. PICK s0 : s0 = b[0]
    OBVIOUS
  <2>3. s0.open = {First(g)} /\ s0.seen = {Start(g)} /\ Len(s0.found) = 0 /\ First(g).node = Start(g)
    BY <2>1, <2>2 DEF First
  <2>4. Thorough(g, p, 0, s0)
    BY <2>3 DEF Thorough
  <2> QED
    BY <1>2, <2>2, <2>4
<1>4. ASSUME NEW n \in 0 .. N - 1, n \in X PROVE n + 1 \in X
  <2>1. /\ b[n] \in BeamStates(g) /\ Thorough(g, p, n, b[n]) /\ n + 1 \in 0 .. N
        /\ b[n + 1] = IF b[n].open = {} THEN b[n] ELSE ExpandNode(g, p, b[n])
    BY <1>1, <1>2, <1>4 DEF SearchRun
  <2>2. Thorough(g, p, n + 1, b[n + 1])
    BY <1>1, <2>1, ThoroughNext
  <2> QED
    BY <1>2, <2>1, <2>2
<1>5. \A n \in 0 .. N : n \in X
  BY <1>2, <1>3, <1>4, UpTo
<1>6. PICK st : st = b[N]
  OBVIOUS
<1>7. Thorough(g, p, N, st) /\ st \in BeamStates(g) /\ st.found = found
  BY <1>1, <1>2, <1>5, <1>6 DEF SearchRun
<1>8. found \in Seq(Entries(g)) /\ st.open \subseteq Entries(g)
  BY <1>7 DEF BeamStates
<1>9. ASSUME NEW i \in 1 .. Len(found) PROVE found[i].node \in 1 .. N
  <2>1. found[i] \in Entries(g)
    BY <1>8
  <2> QED
    BY <1>1, <2>1 DEF Entries
<1>10. \A i, j \in 1 .. Len(found) : i # j => found[i].node # found[j].node
  BY <1>7 DEF Thorough
<1>11. ASSUME st.open # {} PROVE FALSE
  <2>1. PICK e \in st.open : TRUE
    BY <1>11
  <2>2. e.node \in 1 .. N /\ \A i \in 1 .. Len(found) : found[i].node # e.node
    BY <1>1, <1>7, <1>8 DEF Entries, Thorough
  <2>3. Len(found) = N
    BY <1>7, <1>11 DEF Thorough
  <2>4. PICK f : f = [i \in 1 .. N |-> found[i].node]
    OBVIOUS
  <2>5. f \in [1 .. N -> 1 .. N]
    BY <1>9, <2>3, <2>4
  <2>6. f \in Injection(1 .. N, 1 .. N)
    BY <1>10, <2>3, <2>4, <2>5 DEF Injection, IsInjective
  <2>7. IsFiniteSet(1 .. N)
    BY FS_Interval
  <2>8. f \in Surjection(1 .. N, 1 .. N)
    BY <2>6, <2>7, FS_Injection
  <2>9. \E i \in 1 .. N : f[i] = e.node
    BY <2>2, <2>8, Fun_SurjectionProperties DEF Surjection
  <2> QED
    BY <2>2, <2>3, <2>4, <2>9
<1>12. \A j \in st.seen : \E i \in 1 .. Len(found) : found[i].node = j
  BY <1>7, <1>11 DEF Thorough
<1>13. ASSUME NEW j \in st.seen PROVE ToSet(g.rows[j]) \subseteq st.seen
  <2>1. PICK i \in 1 .. Len(found) : found[i].node = j
    BY <1>12
  <2>2. ToSet(g.rows[st.found[i].node]) \subseteq st.seen
    BY <1>7 DEF Thorough
  <2> QED
    BY <1>7, <2>1, <2>2
<1>14. PICK Y : Y = {n \in 0 .. N : W[n] \subseteq st.seen}
  OBVIOUS
<1>15. 0 \in Y
  <2>1. W[0] = {Start(g)} /\ Start(g) \in st.seen
    BY <1>7 DEF Reaches, Thorough
  <2> QED
    BY <1>14, <2>1
<1>16. ASSUME NEW n \in 0 .. N - 1, n \in Y PROVE n + 1 \in Y
  <2>1. W[n + 1] = W[n] \cup UNION {ToSet(g.rows[j]) : j \in W[n]} /\ W[n] \subseteq st.seen
    BY <1>1, <1>14, <1>16 DEF Reaches
  <2>2. W[n + 1] \subseteq st.seen
    BY <1>13, <2>1
  <2> QED
    BY <1>14, <2>2
<1>17. W[N] \subseteq st.seen
  <2>1. \A n \in 0 .. N : n \in Y
    BY <1>14, <1>15, <1>16, UpTo
  <2> QED
    BY <1>14, <2>1
<1>18. \A i \in 1 .. Len(found) : found[i].node # Start(g) =>
         found[i].dist = Metric[p][PointOf(g, found[i].node)]
  BY <1>7 DEF Thorough
<1>19. \A j \in W[Len(g.nodes)] : \E i \in 1 .. Len(found) : found[i].node = j
  BY <1>1, <1>12, <1>17
<1> QED
  BY <1>10, <1>18, <1>19 DEF FoundAll

DistsOf(found) == [n \in 1 .. Len(found) |-> found[n].dist]

\* The nodes a search returns are those found, rearranged.
LEMMA BeamIs ==
  ASSUME NEW g, VamanaGraph(g), NEW p \in Points, LiveNodes(g) # {},
         NEW found, found = Searching(g, p)[Len(g.nodes)].found
  PROVE  /\ found \in Seq(Entries(g))
         /\ SearchBeam(g, p) \in Seq(1 .. Len(g.nodes)) /\ Len(SearchBeam(g, p)) = Len(found)
         /\ \E f : /\ Sorts(found, DistsOf(found), f)
                   /\ \A n \in 1 .. Len(found) : SearchBeam(g, p)[n] = found[f[n]].node
<1>1. found \in Seq(Entries(g))
  <2>1. SearchRun(g, p, Searching(g, p)) /\ Len(g.nodes) \in 0 .. Len(g.nodes)
    BY SearchRuns, GraphDistances
  <2>2. Searching(g, p)[Len(g.nodes)] \in BeamStates(g)
    BY <2>1 DEF SearchRun
  <2> QED
    BY <2>2 DEF BeamStates
<1>2. PICK key : key = DistsOf(found)
  OBVIOUS
<1>3. key \in [1 .. Len(found) -> Int]
  <2>1. ASSUME NEW n \in 1 .. Len(found) PROVE found[n].dist \in Int
    <3>1. found[n] \in Entries(g)
      BY <1>1
    <3> QED
      BY <3>1 DEF Entries
  <2> QED
    BY <1>2, <2>1 DEF DistsOf
<1>4. PICK t : t = SortedBy(found, key)
  OBVIOUS
<1>5. t \in Seq(Entries(g)) /\ Len(t) = Len(found)
  BY <1>1, <1>3, <1>4, SortedIs
<1>6. PICK f : Sorts(found, key, f) /\ \A n \in 1 .. Len(found) : t[n] = found[f[n]]
  BY <1>1, <1>3, <1>4, SortedIs
<1>7. SearchBeam(g, p) = [n \in 1 .. Len(found) |-> t[n].node]
  <2>1. DOMAIN found = 1 .. Len(found)
    BY <1>1
  <2>2. key = [n \in DOMAIN found |-> found[n].dist]
    BY <1>2, <2>1 DEF DistsOf
  <2> QED
    BY <1>4, <2>2 DEF SearchBeam
<1>8. ASSUME NEW n \in 1 .. Len(found) PROVE t[n].node \in 1 .. Len(g.nodes)
  <2>1. t[n] \in Entries(g)
    BY <1>5
  <2> QED
    BY <2>1 DEF Entries
<1>9. SearchBeam(g, p) \in Seq(1 .. Len(g.nodes)) /\ Len(SearchBeam(g, p)) = Len(found)
  BY <1>1, <1>7, <1>8
<1>10. \A n \in 1 .. Len(found) : SearchBeam(g, p)[n] = found[f[n]].node
  BY <1>6, <1>7
<1> QED
  BY <1>1, <1>2, <1>6, <1>9, <1>10

LEMMA BeamTypes ==
  ASSUME NEW g, VamanaGraph(g), NEW p \in Points
  PROVE  SearchBeam(g, p) \in Seq(1 .. Len(g.nodes))
<1>1. CASE LiveNodes(g) = {}
  <2>1. SearchBeam(g, p) = <<>>
    BY <1>1 DEF SearchBeam
  <2> QED
    BY <2>1
<1>2. CASE LiveNodes(g) # {}
  BY <1>2, BeamIs
<1> QED
  BY <1>1, <1>2

-----------------------------------------------------------------------------
(* VamanaIndex: the graph in memory stays sound, and the ids current. *)

VamanaInv ==
  /\ VamanaGraph(Graph) /\ Len(nodes) <= MaxNodes
  /\ indexOf \in [VIds -> (1 .. Len(nodes)) \cup {NoNode}]
  /\ tombs \subseteq 1 .. Len(nodes) /\ metaFile.tombs \subseteq 1 .. Len(nodes)
  /\ metaFile.nodes = nodes /\ metaFile.indexOf = indexOf
  /\ \A i \in 1 .. Len(nodes) : nodes[i] \notin again => indexOf[nodes[i]] = i

LEMMA VamanaInvInit == VamanaInit => VamanaInv
<1> SUFFICES ASSUME VamanaInit PROVE VamanaInv
  OBVIOUS
<1>1. nodes = <<>> /\ Len(nodes) = 0 /\ rows = <<>> /\ metaFile = Meta
      /\ indexOf = [v \in VIds |-> NoNode] /\ vectors = [v \in VIds |-> NoPoint] /\ tombs = {}
  BY DEF VamanaInit
<1>2. VamanaGraph(Graph)
  BY <1>1 DEF VamanaGraph, Graph
<1>3. metaFile.tombs = {} /\ metaFile.nodes = nodes /\ metaFile.indexOf = indexOf
  BY <1>1 DEF Meta
<1> QED
  BY <1>1, <1>2, <1>3, VamanaAssumption DEF VamanaInv

LEMMA InsertNodeKeeps ==
  ASSUME VamanaInv, NEW v \in VIds, NEW p \in Points, InsertNode(v, p)
  PROVE  VamanaInv'
<1>1. PICK N \in Nat : N = Len(nodes)
  BY GraphDistances DEF VamanaInv, Graph
<1>2. PICK idx : idx = N + 1
  OBVIOUS
<1>3. nodes \in Seq(VIds) /\ vectors \in [VIds -> Points \cup {NoPoint}]
      /\ rows \in Seq(Seq(1 .. N)) /\ Len(rows) = N
  BY <1>1 DEF VamanaInv, VamanaGraph, Graph
<1>4. PICK g : g = [nodes |-> Append(nodes, v), vectors |-> [vectors EXCEPT ![v] = p],
                    rows |-> Append(rows, <<>>), tombs |-> tombs, entryNode |-> entryNode]
  OBVIOUS
<1>5. g.nodes \in Seq(VIds) /\ Len(g.nodes) = idx /\ g.nodes[idx] = v
      /\ \A i \in 1 .. N : g.nodes[i] = nodes[i]
  BY <1>1, <1>2, <1>3, <1>4
<1>6. g.rows \in Seq(Seq(1 .. idx)) /\ Len(g.rows) = idx
  <2>1. PICK Q : Q = Seq(1 .. idx)
    OBVIOUS
  <2>2. Seq(1 .. N) \subseteq Q /\ <<>> \in Q
    BY <1>2, <2>1
  <2>3. rows \in Seq(Q)
    BY <1>3, <2>2
  <2>4. Append(rows, <<>>) \in Seq(Q) /\ Len(Append(rows, <<>>)) = Len(rows) + 1
    BY <2>2, <2>3
  <2> QED
    BY <1>2, <1>3, <1>4, <2>1, <2>4
<1>7. VamanaGraph(g)
  BY <1>3, <1>4, <1>5, <1>6 DEF VamanaGraph
<1>8. PICK candidates : candidates = Keeping(SearchBeam(g, p), DOMAIN nodes)
  OBVIOUS
<1>9. candidates \in Seq(1 .. idx)
  <2>1. SearchBeam(g, p) \in Seq(1 .. idx)
    BY <1>5, <1>7, BeamTypes
  <2>2. candidates \in Seq((1 .. idx) \cap DOMAIN nodes)
    BY <1>8, <2>1, KeepingIs
  <2>3. PICK Q, W : Q = (1 .. idx) \cap DOMAIN nodes /\ W = 1 .. idx
    OBVIOUS
  <2>4. candidates \in Seq(Q) /\ Q \subseteq W
    BY <2>2, <2>3
  <2>5. candidates \in Seq(W)
    BY <2>4
  <2> QED
    BY <2>3, <2>5
<1>10. idx \in 1 .. idx
  BY <1>2
<1>11. RobustPrune(g, idx, candidates) \in Seq(1 .. idx)
  BY <1>5, <1>7, <1>9, <1>10, PruneTypes
<1>12. /\ Linked(g, idx, RobustPrune(g, idx, candidates)) \in Seq(Seq(1 .. idx))
       /\ Len(Linked(g, idx, RobustPrune(g, idx, candidates))) = idx
  BY <1>5, <1>7, <1>10, <1>11, LinkedTypes
<1>13. /\ idx <= MaxNodes /\ nodes' = g.nodes /\ vectors' = g.vectors
       /\ indexOf' = [indexOf EXCEPT ![v] = idx]
       /\ rows' = g.rows \/ rows' = Linked(g, idx, RobustPrune(g, idx, candidates))
       /\ metaFile' = [nodes |-> nodes', indexOf |-> indexOf', tombs |-> tombs, entryNode |-> entryNode']
       /\ again' = (IF v \in ToSet(nodes) THEN again \cup {v} ELSE again)
       /\ tombs' = tombs
  BY <1>1, <1>2, <1>4, <1>8 DEF InsertNode
<1>14. rows' \in Seq(Seq(1 .. idx)) /\ Len(rows') = idx
  BY <1>6, <1>12, <1>13
<1>15. VamanaGraph(Graph)'
  BY <1>5, <1>7, <1>13, <1>14 DEF VamanaGraph, Graph
<1>16. indexOf' \in [VIds -> (1 .. idx) \cup {NoNode}]
  <2>1. indexOf \in [VIds -> (1 .. N) \cup {NoNode}]
    BY <1>1 DEF VamanaInv
  <2> QED
    BY <1>2, <1>13, <2>1
<1>17. tombs' \subseteq 1 .. idx /\ metaFile'.tombs \subseteq 1 .. idx
  BY <1>1, <1>2, <1>13 DEF VamanaInv
<1>18. ASSUME NEW i \in 1 .. idx, nodes'[i] \notin again' PROVE indexOf'[nodes'[i]] = i
  <2>1. indexOf \in [VIds -> (1 .. N) \cup {NoNode}]
    BY <1>1 DEF VamanaInv
  <2>2. CASE i = idx
    BY <1>5, <1>13, <2>1, <2>2
  <2>3. CASE i \in 1 .. N
    <3>1. nodes'[i] = nodes[i]
      BY <1>5, <1>13, <2>3
    <3>2. i \in DOMAIN nodes /\ nodes[i] \in VIds
      BY <1>1, <1>3, <2>3
    <3>3. nodes[i] \in ToSet(nodes)
      BY <3>2 DEF ToSet
    <3>4. nodes'[i] = nodes[i] /\ nodes[i] \in ToSet(nodes) /\ nodes[i] \in VIds
      BY <3>1, <3>2, <3>3
    <3>5. nodes[i] # v /\ nodes[i] \notin again
      BY <1>13, <1>18, <3>4
    <3>6. indexOf[nodes[i]] = i
      BY <1>1, <2>3, <3>5 DEF VamanaInv
    <3> QED
      BY <1>13, <2>1, <3>4, <3>5, <3>6
  <2> QED
    BY <1>2, <2>2, <2>3
<1>19. metaFile'.nodes = nodes' /\ metaFile'.indexOf = indexOf'
  BY <1>13
<1>20. Len(nodes') = idx
  BY <1>5, <1>13
<1> QED
  BY <1>13, <1>15, <1>16, <1>17, <1>18, <1>19, <1>20 DEF VamanaInv

LEMMA VamanaInvStep == VamanaInv /\ [VamanaNext]_vamanaVars => VamanaInv'
<1> SUFFICES ASSUME VamanaInv, [VamanaNext]_vamanaVars PROVE VamanaInv'
  OBVIOUS
<1>1. ASSUME NEW v \in VIds, NEW p \in Points, InsertNode(v, p) PROVE VamanaInv'
  BY <1>1, InsertNodeKeeps
<1>2. ASSUME NEW v \in VIds, DeleteVector(v) PROVE VamanaInv'
  <2>1. /\ indexOf[v] # NoNode /\ tombs' = tombs \cup {indexOf[v]}
        /\ UNCHANGED <<nodes, vectors, indexOf, rows, entryNode, metaFile, opens, again>>
    BY <1>2 DEF DeleteVector
  <2>2. tombs' \subseteq 1 .. Len(nodes)
    BY <2>1 DEF VamanaInv
  <2> QED
    BY <2>1, <2>2 DEF VamanaInv, VamanaGraph, Graph
<1>3. ASSUME CompactNodes PROVE VamanaInv'
  BY <1>3 DEF CompactNodes, VamanaInv, VamanaGraph, Graph
<1>4. ASSUME SaveIndex PROVE VamanaInv'
  <2>1. /\ metaFile' = Meta
        /\ UNCHANGED <<nodes, vectors, indexOf, tombs, rows, entryNode, opens, again>>
    BY <1>4 DEF SaveIndex
  <2>2. metaFile'.nodes = nodes /\ metaFile'.indexOf = indexOf /\ metaFile'.tombs = tombs
    BY <2>1 DEF Meta
  <2> QED
    BY <2>1, <2>2 DEF VamanaInv, VamanaGraph, Graph
<1>5. ASSUME Reopen PROVE VamanaInv'
  <2>1. /\ nodes' = nodes /\ indexOf' = indexOf /\ tombs' = metaFile.tombs
        /\ rows' = [i \in DOMAIN nodes |-> <<>>] /\ vectors' = [v \in VIds |-> NoPoint]
        /\ metaFile' = metaFile /\ again' = again
    BY <1>5 DEF Reopen, VamanaInv
  <2>2. rows' \in Seq(Seq(1 .. Len(nodes))) /\ Len(rows') = Len(nodes)
    <3>1. PICK N \in Nat : N = Len(nodes)
      BY GraphDistances DEF VamanaInv, Graph
    <3>2. PICK Q : Q = Seq(1 .. N)
      OBVIOUS
    <3>3. DOMAIN nodes = 1 .. N
      BY <3>1 DEF VamanaInv, VamanaGraph, Graph
    <3>4. <<>> \in Q
      BY <3>2
    <3>5. rows' \in Seq(Q) /\ Len(rows') = N
      BY <2>1, <3>3, <3>4
    <3> QED
      BY <3>1, <3>2, <3>5
  <2>3. VamanaGraph(Graph)'
    BY <2>1, <2>2 DEF VamanaInv, VamanaGraph, Graph
  <2> QED
    BY <2>1, <2>3 DEF VamanaInv
<1>6. CASE UNCHANGED vamanaVars
  BY <1>6 DEF vamanaVars, VamanaInv, VamanaGraph, Graph
<1> QED
  BY <1>1, <1>2, <1>3, <1>4, <1>5, <1>6 DEF VamanaNext
\* What the runs of the search say of one search of the index.
LEMMA SearchNodesAre ==
  ASSUME VamanaInv, NEW p \in Points, LiveNodes(Graph) # {}
  PROVE  /\ SearchNodes(p, MaxNodes) \in Seq(LiveNodes(Graph))
         /\ SearchNodes(p, MaxNodes) # <<>>
         /\ ToSet(SearchNodes(p, MaxNodes)) \subseteq Reach(Start(Graph))
         /\ Wide(Graph) =>
              LET found == SearchNodes(p, MaxNodes)
              IN /\ Reach(Start(Graph)) \cap LiveNodes(Graph) \subseteq ToSet(found)
                 /\ found[1] = Start(Graph)
                 /\ \A i, j \in 2 .. Len(found) : i < j =>
                      Metric[p][PointOf(Graph, found[i])] <= Metric[p][PointOf(Graph, found[j])]
<1>1. PICK g : g = Graph
  OBVIOUS
<1>2. VamanaGraph(g) /\ LiveNodes(g) # {} /\ g.nodes = nodes /\ Len(nodes) <= MaxNodes
  BY <1>1 DEF VamanaInv, Graph
<1>3. PICK N \in Nat : N = Len(g.nodes) /\ DOMAIN g.nodes = 1 .. N
  BY <1>2, GraphDistances
<1>4. PICK e : e = Start(g)
  OBVIOUS
<1>5. e \in LiveNodes(g) /\ e \in 1 .. N
  BY <1>2, <1>3, <1>4, StartIs
<1>6. PICK W : Reaches(g, e, W) /\ Reach(e) = W[N]
  BY <1>1, <1>2, <1>3, <1>5, ReachIs
<1>7. PICK b : b = Searching(g, p)
  OBVIOUS
<1>8. SearchRun(g, p, b)
  BY <1>2, <1>7, SearchRuns
<1>9. Seen(g, W, N, b[N]) /\ b[N] \in BeamStates(g)
  <2>1. \A n \in 0 .. N : Seen(g, W, n, b[n])
    BY <1>2, <1>3, <1>4, <1>6, <1>8, SearchFinds
  <2>2. b \in [0 .. N -> BeamStates(g)]
    BY <1>3, <1>8 DEF SearchRun
  <2> QED
    BY <1>3, <2>1, <2>2
<1>10. PICK found : found = b[N].found
  OBVIOUS
<1>11. PICK L \in Nat : L = Len(found)
  BY <1>9, <1>10 DEF BeamStates
<1>12. found \in Seq(Entries(g)) /\ L <= N /\ L > 0 /\ found[1] = First(g)
       /\ \A i \in 1 .. L : found[i].node \in W[N]
  BY <1>5, <1>9, <1>10, <1>11 DEF Seen, BeamStates
<1>13. PICK B : B = SearchBeam(g, p)
  OBVIOUS
<1>14. PICK key : key = DistsOf(found)
  OBVIOUS
<1>15. PICK f : Sorts(found, key, f) /\ \A n \in 1 .. Len(found) : B[n] = found[f[n]].node
  <2>1. found = Searching(g, p)[Len(g.nodes)].found
    BY <1>3, <1>7, <1>10
  <2>2. PICK f : /\ Sorts(found, DistsOf(found), f)
                 /\ \A n \in 1 .. Len(found) : SearchBeam(g, p)[n] = found[f[n]].node
    BY <1>2, <2>1, BeamIs
  <2> QED
    BY <1>13, <1>14, <2>2
<1>16. key = [n \in 1 .. L |-> found[n].dist] /\ \A n \in 1 .. L : B[n] = found[f[n]].node
  BY <1>11, <1>14, <1>15 DEF DistsOf
<1>17. B \in Seq(1 .. N) /\ Len(B) = L
  BY <1>2, <1>3, <1>7, <1>10, <1>11, <1>13, BeamIs
<1>18. /\ f \in [1 .. L -> 1 .. L]
       /\ \A m \in 1 .. L : \E n \in 1 .. L : f[n] = m
       /\ \A m, n \in 1 .. L : m < n => key[f[m]] <= key[f[n]] /\ f[m] # f[n]
       /\ (\A m \in 1 .. L : key[1] <= key[m]) => f[1] = 1
  BY <1>11, <1>12, <1>15 DEF Sorts
<1>19. PICK k : k = Keeping(B, LiveNodes(g))
  OBVIOUS
<1>20. PICK T : T = (1 .. N) \cap LiveNodes(g)
  OBVIOUS
<1>21. k \in Seq(T) /\ Kept(B, LiveNodes(g), L, k) /\ ToSet(k) = ToSet(B) \cap LiveNodes(g)
  BY <1>17, <1>19, <1>20, KeepingIs, KeepingSet
<1>22. Len(k) \in Nat /\ Len(k) <= MaxNodes
  BY <1>2, <1>3, <1>12, <1>21, VamanaAssumption DEF Kept
<1>23. SearchNodes(p, MaxNodes) = k
  <2>1. FirstOnes(k, MaxNodes) = k
    BY <1>21, <1>22, FirstOnesIs, VamanaAssumption
  <2> QED
    BY <1>1, <1>13, <1>19, <2>1 DEF SearchNodes
<1>24. ToSet(B) = {B[n] : n \in 1 .. L} /\ ToSet(k) = {k[n] : n \in 1 .. Len(k)}
  <2>1. DOMAIN B = 1 .. L /\ DOMAIN k = 1 .. Len(k)
    BY <1>17, <1>21
  <2> QED
    BY <2>1 DEF ToSet
<1>25. ToSet(B) \subseteq W[N]
  <2>1. ASSUME NEW n \in 1 .. L PROVE B[n] \in W[N]
    BY <1>12, <1>16, <1>15, <1>18
  <2> QED
    BY <1>24, <2>1
<1>26. e \in ToSet(B)
  <2>1. 1 \in 1 .. L /\ found[1].node = e
    BY <1>4, <1>11, <1>12 DEF First
  <2>2. PICK n \in 1 .. L : f[n] = 1
    BY <1>18, <2>1
  <2> QED
    BY <1>16, <1>15, <1>24, <2>1, <2>2
<1>27. k # <<>> /\ Len(k) >= 1
  <2>1. e \in ToSet(k)
    BY <1>5, <1>21, <1>26
  <2>2. PICK n \in 1 .. Len(k) : k[n] = e
    BY <1>24, <2>1
  <2> QED
    BY <1>22, <2>2
<1>28. k \in Seq(LiveNodes(g))
  BY <1>20, <1>21
<1>29. ASSUME Wide(g)
       PROVE  /\ W[N] \cap LiveNodes(g) \subseteq ToSet(k) /\ k[1] = e
              /\ \A i, j \in 2 .. Len(k) : i < j =>
                   Metric[p][PointOf(g, k[i])] <= Metric[p][PointOf(g, k[j])]
  <2>1. /\ \A i, j \in 1 .. L : i # j => found[i].node # found[j].node
        /\ \A i \in 1 .. L : found[i].node # e =>
             found[i].dist = Metric[p][PointOf(g, found[i].node)]
        /\ \A j \in W[N] : \E i \in 1 .. L : found[i].node = j
    <3>1. found = b[Len(g.nodes)].found /\ Reaches(g, Start(g), W)
      BY <1>3, <1>4, <1>6, <1>10
    <3>2. FoundAll(g, p, W, found)
      BY <1>2, <1>8, <1>29, <3>1, SearchFindsAll
    <3> QED
      BY <1>3, <1>4, <1>11, <3>2 DEF FoundAll
  <2>2. W[N] \subseteq ToSet(B)
    <3>1. ASSUME NEW j \in W[N] PROVE j \in ToSet(B)
      <4>1. PICK i \in 1 .. L : found[i].node = j
        BY <2>1
      <4>2. PICK n \in 1 .. L : f[n] = i
        BY <1>18
      <4> QED
        BY <1>16, <1>15, <1>24, <4>1, <4>2
    <3> QED
      BY <3>1
  <2>3. B[1] = e
    <3>1. 1 \in 1 .. L /\ found[1].node = e /\ found[1].dist = Distance(g, e, e)
      BY <1>4, <1>11, <1>12 DEF First
    <3>2. Distance(g, e, e) = 0
      BY <1>2, <1>3, <1>5, <1>29, GraphDistances DEF Wide
    <3>3. ASSUME NEW m \in 1 .. L PROVE key[m] = found[m].dist /\ found[m].dist \in Nat
      <4>1. found[m] \in Entries(g)
        BY <1>11, <1>12
      <4>2. found[m].dist \in Nat
        BY <4>1 DEF Entries
      <4> QED
        BY <1>11, <1>16, <4>2
    <3>4. key[1] = 0
      BY <3>1, <3>2, <3>3
    <3>5. \A m \in 1 .. L : key[1] <= key[m]
      BY <3>3, <3>4
    <3>6. f[1] = 1
      BY <1>18, <3>5
    <3> QED
      BY <1>16, <1>15, <3>1, <3>6
  <2>4. \A m, n \in 1 .. L : m < n => B[m] # B[n]
    <3>1. ASSUME NEW m \in 1 .. L, NEW n \in 1 .. L, m < n PROVE B[m] # B[n]
      <4>1. f[m] \in 1 .. L /\ f[n] \in 1 .. L /\ f[m] # f[n]
        BY <1>18, <3>1
      <4>2. found[f[m]].node # found[f[n]].node
        BY <2>1, <4>1
      <4> QED
        BY <1>16, <1>15, <4>2
    <3> QED
      BY <3>1
  <2>5. \A m, n \in 2 .. L : m < n => Metric[p][PointOf(g, B[m])] <= Metric[p][PointOf(g, B[n])]
    <3>1. ASSUME NEW m \in 2 .. L
          PROVE  m \in 1 .. L /\ f[m] \in 1 .. L /\ key[f[m]] = Metric[p][PointOf(g, B[m])]
      <4>1. m \in 1 .. L /\ 1 \in 1 .. L /\ 1 < m
        BY <1>11, <3>1
      <4>2. f[m] \in 1 .. L /\ found[f[m]].node = B[m] /\ B[m] # e
        BY <1>16, <1>15, <1>18, <2>3, <2>4, <4>1
      <4>3. found[f[m]].dist = Metric[p][PointOf(g, B[m])]
        BY <2>1, <4>2
      <4> QED
        BY <1>11, <1>16, <4>1, <4>2, <4>3
    <3>2. ASSUME NEW m \in 2 .. L, NEW n \in 2 .. L, m < n
          PROVE  Metric[p][PointOf(g, B[m])] <= Metric[p][PointOf(g, B[n])]
      <4>1. m \in 1 .. L /\ n \in 1 .. L
        BY <3>1
      <4>2. key[f[m]] <= key[f[n]]
        BY <1>18, <3>2, <4>1
      <4> QED
        BY <3>1, <4>2
    <3> QED
      BY <3>2
  <2>6. k[1] = e
    BY <1>5, <1>11, <1>12, <1>21, <2>3 DEF Kept
  <2>7. ASSUME NEW i \in 2 .. Len(k), NEW j \in 2 .. Len(k), i < j
        PROVE  Metric[p][PointOf(g, k[i])] <= Metric[p][PointOf(g, k[j])]
    <3>1. i \in 1 .. Len(k) /\ j \in 1 .. Len(k) /\ 1 \in 1 .. Len(k) /\ 1 < i
      BY <1>22, <2>7
    <3>2. \A h, n \in 1 .. Len(k) : h < n =>
            \E l, m \in 1 .. L : l < m /\ B[l] = k[h] /\ B[m] = k[n]
      BY <1>21 DEF Kept
    <3>3. PICK l \in 1 .. L, m \in 1 .. L : l < m /\ B[l] = k[i] /\ B[m] = k[j]
      BY <2>7, <3>1, <3>2
    <3>4. PICK l1 \in 1 .. L, m1 \in 1 .. L : l1 < m1 /\ B[l1] = k[1] /\ B[m1] = k[i]
      BY <3>1, <3>2
    <3>5. k[i] # e
      BY <2>4, <2>6, <3>4
    <3>6. l # 1
      BY <2>3, <3>3, <3>5
    <3>7. l \in 2 .. L /\ m \in 2 .. L
      BY <3>3, <3>6
    <3>8. Metric[p][PointOf(g, B[l])] <= Metric[p][PointOf(g, B[m])]
      BY <2>5, <3>3, <3>7
    <3> QED
      BY <3>3, <3>8
  <2> QED
    BY <1>21, <2>2, <2>6, <2>7
<1>30. ToSet(k) \subseteq W[N]
  BY <1>21, <1>25
<1> QED
  BY <1>1, <1>4, <1>6, <1>23, <1>27, <1>28, <1>29, <1>30

LEMMA VamanaInvFinds == VamanaInv => VamanaSearchFindsLive
<1> SUFFICES ASSUME VamanaInv PROVE VamanaSearchFindsLive
  OBVIOUS
<1>1. SUFFICES ASSUME NEW p \in Points, NEW found, found = SearchNodes(p, MaxNodes)
      PROVE  /\ IF LiveNodes(Graph) = {} THEN found = <<>>
                ELSE found # <<>> /\ ToSet(found) \subseteq Reach(Start(Graph)) \cap LiveNodes(Graph)
             /\ \A i \in DOMAIN found :
                  nodes[found[i]] \notin again => indexOf[nodes[found[i]]] = found[i]
             /\ LiveNodes(Graph) # {} /\ BeamWidth >= Len(nodes)
                  /\ (\A i \in DOMAIN nodes : HasPoint(Graph, i)) =>
                  /\ ToSet(found) = Reach(Start(Graph)) \cap LiveNodes(Graph)
                  /\ found[1] = Start(Graph)
                  /\ \A i, j \in 2 .. Len(found) : i < j =>
                       Metric[p][PointOf(Graph, found[i])] <= Metric[p][PointOf(Graph, found[j])]
  BY Zenon DEF VamanaSearchFindsLive
<1>2. CASE LiveNodes(Graph) = {}
  <2>1. PICK T : T = 1 .. Len(nodes)
    OBVIOUS
  <2>2. SearchBeam(Graph, p) = <<>> /\ <<>> \in Seq(T) /\ ToSet(<<>>) \subseteq LiveNodes(Graph)
    BY <1>2 DEF SearchBeam, ToSet
  <2>3. Keeping(<<>>, LiveNodes(Graph)) = <<>>
    BY <2>2, KeepingSet
  <2>4. FirstOnes(<<>>, MaxNodes) = <<>>
    <3>1. Len(<<>>) <= MaxNodes /\ MaxNodes \in Nat
      BY VamanaAssumption
    <3> QED
      BY <2>2, <3>1, FirstOnesIs
  <2>5. found = <<>>
    BY <1>1, <2>2, <2>3, <2>4 DEF SearchNodes
  <2>6. DOMAIN found = {}
    BY <2>5
  <2> QED
    BY <1>2, <2>5, <2>6
<1>3. CASE LiveNodes(Graph) # {}
  <2>1. PICK N \in Nat : N = Len(nodes) /\ DOMAIN nodes = 1 .. N
    BY GraphDistances DEF VamanaInv, Graph
  <2>2. LiveNodes(Graph) \subseteq 1 .. N
    BY <2>1 DEF LiveNodes, Graph
  <2>3. found \in Seq(LiveNodes(Graph)) /\ found # <<>>
        /\ ToSet(found) \subseteq Reach(Start(Graph))
    BY <1>1, <1>3, SearchNodesAre
  <2>4. ToSet(found) \subseteq LiveNodes(Graph)
    BY <2>3 DEF ToSet
  <2>5. ASSUME NEW i \in DOMAIN found, nodes[found[i]] \notin again
        PROVE  indexOf[nodes[found[i]]] = found[i]
    <3>1. found[i] \in 1 .. N
      BY <2>2, <2>3
    <3> QED
      BY <2>1, <2>5, <3>1 DEF VamanaInv
  <2>6. ASSUME BeamWidth >= Len(nodes), \A i \in DOMAIN nodes : HasPoint(Graph, i)
        PROVE  /\ ToSet(found) = Reach(Start(Graph)) \cap LiveNodes(Graph)
               /\ found[1] = Start(Graph)
               /\ \A i, j \in 2 .. Len(found) : i < j =>
                    Metric[p][PointOf(Graph, found[i])] <= Metric[p][PointOf(Graph, found[j])]
    <3>1. Wide(Graph)
      BY <2>1, <2>6 DEF Wide, Graph
    <3>2. /\ Reach(Start(Graph)) \cap LiveNodes(Graph) \subseteq ToSet(found)
          /\ found[1] = Start(Graph)
          /\ \A i, j \in 2 .. Len(found) : i < j =>
               Metric[p][PointOf(Graph, found[i])] <= Metric[p][PointOf(Graph, found[j])]
      BY <1>1, <1>3, <3>1, SearchNodesAre
    <3> QED
      BY <2>3, <2>4, <3>2
  <2> QED
    BY <1>3, <2>3, <2>4, <2>5, <2>6
<1> QED
  BY <1>2, <1>3

\* A search of the Vamana graph finds something when something is live, and only what is
\* live and linked; for an id that was not inserted again, the node that it has now; and
\* with a beam that has room for every node, all that is live and linked, the start first
\* and the others by their distance (VamanaSearchFindsLive, utils/vamana_index.py).
THEOREM VamanaFindsLive == VamanaSpec => []VamanaSearchFindsLive
<1> QED
  BY VamanaInvInit, VamanaInvStep, VamanaInvFinds, PTL DEF VamanaSpec
=============================================================================
