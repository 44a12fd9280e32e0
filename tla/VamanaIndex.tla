---------------------------- MODULE VamanaIndex ----------------------------
(***************************************************************************)
(* The Vamana graph, utils/vamana_index.py: VamanaVectorIndex, the class   *)
(* that can be used (MmapVamanaIndex inherits a beam search that is a      *)
(* stub).  A node is a position in the list of ids; its row of the         *)
(* adjacency file holds at most MaxDegree neighbours; the vectors are in memory.   *)
(* Each call but search holds the lock and is one step; searches are       *)
(* looked at between the steps.  Growing the file is left out.             *)
(***************************************************************************)
EXTENDS Integers, Sequences, SequencesExt, FiniteSets

CONSTANTS
  VIds,       \* ids of vectors
  Points,     \* what a vector can be
  Metric,     \* Metric[p][q], the distance of two points
  Infinity,   \* above every distance
  MaxDegree,  \* R, the largest degree
  BeamWidth,  \* L
  Alpha,      \* <<a, b>>: alpha is a / b
  MaxNodes,   \* bound: nodes of the graph
  MaxOpens,   \* bound: reopenings
  NoNode,
  NoPoint     \* the vector of an id was not kept

ASSUME VamanaAssumption ==
  /\ MaxDegree \in Nat \ {0} /\ BeamWidth \in Nat \ {0} /\ MaxNodes \in Nat /\ MaxOpens \in Nat
  /\ Metric \in [Points -> [Points -> Nat]] /\ NoPoint \notin Points /\ Infinity \in Nat
  /\ \A p, q \in Points : Metric[p][q] < Infinity /\ Metric[p][p] = 0
  /\ Alpha \in Nat \X (Nat \ {0})

VARIABLES
  nodes,      \* ids: the id of each node
  vectors,    \* _vectors[v]: the point of id v, or NoPoint
  indexOf,    \* id_to_index
  tombs,      \* deleted: nodes with a tombstone
  rows,       \* rows[i]: neighbours of node i in the adjacency file
  entryNode,  \* entry_point
  metaFile,   \* meta.json
  opens,      \* reopenings so far
  again       \* history: ids inserted again

vamanaVars == <<nodes, vectors, indexOf, tombs, rows, entryNode, metaFile, opens, again>>

Meta == [nodes |-> nodes, indexOf |-> indexOf, tombs |-> tombs, entryNode |-> entryNode]

VamanaInit ==
  /\ nodes = <<>> /\ indexOf = [v \in VIds |-> NoNode] /\ tombs = {} /\ entryNode = NoNode
  /\ vectors = [v \in VIds |-> NoPoint]
  /\ rows = <<>> /\ metaFile = Meta /\ opens = 0 /\ again = {}

Graph == [nodes |-> nodes, vectors |-> vectors, rows |-> rows, tombs |-> tombs, entryNode |-> entryNode]
PointOf(g, i) == g.vectors[g.nodes[i]]
HasPoint(g, i) == PointOf(g, i) # NoPoint

\* The distance to a node without a vector is infinite.
Distance(g, i, j) ==
  IF HasPoint(g, i) /\ HasPoint(g, j) THEN Metric[PointOf(g, i)][PointOf(g, j)] ELSE Infinity
LiveNodes(g) == DOMAIN g.nodes \ g.tombs

\* sorted(): what has the same key stays in its order.
SortedBy(s, key) ==
  LET Before(j) ==
        {i \in DOMAIN s : key[i] < key[j] \/ (key[i] = key[j] /\ i < j)}
  IN [n \in 1 .. Len(s) |-> s[CHOOSE j \in DOMAIN s : Cardinality(Before(j)) = n - 1]]

\* What a sequence has of a set, in its order.
Keeping(s, S) ==
  LET kept[n \in 0 .. Len(s)] ==
        IF n = 0 THEN <<>> ELSE IF s[n] \in S THEN Append(kept[n - 1], s[n]) ELSE kept[n - 1]
  IN kept[Len(s)]

FirstOnes(s, n) == SubSeq(s, 1, IF n < Len(s) THEN n ELSE Len(s))

-----------------------------------------------------------------------------
(* _robust_prune and _search_beam *)

\* A candidate is left out when one chosen before, which is nearer to the node, is within
\* alpha times the node's own distance of it, or when it has no vector itself.
Covered(g, node, chosen, c) ==
  \E q \in ToSet(chosen) :
    /\ HasPoint(g, q)
    /\ HasPoint(g, c) => Alpha[2] * Distance(g, q, c) <= Alpha[1] * Distance(g, node, c)

RobustPrune(g, node, candidates) ==
  LET sorted == SortedBy(candidates, [n \in DOMAIN candidates |-> Distance(g, node, candidates[n])])
      chosen[n \in 0 .. Len(candidates)] ==
        IF n = 0 THEN <<>>
        ELSE IF Len(chosen[n - 1]) < MaxDegree /\ ~Covered(g, node, chosen[n - 1], sorted[n])
             THEN Append(chosen[n - 1], sorted[n]) ELSE chosen[n - 1]
  IN IF HasPoint(g, node) THEN chosen[Len(candidates)] ELSE FirstOnes(candidates, MaxDegree)

\* The entry point, or the oldest live node when it has a tombstone.
Start(g) == IF g.entryNode \in LiveNodes(g) THEN g.entryNode
            ELSE CHOOSE i \in LiveNodes(g) : \A j \in LiveNodes(g) : i <= j

Nearer(a, b) == a.dist < b.dist \/ (a.dist = b.dist /\ a.node < b.node)
Nearest(open) == CHOOSE a \in open : \A b \in open \ {a} : Nearer(a, b)

\* Too many candidates are popped from the heap: the nearest go.
InBeam(open) == {a \in open : Cardinality({b \in open : Nearer(a, b)}) < BeamWidth}

\* New neighbours with their distances to p.  The distances are computed for the neighbours
\* that have a vector, and paired with the first ones of the row.
Measured(g, p, new) ==
  LET known == Keeping(new, {i \in DOMAIN g.nodes : HasPoint(g, i)})
  IN {[dist |-> Metric[p][PointOf(g, known[n])], node |-> new[n]] : n \in DOMAIN known}

\* A node is taken off the heap, its unvisited neighbours are put there.
ExpandNode(g, p, st) ==
  LET a == Nearest(st.open)
      new == Keeping(g.rows[a.node], DOMAIN g.nodes \ st.seen)
      open == (st.open \ {a}) \cup Measured(g, p, new)
  IN [open |-> IF new = <<>> THEN open ELSE InBeam(open),
      seen |-> st.seen \cup {b.node : b \in Measured(g, p, new)},
      found |-> Append(st.found, a)]

\* The search after n rounds; the start counts with the distance to itself.
Searching(g, p) ==
  LET first == [dist |-> Distance(g, Start(g), Start(g)), node |-> Start(g)]
      after[n \in 0 .. Len(g.nodes)] ==
        IF n = 0 THEN [open |-> {first}, seen |-> {Start(g)}, found |-> <<>>]
        ELSE IF after[n - 1].open = {} THEN after[n - 1] ELSE ExpandNode(g, p, after[n - 1])
  IN after

\* The nodes visited, sorted.
SearchBeam(g, p) ==
  LET found == Searching(g, p)[Len(g.nodes)].found
      sorted == SortedBy(found, [n \in DOMAIN found |-> found[n].dist])
  IN IF LiveNodes(g) = {} THEN <<>> ELSE [n \in 1 .. Len(found) |-> sorted[n].node]

\* Buggy variant: only ids are looked up among the tombstones, which are positions.
SearchAll(p, k) ==
  FirstOnes(SearchBeam(Graph, p), k)

\* search(): what has a tombstone is left out.
SearchNodes(p, k) ==
  FirstOnes(Keeping(SearchBeam(Graph, p), LiveNodes(Graph)), k)

-----------------------------------------------------------------------------
(* Calls *)

\* Row nid with the new node in it.
AddedTo(row, idx) == IF idx \in ToSet(row) THEN row ELSE Append(row, idx)

\* The rows once the new node's neighbours got it into their rows, which are pruned again.
Linked(g, idx, neighbors) ==
  LET linked[n \in 0 .. Len(neighbors)] ==
        IF n = 0 THEN g.rows
        ELSE LET nid == neighbors[n]
                 row == AddedTo(linked[n - 1][nid], idx)
             IN [linked[n - 1] EXCEPT ![idx] = Append(@, nid), ![nid] = RobustPrune(g, nid, row)]
  IN linked[Len(neighbors)]

InsertNode(v, p) ==
  LET idx == Len(nodes) + 1
      g == [nodes |-> Append(nodes, v), vectors |-> [vectors EXCEPT ![v] = p],
            rows |-> Append(rows, <<>>), tombs |-> tombs, entryNode |-> entryNode]
      candidates == Keeping(SearchBeam(g, p), DOMAIN nodes)
  IN /\ idx <= MaxNodes
     /\ nodes' = g.nodes /\ vectors' = g.vectors
     /\ indexOf' = [indexOf EXCEPT ![v] = idx]
     /\ IF entryNode = NoNode THEN entryNode' = idx /\ rows' = g.rows
        ELSE entryNode' = entryNode /\ rows' = Linked(g, idx, RobustPrune(g, idx, candidates))
     /\ metaFile' = [nodes |-> nodes', indexOf |-> indexOf', tombs |-> tombs, entryNode |-> entryNode']
     /\ again' = IF v \in ToSet(nodes) THEN again \cup {v} ELSE again
     /\ UNCHANGED <<tombs, opens>>

DeleteVector(v) ==
  /\ indexOf[v] # NoNode
  /\ tombs' = tombs \cup {indexOf[v]}
  /\ UNCHANGED <<nodes, vectors, indexOf, rows, entryNode, metaFile, opens, again>>

\* compact() forgets the tombstones and removes nothing.
CompactNodes ==
  /\ tombs # {}
  /\ tombs' = {}
  /\ UNCHANGED <<nodes, vectors, indexOf, rows, entryNode, metaFile, opens, again>>

SaveIndex ==
  /\ metaFile # Meta
  /\ metaFile' = Meta
  /\ UNCHANGED <<nodes, vectors, indexOf, tombs, rows, entryNode, opens, again>>

\* A new process has no vectors; the constructor creates the adjacency file anew, then
\* load() reads the rest.
Reopen ==
  /\ opens < MaxOpens /\ opens' = opens + 1
  /\ nodes' = metaFile.nodes /\ indexOf' = metaFile.indexOf
  /\ tombs' = metaFile.tombs /\ entryNode' = metaFile.entryNode
  /\ rows' = [i \in DOMAIN metaFile.nodes |-> <<>>]
  /\ vectors' = [v \in VIds |-> NoPoint]
  /\ UNCHANGED <<metaFile, again>>

VamanaNext ==
  \/ \E v \in VIds, p \in Points : InsertNode(v, p)
  \/ \E v \in VIds : DeleteVector(v)
  \/ CompactNodes \/ SaveIndex \/ Reopen

VamanaSpec == VamanaInit /\ [][VamanaNext]_vamanaVars

-----------------------------------------------------------------------------
(* Properties *)

\* Nodes that can be reached from node i.
Reach(i) ==
  LET Within[n \in 0 .. Len(nodes)] ==
        IF n = 0 THEN {i} ELSE Within[n - 1] \cup UNION {ToSet(rows[j]) : j \in Within[n - 1]}
  IN Within[Len(nodes)]

\* A search finds something when something is live, and only what is live and linked; of
\* an id, unless it was inserted again, only the node that it has now.  While no candidate
\* falls out of the beam and no vector was lost, it finds all that is live and linked: the
\* start first and the others by their distance.
VamanaSearchFindsLive ==
  \A p \in Points :
    LET found == SearchNodes(p, MaxNodes)
        live == LiveNodes(Graph)
        linked == Reach(Start(Graph)) \cap live
        dist(i) == Metric[p][PointOf(Graph, found[i])]
    IN /\ IF live = {} THEN found = <<>> ELSE found # <<>> /\ ToSet(found) \subseteq linked
       /\ \A i \in DOMAIN found :
            nodes[found[i]] \notin again => indexOf[nodes[found[i]]] = found[i]
       /\ live # {} /\ BeamWidth >= Len(nodes) /\ (\A i \in DOMAIN nodes : HasPoint(Graph, i)) =>
            /\ ToSet(found) = linked /\ found[1] = Start(Graph)
            /\ \A i, j \in 2 .. Len(found) : i < j => dist(i) <= dist(j)
=============================================================================
