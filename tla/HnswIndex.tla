----------------------------- MODULE HnswIndex -----------------------------
(***************************************************************************)
(* The HNSW index of utils/hnsw_index.py: inserts, soft deletes, the       *)
(* compaction that utils/compaction.py runs in the background, save and    *)
(* load, over the searches of HnswSearch.                                  *)
(*                                                                         *)
(* Each operation runs to its end before the next one.  The random layer   *)
(* of an insert is any layer.  An insert that meets an edge to a removed   *)
(* node raises and leaves what it had done; the vector of an id does not   *)
(* change when it is inserted again, as when the log is replayed.          *)
(***************************************************************************)
EXTENDS HnswSearch

CONSTANTS
  TopLevel,  \* bound: the highest layer a node draws
  None

ASSUME IndexAssumption == TopLevel \in Nat /\ None \notin Ids

VARIABLES
  graph,       \* self.graph: node -> layer -> neighbours
  order,       \* the order of the keys of self.graph: pairs, the older one first
  entryPoint,
  maxLevel,
  deleted,     \* tombstones
  reinserted,  \* history: ids inserted while they were nodes
  removed      \* history: a compaction has removed a node

history == <<reinserted, removed>>
vars == <<graph, order, entryPoint, maxLevel, deleted, history>>

NoLayers == <<>>

Init ==
  /\ graph = <<>>
  /\ order = {}
  /\ entryPoint = None
  /\ maxLevel = 0
  /\ deleted = {}
  /\ reinserted = {}
  /\ removed = FALSE

Nodes == DOMAIN graph
Live == Nodes \ deleted

-----------------------------------------------------------------------------
(***************************************************************************)
(* insert().                                                               *)
(***************************************************************************)
LinkOneWay(g, id, level, neighbours) ==
  [n \in DOMAIN g |->
     IF n = id
       THEN [l \in DOMAIN g[id] \cup {level} |->
               IF l = level THEN Layer(g, id, level) \cup neighbours ELSE g[id][l]]
       ELSE g[n]]

\* Edges in both directions; a list may grow beyond m.
Link(g, id, level, neighbours) ==
  [n \in DOMAIN g |->
     IF n = id
       THEN [l \in DOMAIN g[id] \cup {level} |->
               IF l = level THEN Layer(g, id, level) \cup neighbours ELSE g[id][l]]
     ELSE IF n \in neighbours THEN [g[n] EXCEPT ![level] = @ \cup {id}]
     ELSE g[n]]

\* _connect_node: s is the graph and where to start from.
Connect(s, id, level) ==
  LET found == SearchLayer(s.graph, At[id], EfConstruction, s.node, level)
      candidates == {n \in found.results \ {id} : level \in DOMAIN s.graph[n]}
  IN IF s.broken THEN s
     ELSE IF found.broken THEN [s EXCEPT !.broken = TRUE]
     ELSE [graph |-> Link(s.graph, id, level, SelectNeighbors(At[id], candidates, M)),
           node |-> IF found.results = {} THEN s.node ELSE Closest(At[id], found.results),
           broken |-> FALSE]

\* The first node is given layer 0 and its own, and is its own entry point.
ConnectFirst(g, id, level) ==
  LET bottom == Connect([graph |-> g, node |-> id, broken |-> FALSE], id, 0)
  IN IF level = 0 THEN bottom ELSE Connect([bottom EXCEPT !.node = id], id, level)

\* Others go down to their layer and connect from there to layer 0.
ConnectFrom(g, id, level, top) ==
  LET below == Descend(g, At[id], entryPoint, top, level)
      done[l \in 0 .. level + 1] ==
        IF l = level + 1 THEN [graph |-> g, node |-> below.node, broken |-> below.broken]
        ELSE Connect(done[l + 1], id, l)
  IN done[0]

Insert(id, level) ==
  LET fresh == [n \in Nodes \cup {id} |-> IF n = id THEN NoLayers ELSE graph[n]]
      top == IF level > maxLevel THEN level ELSE maxLevel
      connected == IF entryPoint = None THEN ConnectFirst(fresh, id, level)
                   ELSE ConnectFrom(fresh, id, level, top)
  IN /\ graph' = connected.graph
     /\ order' = IF id \in Nodes THEN order ELSE order \cup (Nodes \X {id})
     /\ entryPoint' = IF entryPoint = None THEN id ELSE entryPoint
     /\ maxLevel' = top
     /\ deleted' = deleted \ {id}
     /\ reinserted' = IF id \in Nodes THEN reinserted \cup {id} ELSE reinserted
     /\ UNCHANGED removed

-----------------------------------------------------------------------------
(***************************************************************************)
(* delete() and compact().                                                 *)
(***************************************************************************)
Delete(id) ==
  /\ id \in Live
  /\ deleted' = deleted \cup {id}
  /\ UNCHANGED <<graph, order, entryPoint, maxLevel, history>>

\* A removed node is taken off the lists of the nodes that are in its own list.
Unlinked(n) ==
  [l \in DOMAIN graph[n] |-> graph[n][l] \ {x \in deleted : n \in Layer(graph, x, l)}]

Oldest(S) == CHOOSE n \in S : \A m \in S \ {n} : <<n, m>> \in order

CompactKeepsEntry ==
  /\ deleted # {}
  /\ graph' = [n \in Live |-> Unlinked(n)]
  /\ order' = order \cap (Live \X Live)
  /\ deleted' = {}
  /\ removed' = TRUE
  /\ UNCHANGED <<entryPoint, maxLevel, reinserted>>

\* The entry point moves to the oldest node that lives.
Compact ==
  /\ deleted # {}
  /\ graph' = [n \in Live |-> Unlinked(n)]
  /\ order' = order \cap (Live \X Live)
  /\ entryPoint' = IF entryPoint \notin deleted THEN entryPoint
                   ELSE IF Live = {} THEN None ELSE Oldest(Live)
  /\ deleted' = {}
  /\ removed' = TRUE
  /\ UNCHANGED <<maxLevel, reinserted>>

Clear ==
  /\ graph' = <<>>
  /\ order' = {}
  /\ entryPoint' = None
  /\ maxLevel' = 0
  /\ deleted' = {}
  /\ reinserted' = {}
  /\ removed' = FALSE

-----------------------------------------------------------------------------
(***************************************************************************)
(* save() and load().  Every caller loads into an index it has just made;  *)
(* a load of an older file brings back an earlier state, or that state     *)
(* without its tombstones, so it is enough to load what was just saved.    *)
(***************************************************************************)
Formats == {"json", "pickle", "directory"}

\* Of what a search depends on, the pickled file leaves out the tombstones.
SavedTombstones(format) == IF format = "pickle" THEN {} ELSE deleted

SaveAndLoad(format) ==
  /\ deleted' = SavedTombstones(format)
  /\ UNCHANGED <<graph, order, entryPoint, maxLevel, history>>

Next ==
  \/ \E id \in Ids, level \in 0 .. TopLevel : Insert(id, level)
  \/ \E id \in Ids : Delete(id)
  \/ Compact
  \/ Clear
  \/ \E format \in Formats : SaveAndLoad(format)

Spec == Init /\ [][Next]_vars

-----------------------------------------------------------------------------
(***************************************************************************)
(* search().                                                               *)
(***************************************************************************)
\* What search() answers for a query, before it is cut to k: with a filter when
\* `passing` is not all ids.  Tombstones are traversed and left out at the end.
Search(query, ef, passing) ==
  LET below == Descend(graph, query, entryPoint, maxLevel, 0)
      found == IF passing = Ids THEN SearchLayer(graph, query, ef, below.node, 0)
               ELSE SearchLayerFiltered(graph, query, ef, below.node, 0, passing)
  IN IF entryPoint = None THEN {} ELSE found.results \ deleted

-----------------------------------------------------------------------------
(***************************************************************************)
(* Properties.                                                             *)
(***************************************************************************)
\* Every variable has its type; the entry point is a node as long as there is one, and no
\* node has a layer above max_level.
TypeOK ==
  /\ Nodes \subseteq Ids
  /\ order \subseteq Nodes \X Nodes
  /\ \A a, b \in Nodes : (<<a, b>> \in order) = (a # b /\ <<b, a>> \notin order)
  /\ \A a, b, c \in Nodes : <<a, b>> \in order /\ <<b, c>> \in order => <<a, c>> \in order
  /\ entryPoint \in Nodes \cup {None}
  /\ (entryPoint = None) = (Nodes = {})
  /\ maxLevel \in 0 .. TopLevel
  /\ deleted \subseteq Nodes
  /\ reinserted \subseteq Ids
  /\ removed \in BOOLEAN
  /\ \A n \in Nodes :
       /\ DOMAIN graph[n] \subseteq 0 .. maxLevel
       /\ \A l \in DOMAIN graph[n] : graph[n][l] \subseteq Ids \ {n}

\* An edge to a node that was never inserted again leads to a node and comes back, so
\* that compaction, which follows a removed node's own list, leaves no edge to it.
EdgesMutual ==
  \A n \in Nodes : \A l \in DOMAIN graph[n] : \A m \in graph[n][l] :
    m \notin reinserted => m \in Nodes /\ n \in Layer(graph, m, l)

\* The nearest result of a layer's search has no nearer neighbour in that layer: the
\* greedy search ends at a local optimum whatever the graph, the start and the breadth.
SearchEndsAtOptimum ==
  \A start \in Nodes, q \in Ids, ef \in {1, 2}, l \in 0 .. maxLevel :
    LET found == SearchLayer(graph, At[q], ef, start, l)
    IN ~found.broken =>
         LET best == Closest(At[q], found.results)
         IN \A n \in Layer(graph, best, l) : Near(At[q], n) >= Near(At[q], best)

\* A filtered search that may return every node returns exactly the live nodes that pass,
\* through tombstones and nodes that do not pass.
FilteredSearchExact ==
  reinserted = {} /\ ~removed =>
    \A q \in Ids, passing \in (SUBSET Ids) \ {Ids} :
      Search(At[q], Cardinality(Ids), passing) = passing \cap Live
=============================================================================
