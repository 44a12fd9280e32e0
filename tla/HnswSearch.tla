----------------------------- MODULE HnswSearch -----------------------------
(***************************************************************************)
(* The searches of utils/hnsw_index.py over a given graph: best-first      *)
(* search of one layer, the same under a metadata filter, the descent      *)
(* through the layers and the choice of neighbours.                        *)
(*                                                                         *)
(* A graph maps each node to its layers, and each layer a node has to the  *)
(* set of its neighbours: the order of a neighbour list decides nothing.   *)
(* A search reads the vector of each neighbour it meets; a neighbour that  *)
(* is no node any more raises, and the result says so (broken).            *)
(***************************************************************************)
EXTENDS Integers, FiniteSets

CONSTANTS
  Ids,             \* vector ids
  At,              \* the vector of each id
  Dist(_, _),      \* the distance metric
  M,               \* neighbours chosen per insert and layer
  EfConstruction,  \* search breadth while inserting
  MaxExpansion     \* how far a filter can widen the search

\* Only the order of distances matters, so they are numbers; vectors at equal distance from
\* a third are told apart by the layout of a heap.
ASSUME SearchAssumption ==
  /\ IsFiniteSet(Ids)
  /\ \A a, b \in Ids : Dist(At[a], At[b]) \in Nat
  /\ \A a, b, c \in Ids : a # b => Dist(At[c], At[a]) # Dist(At[c], At[b])
  /\ M \in Nat \ {0}
  /\ EfConstruction \in Nat \ {0}
  /\ MaxExpansion \in Nat \ {0}

Near(query, n) == Dist(query, At[n])
Closest(query, S) == CHOOSE n \in S : \A m \in S : Near(query, n) <= Near(query, m)
Farthest(query, S) == CHOOSE n \in S : \A m \in S : Near(query, n) >= Near(query, m)

Layer(graph, n, level) == IF level \in DOMAIN graph[n] THEN graph[n][level] ELSE {}

KeepFarther(query, S, ef) == IF Cardinality(S) > ef THEN S \ {Closest(query, S)} ELSE S

\* The best ef of a set.
Keep(query, S, ef) ==
  IF Cardinality(S) > ef THEN S \ {Farthest(query, S)} ELSE S

\* The state of a search, before it and when it has raised.
Search0(start) ==
  [frontier |-> {start}, visited |-> {start}, results |-> {}, broken |-> FALSE]
Broken == [frontier |-> {}, visited |-> {}, results |-> {}, broken |-> TRUE]

\* The node taken off the frontier is expanded.
Expand(graph, level, s, n, results) ==
  LET unvisited == Layer(graph, n, level) \ s.visited
  IN IF unvisited \subseteq DOMAIN graph
       THEN [s EXCEPT !.frontier = (s.frontier \ {n}) \cup unvisited,
                      !.visited = s.visited \cup unvisited,
                      !.results = results]
       ELSE [Broken EXCEPT !.visited = s.visited]

\* One round of _search_layer.  It ends when the nearest candidate is no nearer than the
\* farthest result, however few results there are.
Visit(graph, query, ef, level, s) ==
  LET n == Closest(query, s.frontier)
      ended == \/ s.frontier = {}
               \/ s.results # {} /\ Near(query, n) >= Near(query, Farthest(query, s.results))
  IN IF ended THEN s
     ELSE Expand(graph, level, s, n, Keep(query, s.results \cup {n}, ef))

\* Every round takes a node off the frontier, and no node enters it twice.
SearchLayer(graph, query, ef, start, level) ==
  LET after[k \in 0 .. Cardinality(DOMAIN graph)] ==
        IF k = 0 THEN Search0(start) ELSE Visit(graph, query, ef, level, after[k - 1])
  IN IF start \in DOMAIN graph THEN after[Cardinality(DOMAIN graph)]
     ELSE [Search0(start) EXCEPT !.frontier = {}]

\* A round of _search_layer_filtered: only nodes that pass enter the results, and the
\* breadth doubles while more than half of the nodes do not pass.
VisitFilteredNarrow(graph, query, passing, level, s) ==
  LET n == Closest(query, s.frontier)
      ended == \/ s.frontier = {}
               \/ s.results # {} /\ Near(query, n) >= Near(query, Farthest(query, s.results))
  IN IF ended THEN s
     ELSE Expand(graph, level, s, n,
                 IF n \in passing THEN Keep(query, s.results \cup {n}, s.ef) ELSE s.results)

VisitFiltered(graph, query, passing, level, s) ==
  LET n == Closest(query, s.frontier)
      ended ==
        \/ s.frontier = {}
        \/ /\ s.results # {}
           /\ Near(query, n) >= Near(query, Farthest(query, s.results))
           /\ Cardinality(s.results) >= s.ef
      out == s.filteredOut + (IF n \in passing THEN 0 ELSE 1)
      wider == n \notin passing /\ 2 * out > s.explored /\ s.ef < s.most
      counted ==
        [s EXCEPT !.explored = s.explored + 1, !.filteredOut = out,
                  !.ef = IF wider THEN (IF 2 * s.ef < s.most THEN 2 * s.ef ELSE s.most)
                         ELSE s.ef]
  IN IF ended THEN s
     ELSE Expand(graph, level, counted, n,
                 IF n \in passing THEN Keep(query, s.results \cup {n}, s.ef) ELSE s.results)

SearchLayerFiltered(graph, query, ef, start, level, passing) ==
  LET s0 == [frontier |-> {start}, visited |-> {start}, results |-> {}, broken |-> FALSE,
             ef |-> ef, most |-> ef * MaxExpansion, explored |-> 0, filteredOut |-> 0]
      after[k \in 0 .. Cardinality(DOMAIN graph)] ==
        IF k = 0 THEN s0 ELSE VisitFiltered(graph, query, passing, level, after[k - 1])
  IN IF start \in DOMAIN graph THEN after[Cardinality(DOMAIN graph)]
     ELSE [s0 EXCEPT !.frontier = {}]

\* One step of the greedy descent: the best of layer l is where the next one starts.
StepDown(graph, query, s, l) ==
  LET found == SearchLayer(graph, query, 1, s.node, l)
  IN IF s.broken THEN s
     ELSE [node |-> IF found.results = {} THEN s.node ELSE Closest(query, found.results),
           broken |-> found.broken]

\* Greedy descent from layer `top` to layer `bottom`.
Descend(graph, query, start, top, bottom) ==
  LET at[l \in bottom .. top] ==
        IF l = top THEN [node |-> start, broken |-> FALSE]
        ELSE StepDown(graph, query, at[l + 1], l + 1)
  IN at[bottom]

\* _select_neighbors: the nearest candidates that are not nearer to one chosen before,
\* filled up with the nearest of the others.
SelectNeighbors(query, candidates, m) ==
  LET Nearer(n) == {c \in candidates : Near(query, c) < Near(query, n)}
      \* The k-th candidate joins the chosen ones if it may.
      Spread(chosen, k) ==
        chosen \cup {n \in candidates :
                       /\ Cardinality(Nearer(n)) = k - 1 /\ Cardinality(chosen) < m
                       /\ \A c \in chosen : Dist(At[n], At[c]) >= Near(query, n)}
      spread[k \in 0 .. Cardinality(candidates)] ==
        IF k = 0 THEN {} ELSE Spread(spread[k - 1], k)
      best == spread[Cardinality(candidates)]
  IN IF Cardinality(candidates) <= m THEN candidates
     ELSE best \cup {n \in candidates \ best :
                       Cardinality(best) + Cardinality(Nearer(n) \ best) < m}
=============================================================================
