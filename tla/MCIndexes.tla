----------------------------- MODULE MCIndexes -----------------------------
(***************************************************************************)
(* Instances of the indexes: HNSW, Vamana and IVF.  A collection has one   *)
(* of them and they share no state, so a behaviour follows one, chosen at  *)
(* the start.                                                              *)
(***************************************************************************)
EXTENDS HnswIndex, VamanaIndex, IvfIndex, TLC

VARIABLE focus

indexVars == <<vars, vamanaVars, ivfVars, focus>>

(* HNSW: vectors on a line, no two of them equally far from a third. *)

Line == <<6, 0, 4, 1>>
Gap(a, b) == IF a > b THEN a - b ELSE b - a

(* Vamana: points on a line; alpha is 1.2. *)

MCMetric == [p \in Points |-> [q \in Points |-> Gap(p, q)]]
MCAlpha == <<6, 5>>

(* IVF: a second training moves x1 to the other cell. *)

MCCells == <<[x1 |-> 1, x2 |-> 2], [x1 |-> 2, x2 |-> 2]>>

IndexesInit ==
  /\ Init /\ VamanaInit /\ IvfInit
  /\ focus \in {"hnsw", "vamana", "ivf"}

IndexesNext ==
  \/ focus = "hnsw" /\ Next /\ UNCHANGED <<vamanaVars, ivfVars, focus>>
  \/ focus = "vamana" /\ VamanaNext /\ UNCHANGED <<vars, ivfVars, focus>>
  \/ focus = "ivf" /\ IvfNext /\ UNCHANGED <<vars, vamanaVars, focus>>

IndexesSpec == IndexesInit /\ [][IndexesNext]_indexVars

\* The ids of the Vamana graph are interchangeable.
IndexSymmetry == Permutations(VIds)
=============================================================================
