------------------------------ MODULE IvfIndex ------------------------------
(***************************************************************************)
(* The inverted file index, utils/ivf_index.py.  Training decides the cell *)
(* of every vector (its nearest centroid); adding an id puts a posting     *)
(* into the list of its vector's cell and stores its residual code.  An    *)
(* index is trained, filled, searched, saved and loaded by one caller; the *)
(* numbers of the quantizers are left out, a code is the training and cell *)
(* it was made with.                                                       *)
(***************************************************************************)
EXTENDS Integers, FiniteSets

CONSTANTS
  IvfIds,
  IvfVectors,
  Cells,      \* Cells[t][x]: cell of vector x after the t-th training
  NumCells,
  MaxTrains,  \* bound: trainings
  MaxAdds     \* bound: postings made

ASSUME IvfAssumption ==
  /\ MaxTrains \in Nat /\ MaxAdds \in Nat /\ NumCells \in Nat
  /\ Cells \in [1 .. MaxTrains -> [IvfVectors -> 1 .. NumCells]]

VARIABLES
  trained,    \* trainings so far; 0: not is_trained
  inverted,   \* inverted_file: inverted[c][v], the postings of id v in the list of cell c
  stored,     \* vectors, residuals: stored[v] is a set with the vector and code of id v
  vectorIds,  \* vector_ids: how often each id is in the list
  ivfFile,    \* the saved index
  ivfAdds,    \* postings made so far
  addedAgain  \* history: ids added while they were there

ivfVars == <<trained, inverted, stored, vectorIds, ivfFile, ivfAdds, addedAgain>>

Content == [trained |-> trained, inverted |-> inverted, stored |-> stored, ids |-> vectorIds,
            again |-> addedAgain]
NoIds == [v \in IvfIds |-> 0]
Empty == [c \in 1 .. NumCells |-> NoIds]

IvfInit ==
  /\ trained = 0 /\ inverted = Empty /\ stored = [v \in IvfIds |-> {}] /\ vectorIds = NoIds
  /\ ivfAdds = 0 /\ addedAgain = {} /\ ivfFile = Content

\* Training an index again leaves the postings and codes made before.
Train ==
  /\ trained < MaxTrains
  /\ trained' = trained + 1
  /\ UNCHANGED <<inverted, stored, vectorIds, ivfFile, ivfAdds, addedAgain>>

AddVector(v, x) ==
  LET cell == Cells[trained][x]
  IN /\ trained > 0 /\ ivfAdds < MaxAdds
     /\ inverted' = [inverted EXCEPT ![cell][v] = @ + 1]
     /\ stored' = [stored EXCEPT ![v] = {[vector |-> x, training |-> trained, cell |-> cell]}]
     /\ vectorIds' = [vectorIds EXCEPT ![v] = @ + 1]
     /\ ivfAdds' = ivfAdds + 1
     /\ addedAgain' = IF stored[v] = {} THEN addedAgain ELSE addedAgain \cup {v}
     /\ UNCHANGED <<trained, ivfFile>>

\* Buggy variant: only the list of the cell its code is for is searched.
DropPostingOfCell(v) ==
  [c \in 1 .. NumCells |->
     IF \E s \in stored[v] : s.cell = c THEN [inverted[c] EXCEPT ![v] = 0] ELSE inverted[c]]

\* Every posting of the id goes, wherever it is.
DropPostings(v) == [c \in 1 .. NumCells |-> [inverted[c] EXCEPT ![v] = 0]]

\* The list of ids loses one entry only.
DeleteId(v) ==
  /\ stored[v] # {}
  /\ inverted' = DropPostings(v)
  /\ stored' = [stored EXCEPT ![v] = {}]
  /\ vectorIds' = [vectorIds EXCEPT ![v] = IF @ = 0 THEN 0 ELSE @ - 1]
  /\ addedAgain' = IF vectorIds[v] = 1 THEN addedAgain \ {v} ELSE addedAgain
  /\ UNCHANGED <<trained, ivfFile, ivfAdds>>

ClearIndex ==
  /\ inverted' = Empty /\ stored' = [v \in IvfIds |-> {}] /\ vectorIds' = NoIds /\ addedAgain' = {}
  /\ UNCHANGED <<trained, ivfFile, ivfAdds>>

SaveIvf ==
  /\ trained > 0
  /\ ivfFile' = Content
  /\ UNCHANGED <<trained, inverted, stored, vectorIds, ivfAdds, addedAgain>>

LoadIvf ==
  /\ ivfFile.trained > 0
  /\ trained' = ivfFile.trained /\ inverted' = ivfFile.inverted
  /\ stored' = ivfFile.stored /\ vectorIds' = ivfFile.ids /\ addedAgain' = ivfFile.again
  /\ UNCHANGED <<ivfFile, ivfAdds>>

IvfNext ==
  \/ Train \/ ClearIndex \/ SaveIvf \/ LoadIvf
  \/ \E v \in IvfIds, x \in IvfVectors : AddVector(v, x)
  \/ \E v \in IvfIds : DeleteId(v)

IvfSpec == IvfInit /\ [][IvfNext]_ivfVars

-----------------------------------------------------------------------------
(* Properties *)

\* A search reads the code of every posting it meets, and finds an id by the list of the
\* cell its code is for: each posting has a code, each code its posting, and an id that was
\* not added twice is found once and counted once.
IvfListsMatchVectors ==
  \A v \in IvfIds :
    /\ (\E c \in 1 .. NumCells : inverted[c][v] > 0) => stored[v] # {}
    /\ \A s \in stored[v] : inverted[s.cell][v] > 0
    /\ v \notin addedAgain =>
         /\ \A c \in 1 .. NumCells : inverted[c][v] = Cardinality({s \in stored[v] : s.cell = c})
         /\ vectorIds[v] = Cardinality(stored[v])
=============================================================================
