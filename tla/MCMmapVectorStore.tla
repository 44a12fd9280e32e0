------------------------- MODULE MCMmapVectorStore -------------------------
(* Model-checking instance of MmapVectorStore. *)
EXTENDS MmapVectorStore, TLC

Sym == Permutations(Ids) \cup Permutations(Vals)
=============================================================================
