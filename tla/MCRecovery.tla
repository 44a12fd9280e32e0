----------------------------- MODULE MCRecovery -----------------------------
(* Recovery with the instances each service makes. *)
EXTENDS Recovery

CONSTANTS s1, s2, id1, id2, v1, v2

OneService == {s1} \X {"own", "fresh"}
OwnOfOne == {Own(s1)}
FreshOfOne == {Fresh(s1)}
TwoServices == {s1, s2} \X {"own", "fresh"}
OwnOfTwo == {Own(s1), Own(s2)}
FreshOfTwo == {Fresh(s1), Fresh(s2)}

\* Nothing tells two values of a vector apart.
SwapVals == Permutations({v1, v2})
=============================================================================
