------------------------------- MODULE MCVec -------------------------------
(***************************************************************************)
(* Vec with interchangeable addresses, elements and vectors.               *)
(***************************************************************************)
EXTENDS Vec

Symmetry == Permutations(Addr \ {Own}) \cup Permutations(Value) \cup Permutations(Vecs)

\* Bound: nothing is called once a vector was used beyond the limits.
WithinLimits == beyond = {}

\* Bound: the elements of all vectors.
FewElements == MapThenSumSet(LAMBDA v : vec[v].length, Vecs) <= MaxLen
=============================================================================
