----------------------------- MODULE MCMapClient ---------------------------
(***************************************************************************)
(* The map with its keys placed in one chain, in chains that the second or *)
(* the third insertion splits, and apart.                                  *)
(***************************************************************************)
EXTENDS MapClient

CONSTANTS k1, k2, k3

Hash(a, b, c) == [k \in {k1, k2, k3} |-> IF k = k1 THEN a ELSE IF k = k2 THEN b ELSE c]

MCHashes == {Hash(0, 0, 0), Hash(0, 2, 1), Hash(3, 1, 1), Hash(0, 1, 2)}
=============================================================================
