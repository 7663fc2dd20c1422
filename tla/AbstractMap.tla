----------------------------- MODULE AbstractMap ---------------------------
(***************************************************************************)
(* What a map promises: the keys that were set and not removed, each with  *)
(* the value it was given last.                                            *)
(***************************************************************************)
CONSTANTS Keys, Values

VARIABLE content

Init == content = [k \in {} |-> k]

Set(key, value) ==
  content' = [k \in DOMAIN content \cup {key} |-> IF k = key THEN value ELSE content[k]]

Remove(key) == content' = [k \in DOMAIN content \ {key} |-> content[k]]

Next == \E key \in Keys : Remove(key) \/ \E value \in Values : Set(key, value)

Spec == Init /\ [][Next]_content
=============================================================================
