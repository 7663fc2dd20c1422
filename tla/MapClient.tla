------------------------------ MODULE MapClient ----------------------------
(***************************************************************************)
(* A client of csrc/include/rxi/map.h: one map, the macros map_set,        *)
(* map_remove, map_iter and map_next in any order, and allocations that    *)
(* may fail.  The client gives up an iterator that has ended or whose node *)
(* it has removed.                                                         *)
(***************************************************************************)
EXTENDS Integers, FiniteSets, SequencesExt

CONSTANTS
  Keys, Values,
  Hashes,      \* the hash functions to consider
  CountMod     \* the values of the uint64_t count

\* A hash is an unsigned number, and NULL is no node.
ASSUME HashesAssumption == \A h \in Hashes : h \in [Keys -> Nat]
ASSUME KeysAssumption == IsFiniteSet(Keys) /\ "none" \notin Keys

\* A node takes more than one byte, so memory holds fewer than 2^64 of them.
ASSUME CountAssumption == CountMod \in Nat /\ Cardinality(Keys) < CountMod

VARIABLES
  hash,
  m,           \* base: buckets and nnodes
  count,       \* count of map_t
  iter,        \* bucketidx (0 before the first), the node's key or "none",
               \* and whether the client uses it
  visited,     \* auxiliary: what map_next returned since map_iter
  stable,      \* auxiliary: the keys that were there all that time
  calm,        \* auxiliary: no resize in that time
  drift        \* auxiliary: what the calls have added to count alone, as a uint64_t

Map == INSTANCE RxiMap

ivars == <<iter, visited, stable, calm>>
vars == <<hash, m, count, ivars, drift>>

Present == {k \in Keys : Map!Has(m, k)}

Unused == [bucketidx |-> 0, node |-> "none", on |-> FALSE]

TypeOK ==
  /\ \A i \in 1..Len(m.buckets) :
       m.buckets[i] \in Seq([key : Keys, value : Values])
  /\ m.nnodes \in Nat
  /\ count \in 0..(CountMod - 1)
  /\ iter \in [bucketidx : Nat, node : Keys \cup {"none"}, on : BOOLEAN]
  /\ visited \in Seq(Keys)
  /\ stable \subseteq Keys
  /\ calm \in BOOLEAN
  /\ drift \in 0..(CountMod - 1)

Init ==
  /\ hash \in Hashes
  /\ m = Map!Empty
  /\ count = 0
  /\ iter = Unused
  /\ visited = <<>>
  /\ stable = {}
  /\ calm = TRUE
  /\ drift = 0

---------------------------------------------------------------------------
\* The counter is a larger number than a uint64_t.
FaultyCounted(delta, added) ==
  /\ count' = count + delta
  /\ drift' = (drift + (delta - added)) % CountMod

\* count++ or count--, which the macros do before the call, whatever number
\* of nodes it adds.
Counted(delta, added) ==
  /\ count' = (count + delta) % CountMod
  /\ drift' = (drift + (delta - added)) % CountMod

\* map_set of a key that is there, or is added.
Set(key, value) ==
  /\ m' = Map!map_set_(m, key, value)
  /\ Counted(1, IF Map!Has(m, key) THEN 0 ELSE 1)
  /\ calm' = (calm /\ (iter.on => Map!Has(m, key) \/ ~Map!Grows(m)))
  /\ UNCHANGED <<hash, iter, visited, stable>>

\* map_newnode returns NULL.
SetNoNode(key) ==
  /\ ~Map!Has(m, key)
  /\ Counted(1, 0)
  /\ UNCHANGED <<hash, m, ivars>>

\* map_resize cannot get more buckets.
SetNoBuckets(key) ==
  /\ ~Map!Has(m, key)
  /\ Map!Grows(m)
  /\ m' = Map!map_resize(m, Len(m.buckets))
  /\ Counted(1, 0)
  /\ UNCHANGED <<hash, ivars>>

GiveUp == iter' = Unused /\ visited' = <<>> /\ stable' = {} /\ calm' = TRUE

\* map_remove, which frees the node if there is one.
Delete(key) ==
  /\ m' = Map!map_remove_(m, key)
  /\ Counted(-1, IF Map!Has(m, key) THEN -1 ELSE 0)
  /\ \/ iter.node = key /\ GiveUp
     \/ iter.node # key /\ stable' = stable \ {key} /\ UNCHANGED <<iter, visited, calm>>
  /\ UNCHANGED hash

map_iter ==
  /\ iter' = [Unused EXCEPT !.on = TRUE]
  /\ visited' = <<>>
  /\ stable' = Present
  /\ calm' = TRUE
  /\ UNCHANGED <<hash, m, count, drift>>

\* The nodes behind iter.node in its chain, wherever that is now.
Behind ==
  IF iter.node = "none" THEN <<>>
  ELSE LET chain == m.buckets[Map!Bucket(m, iter.node)]
           at    == CHOOSE j \in Map!map_getref(m, iter.node) : TRUE
       IN  SubSeq(chain, at + 1, Len(chain))

\* The buckets that come next and are not empty.
NonEmpty == {b \in (iter.bucketidx + 1)..Len(m.buckets) : m.buckets[b] # <<>>}

\* The last node of the chain is taken.
FaultyFirst(chain) == chain[Len(chain)]

\* The node that a bucket or a next pointer points at.
First(chain) == chain[1]

\* map_next: the next node of the chain, or the first of the next bucket.
Visit(bucketidx, node) ==
  /\ iter' = [iter EXCEPT !.bucketidx = bucketidx, !.node = node.key]
  /\ visited' = Append(visited, node.key)
  /\ UNCHANGED <<hash, m, count, stable, calm, drift>>

NextInChain ==
  /\ iter.on
  /\ Behind # <<>>
  /\ Visit(iter.bucketidx, First(Behind))

NextBucket ==
  /\ iter.on
  /\ Behind = <<>>
  /\ NonEmpty # {}
  /\ LET b == CHOOSE b \in NonEmpty : \A c \in NonEmpty : b <= c
     IN  Visit(b, First(m.buckets[b]))

\* map_next returns NULL.
NextEnds ==
  /\ iter.on
  /\ Behind = <<>>
  /\ NonEmpty = {}
  /\ GiveUp
  /\ UNCHANGED <<hash, m, count, drift>>

Next ==
  \/ \E key \in Keys :
       \/ \E value \in Values : Set(key, value)
       \/ SetNoNode(key)
       \/ SetNoBuckets(key)
       \/ Delete(key)
  \/ map_iter
  \/ NextInChain \/ NextBucket \/ NextEnds

Spec == Init /\ [][Next]_vars

---------------------------------------------------------------------------
Abstract == INSTANCE AbstractMap
  WITH content <- [k \in Present |-> Map!map_get_(m, k)]

(***************************************************************************)
(* Through every resize, failed allocation, replacement and removal, a     *)
(* lookup (map_getref) finds exactly the keys that were set and not        *)
(* removed, with their last values.                                        *)
(***************************************************************************)
ImplementsMap == Abstract!Spec

(***************************************************************************)
(* Every node of the chains can be found by map_getref, no key has two,    *)
(* and nnodes counts them and never exceeds the buckets, also after a      *)
(* resize was refused.                                                     *)
(***************************************************************************)
ChainsSound ==
  LET order == Map!Order(m)
  IN  /\ Len(order) = m.nnodes
      /\ IsInjective(order)
      /\ Range(order) = Present
      /\ m.nnodes <= Len(m.buckets)

(***************************************************************************)
(* An iteration by map_iter and map_next, with insertions, replacements    *)
(* and removals of other keys in between, returns no key twice and, when   *)
(* it ends, has returned every key that was there all the time, as long as *)
(* no map_resize moved the nodes.                                          *)
(***************************************************************************)
IterationComplete ==
  [][calm => /\ NextEnds => stable \subseteq Range(visited)
             /\ IsInjective(visited')]_vars

(***************************************************************************)
(* The count that elf_gen.c writes into the headers is the number of       *)
(* nodes, plus one for every map_set that replaced a value or failed, and  *)
(* less one for every map_remove of a key that was not there: also when a  *)
(* resize was refused, and when the uint64_t wraps below zero.             *)
(***************************************************************************)
CountExact == count = (m.nnodes + drift) % CountMod
=============================================================================
