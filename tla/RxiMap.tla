------------------------------- MODULE RxiMap ------------------------------
(***************************************************************************)
(* The hash map of csrc/include/rxi/map.h as functions of its base: the    *)
(* buckets, each a chain of nodes, and the number of nodes.  The C code    *)
(* counts buckets from 0, this module from 1.  Definitions named Faulty... *)
(* are variants with a slip, used to show that properties can fail.        *)
(***************************************************************************)
EXTENDS Integers, SequencesExt

CONSTANT hash   \* map_hash: a number for every key

Node(key, value) == [key |-> key, value |-> value]

\* map_init
Empty == [buckets |-> <<>>, nnodes |-> 0]

\* The bucket of a key among n: hash & (n - 1), n being a power of 2.
map_bucketidx(key, n) == (hash[key] % n) + 1

\* A new node goes to the head of its chain.
map_addnode(buckets, node) ==
  [buckets EXCEPT ![map_bucketidx(node.key, Len(buckets))] = <<node>> \o @]

\* The loop over the buckets stops before the first one.
FaultyChained(buckets) ==
  FlattenSeq([i \in 1..Len(buckets) |-> IF i = 1 THEN <<>> ELSE Reverse(buckets[i])])

\* All nodes in the order map_resize chains them in: from the last bucket
\* down, every node in front of the ones before it.
Chained(buckets) == FlattenSeq([i \in 1..Len(buckets) |-> Reverse(buckets[i])])

\* The nodes are put into n empty buckets again, n being the old number if
\* the allocation failed.
map_resize(m, n) ==
  [m EXCEPT !.buckets = FoldLeft(map_addnode, [i \in 1..n |-> <<>>], Chained(@))]

\* The bucket that map_getref searches, and where it finds the key there: a
\* set of one position, or none.
Bucket(m, key) == map_bucketidx(key, Len(m.buckets))

map_getref(m, key) ==
  IF m.buckets = <<>> THEN {}
  ELSE LET chain == m.buckets[Bucket(m, key)]
       IN  {j \in 1..Len(chain) :
              chain[j].key = key /\ \A i \in 1..(j - 1) : chain[i].key # key}

Has(m, key) == map_getref(m, key) # {}

\* The value of a key that is there.
map_get_(m, key) == m.buckets[Bucket(m, key)][CHOOSE j \in map_getref(m, key) : TRUE].value

\* The value of a node is overwritten in its place, by map_set_ or through
\* the pointer map_get_ returned.
Replace(m, key, value) ==
  [m EXCEPT !.buckets[Bucket(m, key)][CHOOSE j \in map_getref(m, key) : TRUE].value = value]

\* Adding a node needs more buckets first.
Grows(m) == m.nnodes >= Len(m.buckets)

\* The map grows one node too late.
FaultyGrown(m) ==
  IF m.nnodes > Len(m.buckets) \/ m.buckets = <<>>
    THEN map_resize(m, IF m.buckets = <<>> THEN 1 ELSE 2 * Len(m.buckets)) ELSE m

Grown(m) ==
  IF Grows(m) THEN map_resize(m, IF m.buckets = <<>> THEN 1 ELSE 2 * Len(m.buckets)) ELSE m

Insert(m, node) == [buckets |-> map_addnode(m.buckets, node), nnodes |-> m.nnodes + 1]

\* map_set_ where no allocation fails.
map_set_(m, key, value) ==
  IF Has(m, key) THEN Replace(m, key, value) ELSE Insert(Grown(m), Node(key, value))

\* The node is not taken off nnodes.
FaultyRemove(m, key) ==
  IF Has(m, key)
    THEN [m EXCEPT !.buckets[Bucket(m, key)] =
                     RemoveAt(@, CHOOSE j \in map_getref(m, key) : TRUE)]
    ELSE m

map_remove_(m, key) ==
  IF Has(m, key)
    THEN [buckets |-> [m.buckets EXCEPT ![Bucket(m, key)] =
                         RemoveAt(@, CHOOSE j \in map_getref(m, key) : TRUE)],
          nnodes  |-> m.nnodes - 1]
    ELSE m

\* The keys in the order map_next_ returns them.
Order(m) == LET nodes == FlattenSeq(m.buckets) IN [i \in 1..Len(nodes) |-> nodes[i].key]
=============================================================================
