---------------------------- MODULE ElfGenProofs ---------------------------
(***************************************************************************)
(* Proofs about the writer of the executable, for all hash functions, all  *)
(* lengths of the code and all sizes of headers and pages that the         *)
(* assumptions allow: the parts of the file do not overlap, the tables are *)
(* where the header says, and the kernel can load the result.              *)
(***************************************************************************)
EXTENDS ElfGen, FiniteSetTheorems, TLAPS

---------------------------------------------------------------------------
(* The two maps *)

Program ==
  [length : Nat, capacity : BOOLEAN, p_vaddr : Nat, p_offset : Nat, p_filesz : Nat,
   p_memsz : Nat]

Types == {"null", "progbits", "nobits", "strtab"}

SectionT ==
  [length : Nat, capacity : BOOLEAN, sh_type : Types, sh_addr : Nat, sh_name : Nat,
   sh_size : Nat, sh_offset : Nat, strings : SUBSET [at : Nat, name : SectionKeys]]

\* The facts about maps are those of a client of the map, with the keys and
\* the values of this one.
Facts == INSTANCE MapProofs
  WITH Keys <- SectionKeys, Values <- Program \cup SectionT, CountMod <- 4,
       m <- segments, count <- 0, iter <- 0, visited <- <<>>, stable <- {},
       calm <- TRUE, drift <- 0

LEMMA KeysFinite == IsFiniteSet(SectionKeys) /\ Cardinality(SectionKeys) = 3
<1>1. IsFiniteSet({}) /\ Cardinality({}) = 0
  BY FS_EmptySet
<1>2. IsFiniteSet({".text"}) /\ Cardinality({".text"}) = 1
  <2>1. {".text"} = {} \cup {".text"} /\ ".text" \notin {}
    OBVIOUS
  <2> QED
    BY <1>1, <2>1, FS_AddElement
<1>3. IsFiniteSet({".text", ".bss"}) /\ Cardinality({".text", ".bss"}) = 2
  <2>1. {".text", ".bss"} = {".text"} \cup {".bss"} /\ ".bss" \notin {".text"}
    OBVIOUS
  <2> QED
    BY <1>2, <2>1, FS_AddElement
<1>4. SectionKeys = {".text", ".bss"} \cup {".shstrtab"} /\ ".shstrtab" \notin {".text", ".bss"}
  BY DEF SectionKeys
<1> QED
  BY <1>3, <1>4, FS_AddElement

\* What MapProofs assumes holds of the writer.
LEMMA FactsApply ==
  /\ Facts!HashesAssumption /\ Facts!KeysAssumption /\ Facts!CountAssumption
<1>1. Facts!IsFiniteSet(SectionKeys) <=> IsFiniteSet(SectionKeys)
  BY DEF IsFiniteSet, Facts!IsFiniteSet
<1>2. Facts!Cardinality(SectionKeys) = Cardinality(SectionKeys)
  BY DEF Cardinality, Facts!Cardinality, IsFiniteSet, Facts!IsFiniteSet
<1>3. "none" \notin SectionKeys
  BY DEF SectionKeys
<1>4. Facts!HashesAssumption
  BY HashesAssumption DEF Facts!HashesAssumption
<1>5. Facts!KeysAssumption
  BY <1>1, <1>3, KeysFinite DEF Facts!KeysAssumption
<1>6. Facts!CountAssumption
  BY <1>2, KeysFinite DEF Facts!CountAssumption
<1> QED
  BY <1>4, <1>5, <1>6

\* The functions of RxiMap are the same here and there.
LEMMA SameMap ==
  /\ Facts!Map!Empty = Map!Empty
  /\ \A w : Facts!Map!Order(w) = Map!Order(w)
  /\ \A w, k : Facts!Map!Has(w, k) = Map!Has(w, k)
  /\ \A w, k : Facts!Map!map_get_(w, k) = Map!map_get_(w, k)
  /\ \A w, k, v : Facts!Map!Replace(w, k, v) = Map!Replace(w, k, v)
  /\ \A w, k, v : Facts!Map!map_set_(w, k, v) = Map!map_set_(w, k, v)
  /\ \A k, v : Facts!Map!Node(k, v) = Map!Node(k, v)
<1>1. Facts!Map!Empty = Map!Empty
  BY DEF Map!Empty, Facts!Map!Empty
<1>2. \A w : Facts!Map!Order(w) = Map!Order(w)
  BY DEF Map!Order, Facts!Map!Order, Map!FlattenSeq, Facts!Map!FlattenSeq
<1>3. \A key, n : Facts!Map!map_bucketidx(key, n) = Map!map_bucketidx(key, n)
  BY DEF Map!map_bucketidx, Facts!Map!map_bucketidx
<1>4. \A w, k : Facts!Map!Bucket(w, k) = Map!Bucket(w, k)
  BY <1>3 DEF Map!Bucket, Facts!Map!Bucket
<1>5. \A w, k : Facts!Map!map_getref(w, k) = Map!map_getref(w, k)
  BY <1>4 DEF Map!map_getref, Facts!Map!map_getref
<1>6. \A w, k : Facts!Map!Has(w, k) = Map!Has(w, k)
  BY <1>5 DEF Map!Has, Facts!Map!Has
<1>7. \A w, k : Facts!Map!map_get_(w, k) = Map!map_get_(w, k)
  BY <1>4, <1>5 DEF Map!map_get_, Facts!Map!map_get_
<1>8. \A w, k, v : Facts!Map!Replace(w, k, v) = Map!Replace(w, k, v)
  BY <1>4, <1>5 DEF Map!Replace, Facts!Map!Replace
<1>9. \A k, v : Facts!Map!Node(k, v) = Map!Node(k, v)
  BY DEF Map!Node, Facts!Map!Node
<1>10. \A b, x : Facts!Map!map_addnode(b, x) = Map!map_addnode(b, x)
  BY <1>3 DEF Map!map_addnode, Facts!Map!map_addnode
<1>11. \A w, n : Facts!Map!map_resize(w, n) = Map!map_resize(w, n)
  BY DEF Map!map_resize, Facts!Map!map_resize, Map!FoldLeft, Facts!Map!FoldLeft,
         Map!MapThenFoldSet, Facts!Map!MapThenFoldSet, Map!Max, Facts!Map!Max,
         Map!map_addnode, Facts!Map!map_addnode, Map!map_bucketidx, Facts!Map!map_bucketidx,
         Map!Chained, Facts!Map!Chained, Map!FlattenSeq, Facts!Map!FlattenSeq,
         Map!Reverse, Facts!Map!Reverse
<1>12. \A w : Facts!Map!Grown(w) = Map!Grown(w)
  BY <1>11 DEF Map!Grown, Facts!Map!Grown, Map!Grows, Facts!Map!Grows
<1>13. \A w, x : Facts!Map!Insert(w, x) = Map!Insert(w, x)
  BY <1>10 DEF Map!Insert, Facts!Map!Insert
<1>14. \A w, k, v : Facts!Map!map_set_(w, k, v) = Map!map_set_(w, k, v)
  BY <1>6, <1>8, <1>9, <1>12, <1>13 DEF Map!map_set_, Facts!Map!map_set_
<1> QED
  BY <1>1, <1>2, <1>6, <1>7, <1>8, <1>9, <1>14

\* w is a sound map with the keys d.
Good(w, d) ==
  /\ hash \in [SectionKeys -> Nat]
  /\ Facts!MapOK(hash, w) /\ Facts!KeysOf(w.buckets) = d

\* The node of a key, and the keys a lookup finds.
LEMMA GoodHas ==
  ASSUME NEW w, NEW d, Good(w, d), NEW key \in SectionKeys
  PROVE  /\ Map!Has(w, key) <=> key \in d
         /\ d \subseteq SectionKeys
         /\ key \in d => /\ Map!Node(key, Map!map_get_(w, key)) \in Facts!Nodes(w.buckets)
                         /\ Map!map_get_(w, key) \in Program \cup SectionT
<1>1. hash \in [SectionKeys -> Nat] /\ Facts!Sound(hash, w.buckets) /\ Facts!KeysOf(w.buckets) = d
  BY DEF Good, Facts!MapOK
<1>2. /\ Facts!Map!Has(w, key) <=> key \in d
      /\ Facts!Map!Has(w, key) => Facts!Found(w, key)
  BY <1>1, FactsApply, Facts!GetRefIs
<1>3. d \subseteq SectionKeys
  BY <1>1 DEF Facts!KeysOf
<1>4. ASSUME key \in d
      PROVE  /\ Map!Node(key, Map!map_get_(w, key)) \in Facts!Nodes(w.buckets)
             /\ Map!map_get_(w, key) \in Program \cup SectionT
  <2>1. PICK x \in Facts!Nodes(w.buckets) : x.key = key
    BY <1>1, <1>4 DEF Facts!KeysOf
  <2>2. Facts!Map!map_get_(w, key) = x.value
    BY <1>1, <1>2, <1>4, <2>1, FactsApply, Facts!FoundIs
  <2>3. x \in [key : SectionKeys, value : Program \cup SectionT]
    BY DEF Facts!Nodes, Facts!NodeT
  <2>4. x = [key |-> x.key, value |-> x.value] /\ x.value \in Program \cup SectionT
    BY <2>3
  <2>5. x = Map!Node(key, x.value)
    BY <2>1, <2>4 DEF Map!Node
  <2> QED
    BY <2>2, <2>4, <2>5, SameMap
<1> QED
  BY <1>2, <1>3, <1>4, SameMap

\* A node that is there is the one a lookup finds.
LEMMA GoodGet ==
  ASSUME NEW w, NEW d, Good(w, d), NEW key \in SectionKeys, NEW v,
         Map!Node(key, v) \in Facts!Nodes(w.buckets)
  PROVE  key \in d /\ Map!map_get_(w, key) = v
<1>1. hash \in [SectionKeys -> Nat] /\ Facts!Sound(hash, w.buckets) /\ Facts!KeysOf(w.buckets) = d
  BY DEF Good, Facts!MapOK
<1>2. PICK x \in Facts!Nodes(w.buckets) : x = Map!Node(key, v)
  OBVIOUS
<1>3. x.key = key /\ x.value = v
  BY <1>2 DEF Map!Node
<1>4. key \in d
  BY <1>1, <1>3 DEF Facts!KeysOf
<1>5. Facts!Found(w, key)
  BY <1>1, <1>4, FactsApply, Facts!GetRefIs
<1>6. Facts!Map!map_get_(w, key) = x.value
  BY <1>1, <1>3, <1>5, FactsApply, Facts!FoundIs
<1> QED
  BY <1>3, <1>4, <1>6, SameMap

\* w has the keys d, and r those and key, which has the value v now.
SetTo(r, w, d, key, v) ==
  /\ Good(r, d \cup {key})
  /\ Map!map_get_(r, key) = v
  /\ \A k \in d : k # key => Map!map_get_(r, k) = Map!map_get_(w, k)

LEMMA SetToIs ==
  ASSUME NEW w, NEW d, Good(w, d), NEW key \in SectionKeys, NEW v \in Program \cup SectionT,
         NEW r, Facts!MapOK(hash, r),
         Facts!Nodes(r.buckets) = Facts!WithNode(Facts!Nodes(w.buckets), key, v)
  PROVE  SetTo(r, w, d, key, v)
<1> DEFINE N == Facts!Nodes(w.buckets)
           M == Facts!Nodes(r.buckets)
<1>1. M = {x \in N : x.key # key} \cup {Map!Node(key, v)}
  BY SameMap DEF Facts!WithNode
<1>2. d = {k \in SectionKeys : \E x \in N : x.key = k}
  BY DEF Good, Facts!KeysOf
<1>3. Facts!KeysOf(r.buckets) = {k \in SectionKeys : \E x \in M : x.key = k}
  BY DEF Facts!KeysOf
<1>4. Map!Node(key, v).key = key
  BY DEF Map!Node
<1>5. \A k \in d \cap SectionKeys : Map!Node(k, Map!map_get_(w, k)) \in N
  BY GoodHas
<1>6. \A k, a : Map!Node(k, a).key = k
  BY DEF Map!Node
<1> HIDE DEF N, M
<1>7. Facts!KeysOf(r.buckets) = d \cup {key}
  BY <1>1, <1>2, <1>3, <1>4
<1>8. Good(r, d \cup {key})
  BY <1>7 DEF Good
<1>9. Map!map_get_(r, key) = v
  BY <1>1, <1>8, GoodGet DEF M
<1>10. ASSUME NEW k \in d, k # key PROVE Map!map_get_(r, k) = Map!map_get_(w, k)
  <2>1. k \in SectionKeys
    BY <1>2
  <2>2. Map!Node(k, Map!map_get_(w, k)) \in M
    BY <1>1, <1>5, <1>6, <1>10, <2>1
  <2> QED
    BY <1>8, <2>1, <2>2, GoodGet DEF M
<1> QED
  BY <1>8, <1>9, <1>10 DEF SetTo

LEMMA GoodSet ==
  ASSUME NEW w, NEW d, Good(w, d), NEW key \in SectionKeys, NEW v \in Program \cup SectionT
  PROVE  SetTo(Map!map_set_(w, key, v), w, d, key, v)
<1>1. PICK r : r = Facts!Map!map_set_(w, key, v)
  OBVIOUS
<1>2. hash \in [SectionKeys -> Nat] /\ Facts!MapOK(hash, w)
  BY DEF Good
<1>3. /\ Facts!MapOK(hash, r)
      /\ Facts!Nodes(r.buckets) = Facts!WithNode(Facts!Nodes(w.buckets), key, v)
  BY <1>1, <1>2, FactsApply, Facts!SetIs
<1>4. SetTo(r, w, d, key, v)
  BY <1>3, SetToIs
<1> QED
  BY <1>1, <1>4, SameMap

LEMMA GoodReplace ==
  ASSUME NEW w, NEW d, Good(w, d), NEW key \in d, NEW v \in Program \cup SectionT
  PROVE  SetTo(Map!Replace(w, key, v), w, d, key, v) /\ d \cup {key} = d
<1>0. key \in SectionKeys
  BY DEF Good, Facts!KeysOf
<1>1. Map!Has(w, key)
  BY <1>0, GoodHas
<1>2. Map!Replace(w, key, v) = Map!map_set_(w, key, v)
  BY <1>1 DEF Map!map_set_
<1> QED
  BY <1>0, <1>2, GoodSet

LEMMA GoodEmpty ==
  ASSUME hash \in [SectionKeys -> Nat]
  PROVE  Good(Map!Empty, {})
<1>1. Facts!MapOK(hash, Facts!Map!Empty) /\ Facts!KeysOf(<<>>) = {}
  BY FactsApply, Facts!EmptyOK
<1>2. PICK e : e = Facts!Map!Empty
  OBVIOUS
<1>3. e.buckets = <<>>
  BY <1>2 DEF Facts!Map!Empty
<1>4. Facts!MapOK(hash, e) /\ Facts!KeysOf(e.buckets) = {}
  BY <1>1, <1>2, <1>3
<1> QED
  BY <1>2, <1>4, SameMap DEF Good

\* Every key comes once in the order of the map.
LEMMA GoodOrder ==
  ASSUME NEW w, NEW d, Good(w, d), NEW order, order = Map!Order(w)
  PROVE  /\ DOMAIN order = 1..Len(order) /\ Len(order) = w.nnodes
         /\ w.nnodes \in Nat
         /\ \A i, j \in DOMAIN order : order[i] = order[j] => i = j
         /\ d = {order[i] : i \in DOMAIN order}
<1>1. Facts!MapOK(hash, w) /\ Facts!KeysOf(w.buckets) = d
  BY DEF Good
<1>2. order = Facts!Map!Order(w)
  BY SameMap
<1>3. /\ DOMAIN order = 1..Len(order) /\ Len(order) = w.nnodes
      /\ Facts!Map!IsInjective(order)
      /\ Facts!Map!Range(order) = Facts!KeysOf(w.buckets)
  BY <1>1, <1>2, FactsApply, Facts!OrderIs
<1>4. w.nnodes \in Nat
  BY <1>1 DEF Facts!MapOK, Facts!MapT
<1> QED
  BY <1>1, <1>3, <1>4 DEF Facts!Map!IsInjective, Facts!Map!Range

---------------------------------------------------------------------------
(* The orders of two and of three keys *)

Two == {".text", ".bss"}

\* order is the sequence of its entries, which are those of d, each once.
Lists(order, d) ==
  /\ DOMAIN order = 1..Len(order) /\ Len(order) \in Nat
  /\ \A i, j \in DOMAIN order : order[i] = order[j] => i = j
  /\ d = {order[i] : i \in DOMAIN order}
  /\ order = [i \in DOMAIN order |-> order[i]]

LEMMA OrderLists ==
  ASSUME NEW w, NEW d, Good(w, d)
  PROVE  Lists(Map!Order(w), d) /\ Len(Map!Order(w)) = w.nnodes
<1>1. PICK order : order = Map!Order(w)
  OBVIOUS
<1>2. order = [i \in DOMAIN order |-> order[i]]
  <2>1. PICK n, f : order = [i \in 1..n |-> f[i].key]
    BY <1>1 DEF Map!Order
  <2> QED
    BY <2>1
<1>3. /\ DOMAIN order = 1..Len(order) /\ Len(order) = w.nnodes /\ w.nnodes \in Nat
      /\ \A i, j \in DOMAIN order : order[i] = order[j] => i = j
      /\ d = {order[i] : i \in DOMAIN order}
  BY <1>1, GoodOrder
<1>4. Lists(order, d)
  BY <1>2, <1>3 DEF Lists
<1> QED
  BY <1>1, <1>3, <1>4

LEMMA ListTwo ==
  ASSUME NEW order, Lists(order, Two)
  PROVE  /\ Len(order) = 2 /\ DOMAIN order = 1..2
         /\ \/ order[1] = ".text" /\ order[2] = ".bss"
            \/ order[1] = ".bss" /\ order[2] = ".text"
<1>1. PICK n \in Nat : n = Len(order)
  BY DEF Lists
<1>2. /\ DOMAIN order = 1..n
      /\ \A i, j \in 1..n : order[i] = order[j] => i = j
      /\ Two = {order[i] : i \in 1..n}
  BY <1>1, Zenon DEF Lists
<1>3. PICK a \in 1..n : order[a] = ".text"
  BY <1>2 DEF Two
<1>4. PICK b \in 1..n : order[b] = ".bss"
  BY <1>2 DEF Two
<1>5. \A i \in 1..n : i = a \/ i = b
  BY <1>2, <1>3, <1>4 DEF Two
<1>6. a # b
  BY <1>3, <1>4
<1>7. n = 2
  <2>1. 1 \in 1..n /\ 2 \in 1..n
    BY <1>3, <1>4, <1>6
  <2>2. 3 \notin 1..n
    BY <1>5, <2>1
  <2> QED
    BY <2>1, <2>2
<1>8. (a = 1 /\ b = 2) \/ (a = 2 /\ b = 1)
  BY <1>3, <1>4, <1>6, <1>7
<1> QED
  BY <1>1, <1>2, <1>3, <1>4, <1>7, <1>8

LEMMA ListThree ==
  ASSUME NEW order, Lists(order, SectionKeys)
  PROVE  /\ Len(order) = 3 /\ DOMAIN order = 1..3
         /\ order[1] # order[2] /\ order[1] # order[3] /\ order[2] # order[3]
         /\ SectionKeys = {order[1], order[2], order[3]}
<1>1. PICK n \in Nat : n = Len(order)
  BY DEF Lists
<1>2. /\ DOMAIN order = 1..n
      /\ \A i, j \in 1..n : order[i] = order[j] => i = j
      /\ SectionKeys = {order[i] : i \in 1..n}
  BY <1>1, Zenon DEF Lists
<1>3. PICK a \in 1..n : order[a] = ".text"
  BY <1>2 DEF SectionKeys
<1>4. PICK b \in 1..n : order[b] = ".bss"
  BY <1>2 DEF SectionKeys
<1>5. PICK c \in 1..n : order[c] = ".shstrtab"
  BY <1>2 DEF SectionKeys
<1>6. \A i \in 1..n : i = a \/ i = b \/ i = c
  <2> TAKE i \in 1..n
  <2>1. order[i] \in SectionKeys
    BY <1>2
  <2>2. order[i] = order[a] \/ order[i] = order[b] \/ order[i] = order[c]
    BY <1>3, <1>4, <1>5, <2>1 DEF SectionKeys
  <2> QED
    BY <1>2, <2>2
<1>7. a # b /\ a # c /\ b # c
  BY <1>3, <1>4, <1>5
<1>8. n = 3
  <2>1. n >= 3
    BY <1>3, <1>4, <1>5, <1>7
  <2>2. 1 \in 1..n /\ 2 \in 1..n /\ 3 \in 1..n
    BY <2>1
  <2>3. 4 \notin 1..n
    BY <1>6, <2>2
  <2> QED
    BY <2>1, <2>3
<1>9. 1 \in 1..n /\ 2 \in 1..n /\ 3 \in 1..n /\ 1..n = {1, 2, 3}
  BY <1>8
<1>10. order[1] # order[2] /\ order[1] # order[3] /\ order[2] # order[3]
  BY <1>2, <1>9
<1> QED
  BY <1>1, <1>2, <1>8, <1>9, <1>10

---------------------------------------------------------------------------
(* Folds over two and three keys *)

\* The steps of the folds of the writer.
Step(kind, acc, name) ==
  CASE kind = "fix_segment" -> FixSegment(acc, name)
    [] kind = "fix_section" -> FixSection(acc, name)
    [] kind = "phdr"        -> PutPhdr(acc, name)
    [] kind = "shdr"        -> PutShdr(acc, name)
    [] kind = "put_segment" -> PutSegment(acc, name)
    [] kind = "put_section" -> PutSection(acc, name)

\* The table a fold over seq is defined by: a result for every set of places.
IsTable(t, kind, base, seq, D) ==
  t = [d \in SUBSET D |-> IF d = {} THEN base
                          ELSE Step(kind, t[d \ {Max(d)}], seq[Max(d)])]

LEMMA MaxIs ==
  ASSUME NEW n \in Nat, NEW d, d \subseteq 1..n, d # {}
  PROVE  Max(d) \in d /\ \A y \in d : Max(d) >= y
<1>1. Facts!Map!Max(d) = Max(d)
  BY DEF Max, Facts!Map!Max
<1> QED
  BY <1>1, FactsApply, Facts!MaxIs

LEMMA TableStep ==
  ASSUME NEW kind, NEW base, NEW seq, NEW n \in Nat, NEW g, IsTable(g, kind, base, seq, 1..n)
  PROVE  \E f : IsTable(f, kind, base, seq, 1..(n + 1))
<1> DEFINE T(t, d) == IF d = {} THEN base ELSE Step(kind, t[d \ {Max(d)}], seq[Max(d)])
           f == [d \in SUBSET (1..(n + 1)) |-> T(g, d)]
<1>1. \A d \in SUBSET (1..n) : f[d] = g[d]
  <2> TAKE d \in SUBSET (1..n)
  <2>1. d \in SUBSET (1..(n + 1))
    OBVIOUS
  <2>2. g[d] = T(g, d)
    BY DEF IsTable
  <2> QED
    BY <2>1, <2>2
<1>2. ASSUME NEW d \in SUBSET (1..(n + 1)), d # {} PROVE d \ {Max(d)} \in SUBSET (1..n)
  <2>1. PICK x : x = Max(d)
    OBVIOUS
  <2>2. n + 1 \in Nat
    OBVIOUS
  <2>3. x \in d /\ \A y \in d : x >= y
    BY <1>2, <2>1, <2>2, MaxIs
  <2>4. \A y \in d : y \in 1..(n + 1) /\ x \in 1..(n + 1) /\ x >= y
    BY <2>3
  <2>5. \A y \in d : y # x => y \in 1..n
    BY <2>4
  <2> QED
    BY <2>1, <2>5
<1>3. \A d \in SUBSET (1..(n + 1)) : d # {} => f[d \ {Max(d)}] = g[d \ {Max(d)}]
  BY <1>1, <1>2
<1>4. f = [d \in SUBSET (1..(n + 1)) |-> T(f, d)]
  BY <1>3
<1> HIDE DEF f
<1> QED
  BY <1>4 DEF IsTable

LEMMA TableExists ==
  ASSUME NEW kind, NEW base, NEW seq, NEW n \in {2, 3}
  PROVE  \E f : IsTable(f, kind, base, seq, 1..n)
<1> DEFINE f == [d \in SUBSET (1..0) |-> base]
<1>1. \A d \in SUBSET (1..0) : d = {}
  OBVIOUS
<1>2. IsTable(f, kind, base, seq, 1..0)
  BY <1>1 DEF IsTable
<1> HIDE DEF f
<1>3. \A k \in Nat : (\E g : IsTable(g, kind, base, seq, 1..k)) =>
                        \E g : IsTable(g, kind, base, seq, 1..(k + 1))
  BY TableStep
<1>4. 0 \in Nat /\ 1 \in Nat /\ 2 \in Nat /\ 0 + 1 = 1 /\ 1 + 1 = 2 /\ 2 + 1 = 3
  OBVIOUS
<1>5. \E g : IsTable(g, kind, base, seq, 1..1)
  BY <1>2, <1>3, <1>4
<1>6. \E g : IsTable(g, kind, base, seq, 1..2)
  BY <1>3, <1>4, <1>5
<1>7. \E g : IsTable(g, kind, base, seq, 1..3)
  BY <1>3, <1>4, <1>6
<1>8. n = 2 \/ n = 3
  OBVIOUS
<1> QED
  BY <1>6, <1>7, <1>8

\* What a fold with the steps of kind over the n entries of seq returns.
Folded(r, kind, base, seq, n) ==
  /\ n = 2 => r = Step(kind, Step(kind, base, seq[1]), seq[2])
  /\ n = 3 => r = Step(kind, Step(kind, Step(kind, base, seq[1]), seq[2]), seq[3])

\* What the table says of the first two and of the first three places.
LEMMA TableEnd ==
  ASSUME NEW kind, NEW base, NEW seq, NEW n \in {2, 3}, NEW t, IsTable(t, kind, base, seq, 1..n)
  PROVE  Folded(t[1..n], kind, base, seq, n)
<1>1. \A d \in SUBSET (1..n) : t[d] = IF d = {} THEN base
                                      ELSE Step(kind, t[d \ {Max(d)}], seq[Max(d)])
  BY DEF IsTable
<1>2. t[{}] = base
  BY <1>1
<1>3. ASSUME NEW i \in 1..n PROVE t[1..i] = Step(kind, t[1..(i - 1)], seq[i])
  <2>1. 1..i \in SUBSET (1..n) /\ 1..i # {} /\ i \in 1..i /\ i \in Nat
    OBVIOUS
  <2>2. PICK x : x = Max(1..i)
    OBVIOUS
  <2>3. x \in 1..i /\ \A y \in 1..i : x >= y
    BY <2>1, <2>2, MaxIs
  <2>4. x = i
    BY <2>1, <2>3
  <2>5. (1..i) \ {i} = 1..(i - 1)
    OBVIOUS
  <2> QED
    BY <1>1, <2>1, <2>2, <2>4, <2>5
<1>4. 1..(1 - 1) = {}
  OBVIOUS
<1>5. t[1..1] = Step(kind, base, seq[1])
  <2>1. 1 \in 1..n
    OBVIOUS
  <2>2. t[1..1] = Step(kind, t[1..(1 - 1)], seq[1])
    BY <1>3, <2>1
  <2> QED
    BY <1>2, <1>4, <2>2
<1>6. t[1..2] = Step(kind, t[1..1], seq[2])
  <2>1. 2 \in 1..n /\ 2 - 1 = 1
    OBVIOUS
  <2> QED
    BY <1>3, <2>1
<1>7. CASE n = 2
  BY <1>5, <1>6, <1>7 DEF Folded
<1>8. CASE n = 3
  <2>1. 3 \in 1..n /\ 3 - 1 = 2
    BY <1>8
  <2>2. t[1..3] = Step(kind, t[1..2], seq[3])
    BY <1>3, <2>1
  <2> QED
    BY <1>5, <1>6, <1>8, <2>2 DEF Folded
<1> QED
  BY <1>7, <1>8

FixSegmentAll(base, seq) == FoldLeft(FixSegment, base, seq)

LEMMA FoldFixSegment ==
  ASSUME NEW base, NEW seq, NEW n \in {2, 3}, DOMAIN seq = 1..n
  PROVE  Folded(FixSegmentAll(base, seq), "fix_segment", base, seq, n)
<1> DEFINE B(t) == [d \in SUBSET (1..n) |->
                      IF d = {} THEN base ELSE FixSegment(t[d \ {Max(d)}], seq[Max(d)])]
           S(t) == [d \in SUBSET (1..n) |->
                      IF d = {} THEN base ELSE Step("fix_segment", t[d \ {Max(d)}], seq[Max(d)])]
           f == CHOOSE t : t = B(t)
<1>1. \A acc, name : Step("fix_segment", acc, name) = FixSegment(acc, name)
  BY DEF Step
<1>2. \A t : B(t) = S(t)
  BY <1>1
<1>3. PICK t : IsTable(t, "fix_segment", base, seq, 1..n)
  BY TableExists
<1>4. t = S(t)
  BY <1>3 DEF IsTable
<1>5. FoldLeft(FixSegment, base, seq) = f[1..n]
  BY DEF FoldLeft, MapThenFoldSet
<1>6. f = B(f)
  <2> HIDE DEF B, S
  <2>1. t = B(t)
    BY <1>2, <1>4
  <2> QED
    BY <2>1
<1> HIDE DEF f, B
<1>7. f = S(f)
  BY <1>2, <1>6
<1>8. PICK g : g = f
  OBVIOUS
<1>9. IsTable(g, "fix_segment", base, seq, 1..n)
  BY <1>7, <1>8 DEF IsTable
<1> HIDE DEF S
<1>10. Folded(g[1..n], "fix_segment", base, seq, n)
  BY <1>9, TableEnd
<1>11. FixSegmentAll(base, seq) = g[1..n]
  BY <1>5, <1>8 DEF FixSegmentAll
<1> QED
  BY <1>10, <1>11

FixSectionAll(base, seq) == FoldLeft(FixSection, base, seq)

LEMMA FoldFixSection ==
  ASSUME NEW base, NEW seq, NEW n \in {2, 3}, DOMAIN seq = 1..n
  PROVE  Folded(FixSectionAll(base, seq), "fix_section", base, seq, n)
<1> DEFINE B(t) == [d \in SUBSET (1..n) |->
                      IF d = {} THEN base ELSE FixSection(t[d \ {Max(d)}], seq[Max(d)])]
           S(t) == [d \in SUBSET (1..n) |->
                      IF d = {} THEN base ELSE Step("fix_section", t[d \ {Max(d)}], seq[Max(d)])]
           f == CHOOSE t : t = B(t)
<1>1. \A acc, name : Step("fix_section", acc, name) = FixSection(acc, name)
  BY DEF Step
<1>2. \A t : B(t) = S(t)
  BY <1>1
<1>3. PICK t : IsTable(t, "fix_section", base, seq, 1..n)
  BY TableExists
<1>4. t = S(t)
  BY <1>3 DEF IsTable
<1>5. FoldLeft(FixSection, base, seq) = f[1..n]
  BY DEF FoldLeft, MapThenFoldSet
<1>6. f = B(f)
  <2> HIDE DEF B, S
  <2>1. t = B(t)
    BY <1>2, <1>4
  <2> QED
    BY <2>1
<1> HIDE DEF f, B
<1>7. f = S(f)
  BY <1>2, <1>6
<1>8. PICK g : g = f
  OBVIOUS
<1>9. IsTable(g, "fix_section", base, seq, 1..n)
  BY <1>7, <1>8 DEF IsTable
<1> HIDE DEF S
<1>10. Folded(g[1..n], "fix_section", base, seq, n)
  BY <1>9, TableEnd
<1>11. FixSectionAll(base, seq) = g[1..n]
  BY <1>5, <1>8 DEF FixSectionAll
<1> QED
  BY <1>10, <1>11

PutPhdrAll(base, seq) == FoldLeft(PutPhdr, base, seq)

LEMMA FoldPutPhdr ==
  ASSUME NEW base, NEW seq, NEW n \in {2, 3}, DOMAIN seq = 1..n
  PROVE  Folded(PutPhdrAll(base, seq), "phdr", base, seq, n)
<1> DEFINE B(t) == [d \in SUBSET (1..n) |->
                      IF d = {} THEN base ELSE PutPhdr(t[d \ {Max(d)}], seq[Max(d)])]
           S(t) == [d \in SUBSET (1..n) |->
                      IF d = {} THEN base ELSE Step("phdr", t[d \ {Max(d)}], seq[Max(d)])]
           f == CHOOSE t : t = B(t)
<1>1. \A acc, name : Step("phdr", acc, name) = PutPhdr(acc, name)
  BY DEF Step
<1>2. \A t : B(t) = S(t)
  BY <1>1
<1>3. PICK t : IsTable(t, "phdr", base, seq, 1..n)
  BY TableExists
<1>4. t = S(t)
  BY <1>3 DEF IsTable
<1>5. FoldLeft(PutPhdr, base, seq) = f[1..n]
  BY DEF FoldLeft, MapThenFoldSet
<1>6. f = B(f)
  <2> HIDE DEF B, S
  <2>1. t = B(t)
    BY <1>2, <1>4
  <2> QED
    BY <2>1
<1> HIDE DEF f, B
<1>7. f = S(f)
  BY <1>2, <1>6
<1>8. PICK g : g = f
  OBVIOUS
<1>9. IsTable(g, "phdr", base, seq, 1..n)
  BY <1>7, <1>8 DEF IsTable
<1> HIDE DEF S
<1>10. Folded(g[1..n], "phdr", base, seq, n)
  BY <1>9, TableEnd
<1>11. PutPhdrAll(base, seq) = g[1..n]
  BY <1>5, <1>8 DEF PutPhdrAll
<1> QED
  BY <1>10, <1>11

PutShdrAll(base, seq) == FoldLeft(PutShdr, base, seq)

LEMMA FoldPutShdr ==
  ASSUME NEW base, NEW seq, NEW n \in {2, 3}, DOMAIN seq = 1..n
  PROVE  Folded(PutShdrAll(base, seq), "shdr", base, seq, n)
<1> DEFINE B(t) == [d \in SUBSET (1..n) |->
                      IF d = {} THEN base ELSE PutShdr(t[d \ {Max(d)}], seq[Max(d)])]
           S(t) == [d \in SUBSET (1..n) |->
                      IF d = {} THEN base ELSE Step("shdr", t[d \ {Max(d)}], seq[Max(d)])]
           f == CHOOSE t : t = B(t)
<1>1. \A acc, name : Step("shdr", acc, name) = PutShdr(acc, name)
  BY DEF Step
<1>2. \A t : B(t) = S(t)
  BY <1>1
<1>3. PICK t : IsTable(t, "shdr", base, seq, 1..n)
  BY TableExists
<1>4. t = S(t)
  BY <1>3 DEF IsTable
<1>5. FoldLeft(PutShdr, base, seq) = f[1..n]
  BY DEF FoldLeft, MapThenFoldSet
<1>6. f = B(f)
  <2> HIDE DEF B, S
  <2>1. t = B(t)
    BY <1>2, <1>4
  <2> QED
    BY <2>1
<1> HIDE DEF f, B
<1>7. f = S(f)
  BY <1>2, <1>6
<1>8. PICK g : g = f
  OBVIOUS
<1>9. IsTable(g, "shdr", base, seq, 1..n)
  BY <1>7, <1>8 DEF IsTable
<1> HIDE DEF S
<1>10. Folded(g[1..n], "shdr", base, seq, n)
  BY <1>9, TableEnd
<1>11. PutShdrAll(base, seq) = g[1..n]
  BY <1>5, <1>8 DEF PutShdrAll
<1> QED
  BY <1>10, <1>11

PutSegmentAll(base, seq) == FoldLeft(PutSegment, base, seq)

LEMMA FoldPutSegment ==
  ASSUME NEW base, NEW seq, NEW n \in {2, 3}, DOMAIN seq = 1..n
  PROVE  Folded(PutSegmentAll(base, seq), "put_segment", base, seq, n)
<1> DEFINE B(t) == [d \in SUBSET (1..n) |->
                      IF d = {} THEN base ELSE PutSegment(t[d \ {Max(d)}], seq[Max(d)])]
           S(t) == [d \in SUBSET (1..n) |->
                      IF d = {} THEN base ELSE Step("put_segment", t[d \ {Max(d)}], seq[Max(d)])]
           f == CHOOSE t : t = B(t)
<1>1. \A acc, name : Step("put_segment", acc, name) = PutSegment(acc, name)
  BY DEF Step
<1>2. \A t : B(t) = S(t)
  BY <1>1
<1>3. PICK t : IsTable(t, "put_segment", base, seq, 1..n)
  BY TableExists
<1>4. t = S(t)
  BY <1>3 DEF IsTable
<1>5. FoldLeft(PutSegment, base, seq) = f[1..n]
  BY DEF FoldLeft, MapThenFoldSet
<1>6. f = B(f)
  <2> HIDE DEF B, S
  <2>1. t = B(t)
    BY <1>2, <1>4
  <2> QED
    BY <2>1
<1> HIDE DEF f, B
<1>7. f = S(f)
  BY <1>2, <1>6
<1>8. PICK g : g = f
  OBVIOUS
<1>9. IsTable(g, "put_segment", base, seq, 1..n)
  BY <1>7, <1>8 DEF IsTable
<1> HIDE DEF S
<1>10. Folded(g[1..n], "put_segment", base, seq, n)
  BY <1>9, TableEnd
<1>11. PutSegmentAll(base, seq) = g[1..n]
  BY <1>5, <1>8 DEF PutSegmentAll
<1> QED
  BY <1>10, <1>11

PutSectionAll(base, seq) == FoldLeft(PutSection, base, seq)

LEMMA FoldPutSection ==
  ASSUME NEW base, NEW seq, NEW n \in {2, 3}, DOMAIN seq = 1..n
  PROVE  Folded(PutSectionAll(base, seq), "put_section", base, seq, n)
<1> DEFINE B(t) == [d \in SUBSET (1..n) |->
                      IF d = {} THEN base ELSE PutSection(t[d \ {Max(d)}], seq[Max(d)])]
           S(t) == [d \in SUBSET (1..n) |->
                      IF d = {} THEN base ELSE Step("put_section", t[d \ {Max(d)}], seq[Max(d)])]
           f == CHOOSE t : t = B(t)
<1>1. \A acc, name : Step("put_section", acc, name) = PutSection(acc, name)
  BY DEF Step
<1>2. \A t : B(t) = S(t)
  BY <1>1
<1>3. PICK t : IsTable(t, "put_section", base, seq, 1..n)
  BY TableExists
<1>4. t = S(t)
  BY <1>3 DEF IsTable
<1>5. FoldLeft(PutSection, base, seq) = f[1..n]
  BY DEF FoldLeft, MapThenFoldSet
<1>6. f = B(f)
  <2> HIDE DEF B, S
  <2>1. t = B(t)
    BY <1>2, <1>4
  <2> QED
    BY <2>1
<1> HIDE DEF f, B
<1>7. f = S(f)
  BY <1>2, <1>6
<1>8. PICK g : g = f
  OBVIOUS
<1>9. IsTable(g, "put_section", base, seq, 1..n)
  BY <1>7, <1>8 DEF IsTable
<1> HIDE DEF S
<1>10. Folded(g[1..n], "put_section", base, seq, n)
  BY <1>9, TableEnd
<1>11. PutSectionAll(base, seq) = g[1..n]
  BY <1>5, <1>8 DEF PutSectionAll
<1> QED
  BY <1>10, <1>11

---------------------------------------------------------------------------
(* Pages *)

\* The start of the next page.
LEMMA AlignIs ==
  ASSUME NEW v \in Nat
  PROVE  /\ align_to(v, PAGE_SIZE) \in Nat /\ v <= align_to(v, PAGE_SIZE)
         /\ align_to(v, PAGE_SIZE) % PAGE_SIZE = 0
<1>1. PICK p \in Nat \ {0} : p = PAGE_SIZE
  BY SizesAssumption
<1>2. PICK q : q = (v + p - 1) \div p
  OBVIOUS
<1>3. q \in Int /\ q * p <= v + p - 1 /\ v + p - 1 < q * p + p
  BY <1>2
<1>4. q >= 0
  <2> SUFFICES ASSUME q < 0 PROVE FALSE
    BY <1>3
  <2>1. q * p <= -p
    BY <1>3
  <2> QED
    BY <1>3, <2>1
<1>5. q * p \in Nat /\ v <= q * p
  BY <1>3, <1>4
<1>6. (q * p) % p = 0
  BY <1>3
<1>7. align_to(v, PAGE_SIZE) = q * p
  BY <1>1, <1>2 DEF align_to
<1> QED
  BY <1>1, <1>5, <1>6, <1>7

---------------------------------------------------------------------------
(* The state of the writer at each step *)

\* The header of the code, and that of the tape behind it.
IsText(t) ==
  /\ t \in Program
  /\ t.length > 0 /\ t.capacity /\ t.p_vaddr = TextAddr

IsBss(b, t) ==
  /\ b \in Program
  /\ b.length = BssLength /\ ~b.capacity
  /\ b.p_vaddr = BssAddr(t) /\ b.p_filesz = 0

\* A section of a segment has no contents of its own.
IsBare(s) == s \in SectionT /\ s.length = 0 /\ ~s.capacity

\* Where the headers end.
HeadersEnd == EhdrSize + 2 * PhdrSize + 4 * ShdrSize

\* fix_header_offsets gave a segment its place.
IsPlaced(s) ==
  /\ s.p_offset >= HeadersEnd /\ s.p_offset % PAGE_SIZE = 0
  /\ s.p_memsz = s.length

\* The entries of a section in the string table.
IsNamed(name, section, strtab) == [at |-> section.sh_name, name |-> name] \in strtab.strings

\* A map of segments and the offset behind the contents, while
\* fix_header_offsets runs.
SegmentsHeld(map, tape) ==
  /\ Good(map, Two)
  /\ IsText(Map!map_get_(map, ".text"))
  /\ IsBss(Map!map_get_(map, ".bss"), Map!map_get_(map, ".text"))
  /\ Map!map_get_(map, ".bss").p_vaddr = tape

OffsetFree(at) == at \in Nat /\ at >= HeadersEnd /\ at % PAGE_SIZE = 0

TextLaid(map, at) ==
  LET text == Map!map_get_(map, ".text")
  IN  IsPlaced(text) /\ text.p_filesz = text.length /\ text.p_offset + text.length <= at

BssLaid(map) == IsPlaced(Map!map_get_(map, ".bss"))

LEMMA BehindIs ==
  ASSUME NEW at, OffsetFree(at), NEW n \in Nat
  PROVE  OffsetFree(Behind(at, n)) /\ at + n <= Behind(at, n)
<1>1. at + n \in Nat /\ at + n >= at
  BY DEF OffsetFree
<1>2. PICK r : r = align_to(at + n, PAGE_SIZE)
  OBVIOUS
<1>3. r \in Nat /\ at + n <= r /\ r % PAGE_SIZE = 0
  BY <1>1, <1>2, AlignIs
<1>4. HeadersEnd \in Nat
  BY SizesAssumption DEF HeadersEnd
<1>5. r >= HeadersEnd
  BY <1>1, <1>3, <1>4 DEF OffsetFree
<1> QED
  BY <1>2, <1>3, <1>5 DEF OffsetFree, Behind

\* An iteration of the first loop.
LEMMA FixTextIs ==
  ASSUME NEW map, NEW at, NEW tape, SegmentsHeld(map, tape), OffsetFree(at),
         NEW r, r = FixSegment([map |-> map, offset |-> at], ".text")
  PROVE  /\ r = [map |-> r.map, offset |-> r.offset]
         /\ SegmentsHeld(r.map, tape) /\ OffsetFree(r.offset) /\ TextLaid(r.map, r.offset)
         /\ BssLaid(map) => BssLaid(r.map)
<1>1. PICK t, b : t = Map!map_get_(map, ".text") /\ b = Map!map_get_(map, ".bss")
  OBVIOUS
<1>2. IsText(t) /\ IsBss(b, t) /\ Good(map, Two) /\ b.p_vaddr = tape
  BY <1>1 DEF SegmentsHeld
<1>3. PICK v : v = [t EXCEPT !.p_memsz = t.length, !.p_offset = at, !.p_filesz = t.length]
  OBVIOUS
<1>4. /\ v \in Program /\ v.length = t.length /\ v.capacity = t.capacity
      /\ v.p_vaddr = t.p_vaddr /\ v.p_offset = at /\ v.p_filesz = t.length
      /\ v.p_memsz = t.length
  BY <1>2, <1>3 DEF IsText, Program, OffsetFree
<1>5. r = [map |-> Map!Replace(map, ".text", v), offset |-> Behind(at, t.length)]
  BY <1>1, <1>2, <1>3 DEF FixSegment, IsText, Program
<1>6. PICK m : m = Map!Replace(map, ".text", v)
  OBVIOUS
<1>7. SetTo(m, map, Two, ".text", v) /\ Two \cup {".text"} = Two
  <2>1. ".text" \in Two
    BY DEF Two
  <2> QED
    BY <1>2, <1>4, <1>6, <2>1, GoodReplace
<1>8. Good(m, Two) /\ Map!map_get_(m, ".text") = v /\ Map!map_get_(m, ".bss") = b
  BY <1>1, <1>7 DEF SetTo, Two
<1>9. IsText(v)
  BY <1>2, <1>4 DEF IsText
<1>10. IsBss(b, v)
  BY <1>2, <1>4 DEF IsBss, BssAddr
<1>11. SegmentsHeld(m, tape)
  BY <1>2, <1>8, <1>9, <1>10 DEF SegmentsHeld
<1>12. t.length \in Nat
  BY <1>2 DEF IsText, Program
<1>13. OffsetFree(Behind(at, t.length)) /\ at + t.length <= Behind(at, t.length)
  BY <1>12, BehindIs
<1>14. TextLaid(m, Behind(at, t.length))
  BY <1>4, <1>8, <1>13 DEF TextLaid, IsPlaced, OffsetFree
<1>15. BssLaid(map) => BssLaid(m)
  BY <1>1, <1>8 DEF BssLaid
<1> QED
  BY <1>5, <1>6, <1>11, <1>13, <1>14, <1>15

LEMMA FixBssIs ==
  ASSUME NEW map, NEW at, NEW tape, SegmentsHeld(map, tape), OffsetFree(at),
         NEW r, r = FixSegment([map |-> map, offset |-> at], ".bss")
  PROVE  /\ r = [map |-> r.map, offset |-> r.offset]
         /\ SegmentsHeld(r.map, tape) /\ OffsetFree(r.offset) /\ BssLaid(r.map)
         /\ TextLaid(map, at) => TextLaid(r.map, r.offset)
<1>1. PICK t, b : t = Map!map_get_(map, ".text") /\ b = Map!map_get_(map, ".bss")
  OBVIOUS
<1>2. IsText(t) /\ IsBss(b, t) /\ Good(map, Two) /\ b.p_vaddr = tape
  BY <1>1 DEF SegmentsHeld
<1>3. PICK v : v = [b EXCEPT !.p_memsz = b.length, !.p_offset = at]
  OBVIOUS
<1>4. /\ v \in Program /\ v.length = b.length /\ v.capacity = b.capacity
      /\ v.p_vaddr = b.p_vaddr /\ v.p_offset = at /\ v.p_filesz = b.p_filesz
      /\ v.p_memsz = b.length
  BY <1>2, <1>3 DEF IsBss, Program, OffsetFree
<1>5. r = [map |-> Map!Replace(map, ".bss", v), offset |-> at]
  <2>1. b.length > 0 /\ ~b.capacity
    BY <1>2, LengthsAssumption DEF IsBss
  <2> QED
    BY <1>1, <1>3, <2>1 DEF FixSegment
<1>6. PICK m : m = Map!Replace(map, ".bss", v)
  OBVIOUS
<1>7. SetTo(m, map, Two, ".bss", v) /\ Two \cup {".bss"} = Two
  <2>1. ".bss" \in Two
    BY DEF Two
  <2> QED
    BY <1>2, <1>4, <1>6, <2>1, GoodReplace
<1>8. Good(m, Two) /\ Map!map_get_(m, ".bss") = v /\ Map!map_get_(m, ".text") = t
  BY <1>1, <1>7 DEF SetTo, Two
<1>9. IsBss(v, t)
  BY <1>2, <1>4 DEF IsBss
<1>10. SegmentsHeld(m, tape)
  BY <1>2, <1>4, <1>8, <1>9 DEF SegmentsHeld
<1>11. BssLaid(m)
  BY <1>4, <1>8 DEF BssLaid, IsPlaced, OffsetFree
<1>12. TextLaid(map, at) => TextLaid(m, at)
  BY <1>1, <1>8 DEF TextLaid
<1> QED
  BY <1>5, <1>6, <1>10, <1>11, <1>12

LEMMA SegmentsFixed ==
  ASSUME NEW map, NEW at, NEW tape, SegmentsHeld(map, tape), OffsetFree(at),
         NEW r, r = FixSegmentAll([map |-> map, offset |-> at], Map!Order(map))
  PROVE  SegmentsHeld(r.map, tape) /\ OffsetFree(r.offset) /\ TextLaid(r.map, r.offset) /\ BssLaid(r.map)
<1>1. PICK p : p = Map!Order(map)
  OBVIOUS
<1>2. Lists(p, Two)
  BY <1>1, OrderLists DEF SegmentsHeld
<1>3. /\ Len(p) = 2 /\ DOMAIN p = 1..2
      /\ \/ p[1] = ".text" /\ p[2] = ".bss"
         \/ p[1] = ".bss" /\ p[2] = ".text"
  BY <1>2, ListTwo
<1>4. PICK base : base = [map |-> map, offset |-> at]
  OBVIOUS
<1>5. Folded(FixSegmentAll(base, p), "fix_segment", base, p, 2)
  BY <1>3, FoldFixSegment
<1>6. r = FixSegmentAll(base, p)
  BY <1>1, <1>4
<1>7. Folded(r, "fix_segment", base, p, 2)
  BY <1>5, <1>6
<1>8. PICK a : a = FixSegment(base, p[1])
  OBVIOUS
<1>9. r = FixSegment(a, p[2])
  BY <1>7, <1>8 DEF Folded, Step
<1>10. CASE p[1] = ".text" /\ p[2] = ".bss"
  <2>1. /\ a = [map |-> a.map, offset |-> a.offset]
        /\ SegmentsHeld(a.map, tape) /\ OffsetFree(a.offset) /\ TextLaid(a.map, a.offset)
    BY <1>4, <1>8, <1>10, FixTextIs
  <2>2. r = FixSegment([map |-> a.map, offset |-> a.offset], ".bss")
    BY <1>9, <1>10, <2>1
  <2> QED
    BY <2>1, <2>2, FixBssIs
<1>11. CASE p[1] = ".bss" /\ p[2] = ".text"
  <2>1. /\ a = [map |-> a.map, offset |-> a.offset]
        /\ SegmentsHeld(a.map, tape) /\ OffsetFree(a.offset) /\ BssLaid(a.map)
    BY <1>4, <1>8, <1>11, FixBssIs
  <2>2. r = FixSegment([map |-> a.map, offset |-> a.offset], ".text")
    BY <1>9, <1>11, <2>1
  <2> QED
    BY <2>1, <2>2, FixTextIs
<1> QED
  BY <1>3, <1>10, <1>11

\* A map of sections and the string table, while fix_header_offsets runs.
SectionsHeld(map, strtab) ==
  /\ Good(map, Two)
  /\ \A name \in Two : IsBare(Map!map_get_(map, name))
  /\ strtab \in SectionT /\ strtab.length > 0 /\ strtab.capacity

\* What an iteration of the second loop makes of them.
SectionFixed(r, map, strtab, at, name) ==
  /\ r = [map |-> r.map, offset |-> at, strtab |-> r.strtab]
  /\ SectionsHeld(r.map, r.strtab)
  /\ strtab.strings \subseteq r.strtab.strings /\ r.strtab.sh_name = strtab.sh_name
  /\ IsNamed(name, Map!map_get_(r.map, name), r.strtab)
  /\ \A k \in Two : k # name => Map!map_get_(r.map, k) = Map!map_get_(map, k)

LEMMA FixSectionIs ==
  ASSUME Good(segments, Two), IsText(SegmentOf(".text")),
         IsBss(SegmentOf(".bss"), SegmentOf(".text")),
         NEW map, NEW strtab, SectionsHeld(map, strtab), NEW at, NEW name \in Two,
         NEW r, r = FixSection([map |-> map, offset |-> at, strtab |-> strtab], name)
  PROVE  SectionFixed(r, map, strtab, at, name)
<1>1. PICK s, g : s = Map!map_get_(map, name) /\ g = SegmentOf(name)
  OBVIOUS
<1>2. s \in SectionT /\ s.length = 0 /\ ~s.capacity
  BY <1>1 DEF SectionsHeld, IsBare
<1>3. g \in Program
  BY <1>1 DEF Two, IsText, IsBss
<1>4. Map!Has(segments, name)
  <2>1. name \in SectionKeys
    BY DEF Two, SectionKeys
  <2> QED
    BY <2>1, GoodHas
<1>5. PICK v : v = [s EXCEPT !.sh_name = strtab.length, !.sh_size = g.length,
                             !.sh_offset = g.p_offset, !.sh_addr = g.p_vaddr]
  OBVIOUS
<1>6. strtab \in SectionT /\ strtab.length > 0 /\ strtab.capacity
  BY DEF SectionsHeld
<1>7. /\ v \in SectionT /\ v.length = 0 /\ ~v.capacity /\ v.sh_name = strtab.length
  BY <1>2, <1>3, <1>5, <1>6 DEF SectionT, Program
<1>8. PICK u : u = PushName(strtab, name)
  OBVIOUS
<1>9. r = [map |-> Map!Replace(map, name, v), offset |-> at, strtab |-> u]
  BY <1>1, <1>2, <1>4, <1>5, <1>8 DEF FixSection, SegmentOf, SectionT
<1>10. name \in SectionKeys /\ NameSize(name) \in Nat
  BY DEF Two, SectionKeys, NameSize
<1>11. /\ u \in SectionT /\ u.length > 0 /\ u.capacity /\ u.sh_name = strtab.sh_name
       /\ u.strings = strtab.strings \cup {[at |-> strtab.length, name |-> name]}
  <2>0. PICK n \in Nat : n = NameSize(name)
    BY <1>10
  <2>1. PICK e : n = NameSize(name) /\ e = [at |-> strtab.length, name |-> name]
    BY <2>0
  <2>2. strtab.length \in Nat /\ strtab.strings \in SUBSET [at : Nat, name : SectionKeys]
    BY <1>6 DEF SectionT
  <2>3. e \in [at : Nat, name : SectionKeys]
    BY <1>10, <2>1, <2>2
  <2>4. PICK l, x : l = strtab.length + n /\ x = strtab.strings \cup {e}
    OBVIOUS
  <2>5. l \in Nat /\ l > 0 /\ x \in SUBSET [at : Nat, name : SectionKeys]
    BY <1>6, <2>2, <2>3, <2>4
  <2>6. u = [strtab EXCEPT !.length = l, !.capacity = TRUE, !.strings = x]
    BY <1>8, <2>1, <2>4 DEF PushName
  <2>7. u \in SectionT /\ u.length = l /\ u.capacity /\ u.sh_name = strtab.sh_name /\ u.strings = x
    BY <1>6, <2>5, <2>6 DEF SectionT
  <2> QED
    BY <2>1, <2>4, <2>5, <2>7
<1>12. PICK m : m = Map!Replace(map, name, v)
  OBVIOUS
<1>13. SetTo(m, map, Two, name, v) /\ Two \cup {name} = Two
  BY <1>7, <1>12, GoodReplace DEF SectionsHeld
<1>14. /\ Good(m, Two) /\ Map!map_get_(m, name) = v
       /\ \A k \in Two : k # name => Map!map_get_(m, k) = Map!map_get_(map, k)
  BY <1>13 DEF SetTo
<1>15. \A k \in Two : IsBare(Map!map_get_(m, k))
  BY <1>7, <1>14 DEF SectionsHeld, IsBare
<1>16. SectionsHeld(m, u)
  BY <1>11, <1>14, <1>15 DEF SectionsHeld
<1>17. IsNamed(name, v, u)
  BY <1>7, <1>11 DEF IsNamed
<1> QED
  BY <1>9, <1>11, <1>12, <1>14, <1>16, <1>17 DEF SectionFixed

LEMMA SectionsFixed ==
  ASSUME Good(segments, Two), IsText(SegmentOf(".text")),
         IsBss(SegmentOf(".bss"), SegmentOf(".text")),
         NEW map, NEW strtab, SectionsHeld(map, strtab), NEW at,
         NEW r, r = FixSectionAll([map |-> map, offset |-> at, strtab |-> strtab], Map!Order(map))
  PROVE  /\ r.offset = at
         /\ SectionsHeld(r.map, r.strtab)
         /\ strtab.strings \subseteq r.strtab.strings /\ r.strtab.sh_name = strtab.sh_name
         /\ \A name \in Two : IsNamed(name, Map!map_get_(r.map, name), r.strtab)
<1>1. PICK p : p = Map!Order(map)
  OBVIOUS
<1>2. Lists(p, Two)
  BY <1>1, OrderLists DEF SectionsHeld
<1>3. /\ DOMAIN p = 1..2 /\ p[1] \in Two /\ p[2] \in Two /\ p[1] # p[2] /\ Two = {p[1], p[2]}
  BY <1>2, ListTwo DEF Two
<1>4. PICK base : base = [map |-> map, offset |-> at, strtab |-> strtab]
  OBVIOUS
<1>5. Folded(FixSectionAll(base, p), "fix_section", base, p, 2)
  BY <1>3, FoldFixSection
<1>6. r = FixSectionAll(base, p)
  BY <1>1, <1>4
<1>7. Folded(r, "fix_section", base, p, 2)
  BY <1>5, <1>6
<1>8. PICK a : a = FixSection(base, p[1])
  OBVIOUS
<1>9. r = FixSection(a, p[2])
  BY <1>7, <1>8 DEF Folded, Step
<1>10. SectionFixed(a, map, strtab, at, p[1])
  BY <1>3, <1>4, <1>8, FixSectionIs
<1>11. PICK b, t : b = a.map /\ t = a.strtab
  OBVIOUS
<1>12. SectionsHeld(b, t) /\ a = [map |-> b, offset |-> at, strtab |-> t]
  BY <1>10, <1>11 DEF SectionFixed
<1>13. SectionFixed(r, b, t, at, p[2])
  BY <1>3, <1>9, <1>12, FixSectionIs
<1>14. /\ strtab.strings \subseteq t.strings /\ t.sh_name = strtab.sh_name
       /\ IsNamed(p[1], Map!map_get_(b, p[1]), t)
  BY <1>10, <1>11 DEF SectionFixed
<1>15. /\ r = [map |-> r.map, offset |-> at, strtab |-> r.strtab]
       /\ SectionsHeld(r.map, r.strtab)
       /\ t.strings \subseteq r.strtab.strings /\ r.strtab.sh_name = t.sh_name
       /\ IsNamed(p[2], Map!map_get_(r.map, p[2]), r.strtab)
       /\ \A k \in Two : k # p[2] => Map!map_get_(r.map, k) = Map!map_get_(b, k)
  BY <1>13 DEF SectionFixed
<1>16. Map!map_get_(r.map, p[1]) = Map!map_get_(b, p[1])
  BY <1>3, <1>15
<1>17. IsNamed(p[1], Map!map_get_(r.map, p[1]), r.strtab)
  BY <1>14, <1>15, <1>16 DEF IsNamed
<1>18. r.offset = at
  BY <1>15
<1> QED
  BY <1>3, <1>14, <1>15, <1>17, <1>18

---------------------------------------------------------------------------
(* The headers that are written *)

AtNull == EhdrSize + 2 * PhdrSize

RegionT ==
  [at : Nat, size : Nat, what : {"ehdr", "phdr", "shdr", "segment", "section"},
   name : SectionKeys \cup {"none", "null"}]

\* The ELF header, and the tables in the orders p and q of the maps.
AreHeaders(w, p, q) ==
  /\ w \in Seq(RegionT) /\ Len(w) = 7
  /\ w[1] = Region(0, EhdrSize, "ehdr", "none")
  /\ w[2] = Region(EhdrSize, PhdrSize, "phdr", p[1])
  /\ w[3] = Region(EhdrSize + PhdrSize, PhdrSize, "phdr", p[2])
  /\ w[4] = Region(AtNull, ShdrSize, "shdr", "null")
  /\ w[5] = Region(AtNull + ShdrSize, ShdrSize, "shdr", q[1])
  /\ w[6] = Region(AtNull + 2 * ShdrSize, ShdrSize, "shdr", q[2])
  /\ w[7] = Region(AtNull + 3 * ShdrSize, ShdrSize, "shdr", q[3])

\* u has the n entries of w and then r.
Longer(u, w, r, n) ==
  /\ u \in Seq(RegionT) /\ Len(u) = n + 1 /\ u[n + 1] = r
  /\ \A i \in 1..n : u[i] = w[i]

\* r goes behind the last of the n entries of w, and u is what Put makes.
Puts(u, w, r, n) ==
  /\ w \in Seq(RegionT) /\ n \in Nat /\ n > 0 /\ Len(w) = n
  /\ r \in RegionT /\ r.at = w[n].at + w[n].size
  /\ u = Put(w, r.size, r.what, r.name)

LEMMA PutIs ==
  ASSUME NEW u, NEW w, NEW r, NEW n, Puts(u, w, r, n)
  PROVE  Longer(u, w, r, n)
<1>1. r = Region(r.at, r.size, r.what, r.name) /\ r \in RegionT
  BY DEF Puts, Region, RegionT
<1>2. u = Append(w, r) /\ w \in Seq(RegionT) /\ n \in Nat /\ Len(w) = n
  BY <1>1 DEF Puts, Put
<1> QED
  BY <1>1, <1>2 DEF Longer

LEMMA RegionIs ==
  ASSUME NEW x \in Nat, NEW n \in Nat, NEW what \in {"ehdr", "phdr", "shdr", "segment", "section"},
         NEW name \in SectionKeys \cup {"none", "null"}
  PROVE  Region(x, n, what, name) \in RegionT
BY DEF Region, RegionT

\* The ELF header and the tables are put one behind the other.
LEMMA HeadersPut ==
  ASSUME NEW p, DOMAIN p = 1..2, \A i \in 1..2 : p[i] \in SectionKeys,
         NEW q, DOMAIN q = 1..3, \A i \in 1..3 : q[i] \in SectionKeys,
         NEW v, v = PutPhdrAll(<<Region(0, EhdrSize, "ehdr", "none")>>, p),
         NEW w, w = PutShdrAll(Put(v, ShdrSize, "shdr", "null"), q)
  PROVE  AreHeaders(w, p, q)
<1>1. /\ EhdrSize \in Nat /\ PhdrSize \in Nat /\ ShdrSize \in Nat
      /\ AtNull \in Nat /\ AtNull = EhdrSize + 2 * PhdrSize
      /\ EhdrSize + PhdrSize \in Nat /\ AtNull + ShdrSize \in Nat
      /\ AtNull + 2 * ShdrSize \in Nat /\ AtNull + 3 * ShdrSize \in Nat
  BY SizesAssumption DEF AtNull
<1>2. /\ p[1] \in SectionKeys /\ p[2] \in SectionKeys
      /\ q[1] \in SectionKeys /\ q[2] \in SectionKeys /\ q[3] \in SectionKeys
  OBVIOUS
<1>3. PICK r1 \in RegionT : r1 = Region(0, EhdrSize, "ehdr", "none")
  BY <1>1, <1>2, RegionIs
<1>4. PICK r2 \in RegionT : r2 = Region(EhdrSize, PhdrSize, "phdr", p[1])
  BY <1>1, <1>2, RegionIs
<1>5. PICK r3 \in RegionT : r3 = Region(EhdrSize + PhdrSize, PhdrSize, "phdr", p[2])
  BY <1>1, <1>2, RegionIs
<1>6. PICK r4 \in RegionT : r4 = Region(AtNull, ShdrSize, "shdr", "null")
  BY <1>1, <1>2, RegionIs
<1>7. PICK r5 \in RegionT : r5 = Region(AtNull + ShdrSize, ShdrSize, "shdr", q[1])
  BY <1>1, <1>2, RegionIs
<1>8. PICK r6 \in RegionT : r6 = Region(AtNull + 2 * ShdrSize, ShdrSize, "shdr", q[2])
  BY <1>1, <1>2, RegionIs
<1>9. PICK r7 \in RegionT : r7 = Region(AtNull + 3 * ShdrSize, ShdrSize, "shdr", q[3])
  BY <1>1, <1>2, RegionIs
<1>10. /\ r1.at + r1.size = r2.at
       /\ r2.at + r2.size = r3.at
       /\ r3.at + r3.size = r4.at
       /\ r4.at + r4.size = r5.at
       /\ r5.at + r5.size = r6.at
       /\ r6.at + r6.size = r7.at
  BY <1>1, <1>3, <1>4, <1>5, <1>6, <1>7, <1>8, <1>9 DEF Region
<1>11. PICK w1 : w1 = <<r1>>
  OBVIOUS
<1>12. w1 \in Seq(RegionT) /\ Len(w1) = 1 /\ w1[1] = r1
  BY <1>11
<1>13. PICK w2 : w2 = PutPhdr(w1, p[1])
  OBVIOUS
<1>14. /\ w2 \in Seq(RegionT) /\ Len(w2) = 2 /\ w2[2] = r2
       /\ \A i \in 1..1 : w2[i] = w1[i]
  <2>1. w2 = Put(w1, r2.size, r2.what, r2.name)
    BY <1>4, <1>13 DEF PutPhdr, Region
  <2>2. r2.at = w1[1].at + w1[1].size
    BY <1>10, <1>12
  <2>3. Puts(w2, w1, r2, 1)
    BY <1>12, <2>1, <2>2 DEF Puts
  <2>4. Longer(w2, w1, r2, 1)
    BY <2>3, PutIs
  <2> QED
    BY <2>4 DEF Longer
<1>15. PICK w3 : w3 = PutPhdr(w2, p[2])
  OBVIOUS
<1>16. /\ w3 \in Seq(RegionT) /\ Len(w3) = 3 /\ w3[3] = r3
       /\ \A i \in 1..2 : w3[i] = w2[i]
  <2>1. w3 = Put(w2, r3.size, r3.what, r3.name)
    BY <1>5, <1>15 DEF PutPhdr, Region
  <2>2. r3.at = w2[2].at + w2[2].size
    BY <1>10, <1>14
  <2>3. Puts(w3, w2, r3, 2)
    BY <1>14, <2>1, <2>2 DEF Puts
  <2>4. Longer(w3, w2, r3, 2)
    BY <2>3, PutIs
  <2> QED
    BY <2>4 DEF Longer
<1>17. PICK w4 : w4 = Put(w3, ShdrSize, "shdr", "null")
  OBVIOUS
<1>18. /\ w4 \in Seq(RegionT) /\ Len(w4) = 4 /\ w4[4] = r4
       /\ \A i \in 1..3 : w4[i] = w3[i]
  <2>1. w4 = Put(w3, r4.size, r4.what, r4.name)
    BY <1>6, <1>17 DEF Region
  <2>2. r4.at = w3[3].at + w3[3].size
    BY <1>10, <1>16
  <2>3. Puts(w4, w3, r4, 3)
    BY <1>16, <2>1, <2>2 DEF Puts
  <2>4. Longer(w4, w3, r4, 3)
    BY <2>3, PutIs
  <2> QED
    BY <2>4 DEF Longer
<1>19. PICK w5 : w5 = PutShdr(w4, q[1])
  OBVIOUS
<1>20. /\ w5 \in Seq(RegionT) /\ Len(w5) = 5 /\ w5[5] = r5
       /\ \A i \in 1..4 : w5[i] = w4[i]
  <2>1. w5 = Put(w4, r5.size, r5.what, r5.name)
    BY <1>7, <1>19 DEF PutShdr, Region
  <2>2. r5.at = w4[4].at + w4[4].size
    BY <1>10, <1>18
  <2>3. Puts(w5, w4, r5, 4)
    BY <1>18, <2>1, <2>2 DEF Puts
  <2>4. Longer(w5, w4, r5, 4)
    BY <2>3, PutIs
  <2> QED
    BY <2>4 DEF Longer
<1>21. PICK w6 : w6 = PutShdr(w5, q[2])
  OBVIOUS
<1>22. /\ w6 \in Seq(RegionT) /\ Len(w6) = 6 /\ w6[6] = r6
       /\ \A i \in 1..5 : w6[i] = w5[i]
  <2>1. w6 = Put(w5, r6.size, r6.what, r6.name)
    BY <1>8, <1>21 DEF PutShdr, Region
  <2>2. r6.at = w5[5].at + w5[5].size
    BY <1>10, <1>20
  <2>3. Puts(w6, w5, r6, 5)
    BY <1>20, <2>1, <2>2 DEF Puts
  <2>4. Longer(w6, w5, r6, 5)
    BY <2>3, PutIs
  <2> QED
    BY <2>4 DEF Longer
<1>23. PICK w7 : w7 = PutShdr(w6, q[3])
  OBVIOUS
<1>24. /\ w7 \in Seq(RegionT) /\ Len(w7) = 7 /\ w7[7] = r7
       /\ \A i \in 1..6 : w7[i] = w6[i]
  <2>1. w7 = Put(w6, r7.size, r7.what, r7.name)
    BY <1>9, <1>23 DEF PutShdr, Region
  <2>2. r7.at = w6[6].at + w6[6].size
    BY <1>10, <1>22
  <2>3. Puts(w7, w6, r7, 6)
    BY <1>22, <2>1, <2>2 DEF Puts
  <2>4. Longer(w7, w6, r7, 6)
    BY <2>3, PutIs
  <2> QED
    BY <2>4 DEF Longer
<1>25. v = w3
  <2>1. Folded(PutPhdrAll(w1, p), "phdr", w1, p, 2)
    BY FoldPutPhdr
  <2>2. v = PutPhdrAll(w1, p)
    BY <1>3, <1>11
  <2> QED
    BY <1>13, <1>15, <2>1, <2>2 DEF Folded, Step
<1>26. w = w7
  <2>1. Folded(PutShdrAll(w4, q), "shdr", w4, q, 3)
    BY FoldPutShdr
  <2>2. w = PutShdrAll(w4, q)
    BY <1>17, <1>25
  <2> QED
    BY <1>19, <1>21, <1>23, <2>1, <2>2 DEF Folded, Step
<1>27. w7[1] = r1 /\ w7[2] = r2 /\ w7[3] = r3 /\ w7[4] = r4 /\ w7[5] = r5 /\ w7[6] = r6 /\ w7[7] = r7
  BY <1>12, <1>14, <1>16, <1>18, <1>20, <1>22, <1>24
<1> QED
  BY <1>3, <1>4, <1>5, <1>6, <1>7, <1>8, <1>9, <1>24, <1>26, <1>27 DEF AreHeaders

---------------------------------------------------------------------------
(* The state of the writer *)

HeaderT ==
  [e_entry : Nat, e_phoff : Nat, e_phnum : Nat, e_shoff : Nat, e_shnum : Nat,
   e_shstrndx : Nat]

\* The headers of .text alone, those of .text and .bss, and where
\* fix_header_offsets has put the contents.
OneMade ==
  /\ Good(segments, {".text"}) /\ seg_count = 1
  /\ Good(sections, {".text"}) /\ sec_count = 1 /\ IsBare(SectionOf(".text"))
  /\ header.e_entry = TextAddr

SegmentsMade ==
  /\ SegmentsHeld(segments, preload) /\ seg_count = 2
  /\ header.e_entry = TextAddr

SectionsMade ==
  /\ Good(sections, Two) /\ sec_count = 2
  /\ \A name \in Two : IsBare(SectionOf(name))

SegmentsLaid ==
  /\ SegmentsMade
  /\ TextLaid(segments, offset) /\ BssLaid(segments) /\ OffsetFree(offset)

SectionsLaid ==
  /\ Good(sections, SectionKeys) /\ sec_count = 3
  /\ \A name \in Two : IsBare(SectionOf(name))
  /\ LET table == SectionOf(".shstrtab")
     IN  /\ table \in SectionT /\ table.capacity /\ table.length > 0
         /\ table.sh_offset = offset
         /\ \A name \in SectionKeys : IsNamed(name, SectionOf(name), table)
  /\ header.e_shstrndx \in 1..3
  /\ Map!Order(sections)[header.e_shstrndx] = ".shstrtab"

HeaderMade ==
  /\ header.e_phnum = 2 /\ header.e_phoff = EhdrSize
  /\ header.e_shnum = 4 /\ header.e_shoff = AtNull

\* The two regions of contents.
TextRegion ==
  Region(SegmentOf(".text").p_offset, SegmentOf(".text").length, "segment", ".text")

TableRegion ==
  Region(SectionOf(".shstrtab").sh_offset, SectionOf(".shstrtab").length, "section", ".shstrtab")

HeadersIn(w) == AreHeaders(w, Map!Order(segments), Map!Order(sections))

Stage ==
  \/ /\ pc = "text"
     /\ Good(segments, {}) /\ seg_count = 0 /\ Good(sections, {}) /\ sec_count = 0
  \/ pc = "compile" /\ OneMade /\ SegmentOf(".text") = Segment(TextAddr)
  \/ pc = "bss" /\ OneMade /\ IsText(SegmentOf(".text")) /\ SegmentOf(".text").p_filesz = 0
  \/ pc = "fix_segments" /\ SegmentsMade /\ SectionsMade
  \/ pc = "fix_sections" /\ SegmentsLaid /\ SectionsMade
  \/ pc = "finalize" /\ SegmentsLaid /\ SectionsLaid
  \/ pc \in {"headers", "contents", "done"} /\ SegmentsLaid /\ SectionsLaid /\ HeaderMade

Written ==
  /\ pc = "contents" => HeadersIn(out)
  /\ pc = "done" =>
       \E w : HeadersIn(w) /\ out = Append(Append(w, TextRegion), TableRegion)
  /\ pc \notin {"contents", "done"} => out = <<>>

(***************************************************************************)
(* The inductive invariant: what the maps and the file hold at each step.  *)
(***************************************************************************)
WriterInv ==
  /\ hash \in [SectionKeys -> Nat]
  /\ header \in HeaderT
  /\ Stage
  /\ Written

---------------------------------------------------------------------------
(* The maps in the next state: hash does not change. *)

LEMMA SegmentsNext ==
  ASSUME hash' = hash, NEW w, w = segments'
  PROVE  /\ \A d : Good(w, d) => Good(segments, d)'
         /\ \A k : SegmentOf(k)' = Map!map_get_(w, k)
         /\ Map!Order(segments)' = Map!Order(w)
         /\ SegmentsHeld(w, preload') => SegmentsHeld(segments, preload)'
         /\ BssLaid(w) => BssLaid(segments)'
         /\ TextLaid(w, offset') => TextLaid(segments, offset)'
<1>1. ASSUME NEW d, Good(w, d) PROVE Good(segments, d)'
  BY <1>1, Zenon DEF Good
<1>2. ASSUME NEW k PROVE SegmentOf(k)' = Map!map_get_(w, k)
  BY Zenon DEF SegmentOf, Map!map_get_, Map!Bucket, Map!map_getref, Map!map_bucketidx
<1>3. \A k : Map!map_get_(segments, k)' = Map!map_get_(w, k)
  BY <1>2 DEF SegmentOf
<1>4. Good(w, Two) => Good(segments, Two)'
  BY <1>1
<1>5. Map!Order(segments)' = Map!Order(w)
  OBVIOUS
<1>6. SegmentsHeld(w, preload') => SegmentsHeld(segments, preload)'
  BY <1>3, <1>4, Zenon DEF SegmentsHeld
<1>7. BssLaid(w) => BssLaid(segments)'
  BY <1>3 DEF BssLaid
<1>8. TextLaid(w, offset') => TextLaid(segments, offset)'
  BY <1>3 DEF TextLaid
<1> QED
  BY <1>1, <1>2, <1>5, <1>6, <1>7, <1>8

LEMMA SectionsNext ==
  ASSUME hash' = hash, NEW w, w = sections'
  PROVE  /\ \A d : Good(w, d) => Good(sections, d)'
         /\ \A k : SectionOf(k)' = Map!map_get_(w, k)
         /\ Map!Order(sections)' = Map!Order(w)
<1>1. ASSUME NEW d, Good(w, d) PROVE Good(sections, d)'
  BY <1>1, Zenon DEF Good
<1>2. ASSUME NEW k PROVE SectionOf(k)' = Map!map_get_(w, k)
  BY Zenon DEF SectionOf, Map!map_get_, Map!Bucket, Map!map_getref, Map!map_bucketidx
<1>3. Map!Order(sections)' = Map!Order(w)
  OBVIOUS
<1> QED
  BY <1>1, <1>2, <1>3

\* What stays as it is.
LEMMA SegmentsKept ==
  ASSUME hash' = hash, segments' = segments, seg_count' = seg_count, preload' = preload,
         header'.e_entry = header.e_entry
  PROVE  /\ SegmentsMade => SegmentsMade'
         /\ offset' = offset => (SegmentsLaid => SegmentsLaid')
         /\ TextRegion' = TextRegion
         /\ Map!Order(segments)' = Map!Order(segments)
<1>1. PICK w : w = segments
  OBVIOUS
<1>2. w = segments'
  BY <1>1
<1>3. SegmentsHeld(segments, preload) => SegmentsHeld(segments, preload)'
  BY <1>1, <1>2, SegmentsNext
<1>4. SegmentOf(".text")' = SegmentOf(".text")
  BY <1>1, <1>2, SegmentsNext DEF SegmentOf
<1>5. SegmentsMade => SegmentsMade'
  BY <1>3, Zenon DEF SegmentsMade
<1>6. BssLaid(segments) => BssLaid(segments)'
  BY <1>1, <1>2, SegmentsNext
<1>7. offset' = offset => (TextLaid(segments, offset) => TextLaid(segments, offset)')
  BY <1>1, <1>2, SegmentsNext
<1>8. offset' = offset => (OffsetFree(offset) => OffsetFree(offset)')
  BY DEF OffsetFree
<1>9. offset' = offset => (SegmentsLaid => SegmentsLaid')
  BY <1>5, <1>6, <1>7, <1>8 DEF SegmentsLaid
<1>10. TextRegion' = TextRegion
  BY <1>4 DEF TextRegion
<1> QED
  BY <1>5, <1>9, <1>10

LEMMA SectionsKept ==
  ASSUME hash' = hash, sections' = sections, sec_count' = sec_count
  PROVE  /\ SectionsMade => SectionsMade'
         /\ (offset' = offset /\ header'.e_shstrndx = header.e_shstrndx)
              => (SectionsLaid => SectionsLaid')
         /\ TableRegion' = TableRegion
         /\ Map!Order(sections)' = Map!Order(sections)
<1>1. \A d : Good(sections, d) => Good(sections, d)'
  BY Zenon DEF Good
<1>2. \A k : SectionOf(k)' = SectionOf(k)
  <2>1. PICK w : w = sections
    OBVIOUS
  <2>2. w = sections'
    BY <2>1
  <2> QED
    BY <2>1, <2>2, SectionsNext DEF SectionOf
<1>3. SectionsMade => SectionsMade'
  BY <1>1, <1>2, Zenon DEF SectionsMade
<1>4. Map!Order(sections)' = Map!Order(sections)
  OBVIOUS
<1>5. (offset' = offset /\ header'.e_shstrndx = header.e_shstrndx) => (SectionsLaid => SectionsLaid')
  BY <1>1, <1>2, <1>4, Zenon DEF SectionsLaid
<1>6. TableRegion' = TableRegion
  BY <1>2 DEF TableRegion
<1> QED
  BY <1>3, <1>4, <1>5, <1>6

---------------------------------------------------------------------------
(* The steps keep the invariant *)

LEMMA EmptyTyped ==
  ASSUME NEW v \in Nat, NEW type \in Types
  PROVE  Segment(v) \in Program /\ IsBare(Section(type, v))
BY DEF Segment, Program, Section, SectionT, IsBare

LEMMA NextText ==
  ASSUME WriterInv, GenText
  PROVE  WriterInv'
<1>1. /\ pc = "text" /\ pc' = "compile" /\ hash' = hash
      /\ segments' = Map!map_set_(segments, ".text", Segment(TextAddr))
      /\ seg_count' = seg_count + 1
      /\ sections' = Map!map_set_(sections, ".text", Section("progbits", TextAddr))
      /\ sec_count' = sec_count + 1
      /\ header' = [header EXCEPT !.e_entry = TextAddr] /\ out' = out
  BY Zenon DEF GenText, gen_program_header, gen_section_header
<1>2. /\ hash \in [SectionKeys -> Nat] /\ header \in HeaderT
      /\ Good(segments, {}) /\ seg_count = 0 /\ Good(sections, {}) /\ sec_count = 0
      /\ out = <<>>
  BY <1>1 DEF WriterInv, Stage, Written
<1>3. PICK m, n : m = segments' /\ n = sections'
  OBVIOUS
<1>4. TextAddr \in Nat /\ ".text" \in SectionKeys /\ "progbits" \in Types
  BY SizesAssumption DEF SectionKeys, Types
<1>5. Segment(TextAddr) \in Program /\ IsBare(Section("progbits", TextAddr))
  BY <1>4, EmptyTyped
<1>6. Good(m, {".text"}) /\ Map!map_get_(m, ".text") = Segment(TextAddr)
  <2>1. SetTo(m, segments, {}, ".text", Segment(TextAddr))
    BY <1>1, <1>2, <1>3, <1>4, <1>5, GoodSet
  <2>2. {} \cup {".text"} = {".text"}
    OBVIOUS
  <2> QED
    BY <2>1, <2>2, Zenon DEF SetTo
<1>7. Good(n, {".text"}) /\ Map!map_get_(n, ".text") = Section("progbits", TextAddr)
  <2>1. SetTo(n, sections, {}, ".text", Section("progbits", TextAddr))
    BY <1>1, <1>2, <1>3, <1>4, <1>5, GoodSet DEF IsBare
  <2>2. {} \cup {".text"} = {".text"}
    OBVIOUS
  <2> QED
    BY <2>1, <2>2, Zenon DEF SetTo
<1>8. Good(segments, {".text"})' /\ SegmentOf(".text")' = Segment(TextAddr)
  BY <1>1, <1>3, <1>6, SegmentsNext
<1>9. Good(sections, {".text"})' /\ IsBare(SectionOf(".text"))'
  <2>1. Good(sections, {".text"})' /\ SectionOf(".text")' = Section("progbits", TextAddr)
    BY <1>1, <1>3, <1>7, SectionsNext
  <2> QED
    BY <1>5, <2>1 DEF IsBare
<1>10. header' \in HeaderT /\ header'.e_entry = TextAddr
  BY <1>1, <1>2, <1>4 DEF HeaderT
<1>11. seg_count' = 1 /\ sec_count' = 1
  BY <1>1, <1>2
<1>12. OneMade'
  BY <1>8, <1>9, <1>10, <1>11, Zenon DEF OneMade
<1>13. Stage'
  BY <1>1, <1>8, <1>12 DEF Stage, Segment
<1>14. Written'
  BY <1>1, <1>2 DEF Written
<1> QED
  BY <1>1, <1>2, <1>10, <1>13, <1>14 DEF WriterInv

LEMMA NextCompile ==
  ASSUME WriterInv, CompileText
  PROVE  WriterInv'
<1>1. PICK l \in TextLengths :
        segments' = Map!Replace(segments, ".text",
                      [Map!map_get_(segments, ".text") EXCEPT !.length = l, !.capacity = TRUE])
  BY Zenon DEF CompileText
<1>2. /\ pc = "compile" /\ pc' = "bss" /\ hash' = hash /\ seg_count' = seg_count
      /\ sections' = sections /\ sec_count' = sec_count /\ header' = header /\ out' = out
  BY Zenon DEF CompileText
<1>3. /\ hash \in [SectionKeys -> Nat] /\ header \in HeaderT
      /\ OneMade /\ SegmentOf(".text") = Segment(TextAddr) /\ out = <<>>
  BY <1>2 DEF WriterInv, Stage, Written
<1>4. PICK m, v : m = segments' /\ v = [Segment(TextAddr) EXCEPT !.length = l, !.capacity = TRUE]
  OBVIOUS
<1>5. v \in Program /\ IsText(v) /\ v.p_filesz = 0
  <2>1. l \in Nat /\ l > 0
    BY LengthsAssumption
  <2>2. Segment(TextAddr) \in Program
    BY SizesAssumption, EmptyTyped DEF Types
  <2> QED
    BY <1>4, <2>1, <2>2 DEF IsText, Program, Segment
<1>6. SetTo(m, segments, {".text"}, ".text", v) /\ {".text"} \cup {".text"} = {".text"}
  <2>1. m = Map!Replace(segments, ".text", v)
    BY <1>1, <1>3, <1>4 DEF SegmentOf
  <2>2. Good(segments, {".text"})
    BY <1>3 DEF OneMade
  <2> QED
    BY <1>5, <2>1, <2>2, GoodReplace
<1>7. Good(m, {".text"}) /\ Map!map_get_(m, ".text") = v
  BY <1>6 DEF SetTo
<1>8. Good(segments, {".text"})' /\ SegmentOf(".text")' = v
  BY <1>2, <1>4, <1>7, SegmentsNext
<1>9. Good(sections, {".text"})' /\ SectionOf(".text")' = SectionOf(".text")
  <2>1. PICK w : w = sections
    OBVIOUS
  <2>2. w = sections'
    BY <1>2, <2>1
  <2> QED
    BY <1>2, <1>3, <2>1, <2>2, SectionsNext DEF OneMade, SectionOf
<1>10. OneMade'
  BY <1>2, <1>3, <1>8, <1>9 DEF OneMade, IsBare
<1>11. IsText(SegmentOf(".text"))' /\ SegmentOf(".text")'.p_filesz = 0
  BY <1>5, <1>8 DEF IsText
<1>12. Stage'
  BY <1>2, <1>10, <1>11 DEF Stage
<1>13. Written'
  BY <1>2, <1>3 DEF Written
<1> QED
  BY <1>2, <1>3, <1>12, <1>13 DEF WriterInv

LEMMA NextBss ==
  ASSUME WriterInv, GenBss
  PROVE  WriterInv'
<1>1. PICK t, addr : t = SegmentOf(".text") /\ addr = BssAddr(t)
  OBVIOUS
<1>2. /\ pc = "bss" /\ pc' = "fix_segments" /\ hash' = hash
      /\ segments' = Map!map_set_(segments, ".bss", [Segment(addr) EXCEPT !.length = BssLength])
      /\ seg_count' = seg_count + 1
      /\ sections' = Map!map_set_(sections, ".bss", Section("nobits", addr))
      /\ sec_count' = sec_count + 1
      /\ preload' = addr /\ header' = header /\ out' = out
  BY <1>1, Zenon DEF GenBss, gen_program_header, gen_section_header, SegmentOf
<1>3. /\ hash \in [SectionKeys -> Nat] /\ header \in HeaderT /\ OneMade /\ IsText(t) /\ out = <<>>
  BY <1>1, <1>2 DEF WriterInv, Stage, Written
<1>4. addr \in Nat
  <2>1. t.p_vaddr + t.length \in Nat
    BY <1>3 DEF IsText, Program
  <2> QED
    BY <1>1, <2>1, AlignIs DEF BssAddr
<1>5. PICK m, n, v : m = segments' /\ n = sections' /\ v = [Segment(addr) EXCEPT !.length = BssLength]
  OBVIOUS
<1>6. v \in Program /\ IsBss(v, t)
  <2>1. BssLength \in Nat
    BY LengthsAssumption
  <2>2. Segment(addr) \in Program
    BY <1>4, EmptyTyped DEF Types
  <2> QED
    BY <1>1, <1>5, <2>1, <2>2 DEF IsBss, Program, Segment
<1>7. IsBare(Section("nobits", addr))
  BY <1>4, EmptyTyped DEF Types
<1>8. ".bss" \in SectionKeys /\ {".text"} \cup {".bss"} = Two
  BY DEF SectionKeys, Two
<1>9. Good(m, Two) /\ Map!map_get_(m, ".bss") = v /\ Map!map_get_(m, ".text") = t
  <2>1. SetTo(m, segments, {".text"}, ".bss", v)
    BY <1>2, <1>3, <1>5, <1>6, <1>8, GoodSet DEF OneMade
  <2> QED
    BY <1>1, <1>8, <2>1 DEF SetTo, SegmentOf
<1>10. /\ Good(n, Two) /\ Map!map_get_(n, ".bss") = Section("nobits", addr)
       /\ Map!map_get_(n, ".text") = SectionOf(".text")
  <2>1. SetTo(n, sections, {".text"}, ".bss", Section("nobits", addr))
    BY <1>2, <1>3, <1>5, <1>7, <1>8, GoodSet DEF OneMade, IsBare
  <2> QED
    BY <1>8, <2>1 DEF SetTo, SectionOf
<1>11. SegmentsHeld(m, addr)
  BY <1>1, <1>3, <1>6, <1>9 DEF SegmentsHeld, IsBss
<1>12. SegmentsHeld(segments, preload)'
  BY <1>2, <1>5, <1>11, SegmentsNext
<1>13. SegmentsMade'
  <2>1. seg_count' = 2 /\ header'.e_entry = TextAddr
    BY <1>2, <1>3 DEF OneMade
  <2> QED
    BY <1>12, <2>1, Zenon DEF SegmentsMade
<1>14. SectionsMade'
  <2>1. Good(sections, Two)'
    BY <1>2, <1>5, <1>10, SectionsNext
  <2>2. /\ SectionOf(".bss")' = Section("nobits", addr)
        /\ SectionOf(".text")' = SectionOf(".text")
    BY <1>2, <1>5, <1>10, SectionsNext
  <2>3. \A name \in Two : IsBare(SectionOf(name)')
    BY <1>3, <1>7, <2>2 DEF OneMade, Two
  <2>4. \A name \in Two : IsBare(SectionOf(name))'
    BY <2>3 DEF IsBare
  <2> QED
    BY <1>2, <1>3, <2>1, <2>4 DEF SectionsMade, OneMade
<1>15. Stage'
  BY <1>2, <1>13, <1>14 DEF Stage
<1>16. Written'
  BY <1>2, <1>3 DEF Written
<1> QED
  BY <1>2, <1>3, <1>15, <1>16 DEF WriterInv

\* The first page behind the ELF header and the program headers is behind
\* the section headers, too.
LEMMA FirstPage ==
  OffsetFree(align_to(AtNull, PAGE_SIZE))
<1>1. PICK p \in Nat \ {0} : p = PAGE_SIZE
  BY SizesAssumption
<1>2. AtNull \in Nat /\ AtNull > 0
  BY SizesAssumption DEF AtNull
<1>3. PICK r : r = align_to(AtNull, PAGE_SIZE)
  OBVIOUS
<1>4. r \in Nat /\ r > 0 /\ r % p = 0
  BY <1>1, <1>2, <1>3, AlignIs
<1>5. r >= p
  <2> SUFFICES ASSUME r < p PROVE FALSE
    BY <1>1, <1>4
  <2>1. r % p = r
    BY <1>1, <1>4
  <2> QED
    BY <1>4, <2>1
<1>6. HeadersEnd \in Nat /\ HeadersEnd <= p
  BY <1>1, SizesAssumption DEF HeadersEnd
<1> QED
  BY <1>1, <1>3, <1>4, <1>5, <1>6 DEF OffsetFree

LEMMA NextFixSegments ==
  ASSUME WriterInv, FixSegments
  PROVE  WriterInv'
<1>1. /\ pc = "fix_segments" /\ pc' = "fix_sections" /\ hash' = hash
      /\ seg_count' = seg_count /\ sections' = sections /\ sec_count' = sec_count
      /\ preload' = preload /\ header' = header /\ out' = out
  BY Zenon DEF FixSegments
<1>2. /\ hash \in [SectionKeys -> Nat] /\ header \in HeaderT
      /\ SegmentsMade /\ SectionsMade /\ out = <<>>
  BY <1>1 DEF WriterInv, Stage, Written
<1>3. PICK at : at = align_to(AtNull, PAGE_SIZE)
  OBVIOUS
<1>4. OffsetFree(at)
  BY <1>3, FirstPage
<1>5. align_to(EhdrSize + seg_count * PhdrSize, PAGE_SIZE) = at
  BY <1>2, <1>3 DEF SegmentsMade, AtNull
<1>6. PICK r : r = FixSegmentAll([map |-> segments, offset |-> at], Map!Order(segments))
  OBVIOUS
<1>7. segments' = r.map /\ offset' = r.offset
  BY <1>5, <1>6, Zenon DEF FixSegments, FixSegmentAll
<1>8. SegmentsHeld(segments, preload)
  BY <1>2 DEF SegmentsMade
<1>9. PICK m, o : m = r.map /\ o = r.offset
  OBVIOUS
<1>10. SegmentsHeld(m, preload) /\ OffsetFree(o) /\ TextLaid(m, o) /\ BssLaid(m)
  BY <1>4, <1>6, <1>8, <1>9, SegmentsFixed
<1>11. SegmentsHeld(segments, preload)' /\ TextLaid(segments, offset)' /\ BssLaid(segments)'
  BY <1>1, <1>7, <1>9, <1>10, SegmentsNext
<1>12. OffsetFree(offset)'
  BY <1>7, <1>9, <1>10 DEF OffsetFree
<1>13. SegmentsMade'
  BY <1>1, <1>2, <1>11, Zenon DEF SegmentsMade
<1>14. SegmentsLaid'
  BY <1>11, <1>12, <1>13, Zenon DEF SegmentsLaid
<1>15. SectionsMade'
  BY <1>1, <1>2, SectionsKept
<1>16. Stage'
  BY <1>1, <1>14, <1>15 DEF Stage
<1>17. Written'
  BY <1>1, <1>2 DEF Written
<1> QED
  BY <1>1, <1>2, <1>16, <1>17 DEF WriterInv

LEMMA EmptyStrtabIs ==
  /\ EmptyStrtab \in SectionT /\ EmptyStrtab.length > 0 /\ EmptyStrtab.capacity
  /\ IsNamed(".shstrtab", EmptyStrtab, EmptyStrtab)
<1>1. PICK s : s = [Section("strtab", 0) EXCEPT !.sh_name = 1, !.length = 1]
  OBVIOUS
<1>2. s \in SectionT /\ s.length = 1 /\ s.strings = {} /\ s.sh_name = 1
  BY <1>1 DEF Section, SectionT, Types
<1>3. PICK e : e = [at |-> 1, name |-> ".shstrtab"]
  OBVIOUS
<1>4. e \in [at : Nat, name : SectionKeys]
  BY <1>3 DEF SectionKeys
<1>5. EmptyStrtab = [s EXCEPT !.length = 11, !.capacity = TRUE, !.strings = {e}]
  <2>1. PICK n : n = NameSize(".shstrtab")
    OBVIOUS
  <2>2. n = 10
    BY <2>1 DEF NameSize
  <2>3. PICK l, x : l = s.length + n /\ x = s.strings \cup {[at |-> s.length, name |-> ".shstrtab"]}
    OBVIOUS
  <2>4. l = 11 /\ x = {e}
    BY <1>2, <1>3, <2>2, <2>3
  <2>5. EmptyStrtab = [s EXCEPT !.length = l, !.capacity = TRUE, !.strings = x]
    BY <1>1, <1>2, <2>1, <2>3 DEF EmptyStrtab, PushName, SectionT
  <2> QED
    BY <2>4, <2>5
<1>6. /\ EmptyStrtab \in SectionT /\ EmptyStrtab.length = 11 /\ EmptyStrtab.capacity
      /\ EmptyStrtab.strings = {e} /\ EmptyStrtab.sh_name = 1
  BY <1>2, <1>4, <1>5 DEF SectionT
<1> QED
  BY <1>3, <1>6 DEF IsNamed

\* The place of a section in the order of the map.
LEMMA IndexIs ==
  ASSUME NEW w, Good(w, SectionKeys), NEW key \in SectionKeys
  PROVE  index_of_section(w, key) \in 1..3 /\ Map!Order(w)[index_of_section(w, key)] = key
<1>1. PICK q : q = Map!Order(w)
  OBVIOUS
<1>2. Lists(q, SectionKeys) /\ Len(q) = w.nnodes
  BY <1>1, OrderLists
<1>3. Len(q) = 3 /\ SectionKeys = {q[1], q[2], q[3]}
  BY <1>2, ListThree
<1>4. \E i \in 1..3 : q[i] = key
  BY <1>3
<1>5. index_of_section(w, key) = CHOOSE i \in 1..3 : q[i] = key
  BY <1>1, <1>2, <1>3 DEF index_of_section
<1> QED
  BY <1>1, <1>4, <1>5

LEMMA NextFixSections ==
  ASSUME WriterInv, FixSections
  PROVE  WriterInv'
<1>1. PICK f : f = FixSectionAll([map |-> sections, offset |-> offset, strtab |-> EmptyStrtab],
                                 Map!Order(sections))
  OBVIOUS
<1>2. PICK table : table = [f.strtab EXCEPT !.sh_size = f.strtab.length, !.sh_offset = f.offset]
  OBVIOUS
<1>3. PICK n : n = sections'
  OBVIOUS
<1>4. /\ pc = "fix_sections" /\ pc' = "finalize" /\ hash' = hash
      /\ n = Map!map_set_(f.map, ".shstrtab", table)
      /\ sec_count' = sec_count + 1 /\ offset' = f.offset
      /\ header' = [header EXCEPT !.e_shstrndx = index_of_section(n, ".shstrtab")]
      /\ segments' = segments /\ seg_count' = seg_count /\ preload' = preload /\ out' = out
  BY <1>1, <1>2, <1>3, Zenon DEF FixSections, FixSectionAll
<1>5. /\ hash \in [SectionKeys -> Nat] /\ header \in HeaderT
      /\ SegmentsLaid /\ SectionsMade /\ out = <<>>
  BY <1>4 DEF WriterInv, Stage, Written
<1>6. /\ Good(segments, Two) /\ IsText(SegmentOf(".text"))
      /\ IsBss(SegmentOf(".bss"), SegmentOf(".text"))
  BY <1>5 DEF SegmentsLaid, SegmentsMade, SegmentsHeld, SegmentOf
<1>7. SectionsHeld(sections, EmptyStrtab)
  BY <1>5, EmptyStrtabIs, Zenon DEF SectionsMade, SectionsHeld, SectionOf
<1>8. PICK b, t : b = f.map /\ t = f.strtab
  OBVIOUS
<1>9. /\ f.offset = offset /\ SectionsHeld(b, t)
      /\ EmptyStrtab.strings \subseteq t.strings /\ t.sh_name = EmptyStrtab.sh_name
      /\ \A name \in Two : IsNamed(name, Map!map_get_(b, name), t)
  BY <1>1, <1>6, <1>7, <1>8, SectionsFixed
<1>10. offset \in Nat
  BY <1>5 DEF SegmentsLaid, OffsetFree
<1>11. /\ table \in SectionT /\ table.capacity /\ table.length > 0
       /\ table.sh_offset = offset /\ table.sh_name = t.sh_name /\ table.strings = t.strings
  BY <1>2, <1>8, <1>9, <1>10 DEF SectionsHeld, SectionT
<1>12. \A name \in Two : IsNamed(name, Map!map_get_(b, name), table)
  BY <1>9, <1>11 DEF IsNamed
<1>13. IsNamed(".shstrtab", table, table)
  BY <1>9, <1>11, EmptyStrtabIs DEF IsNamed
<1>14. /\ ".shstrtab" \in SectionKeys /\ Two \cup {".shstrtab"} = SectionKeys
       /\ \A name \in Two : name # ".shstrtab"
  BY DEF SectionKeys, Two
<1>15. SetTo(n, b, Two, ".shstrtab", table)
  BY <1>4, <1>8, <1>9, <1>11, <1>14, GoodSet DEF SectionsHeld
<1>16. /\ Good(n, SectionKeys) /\ Map!map_get_(n, ".shstrtab") = table
       /\ \A name \in Two : Map!map_get_(n, name) = Map!map_get_(b, name)
  BY <1>14, <1>15, Zenon DEF SetTo
<1>17. /\ Good(sections, SectionKeys)' /\ SectionOf(".shstrtab")' = table
       /\ \A name \in Two : SectionOf(name)' = Map!map_get_(b, name)
       /\ Map!Order(sections)' = Map!Order(n)
  <2>1. /\ Good(sections, SectionKeys)'
        /\ \A k : SectionOf(k)' = Map!map_get_(n, k)
        /\ Map!Order(sections)' = Map!Order(n)
    BY <1>3, <1>4, <1>16, SectionsNext
  <2> QED
    BY <1>16, <2>1
<1>18. \A name \in Two : IsBare(SectionOf(name))'
  BY <1>9, <1>17 DEF SectionsHeld, IsBare
<1>19. \A name \in SectionKeys : IsNamed(name, SectionOf(name), SectionOf(".shstrtab"))'
  BY <1>12, <1>13, <1>14, <1>17 DEF IsNamed
<1>20. PICK i \in 1..3 : i = index_of_section(n, ".shstrtab") /\ Map!Order(n)[i] = ".shstrtab"
  BY <1>14, <1>16, IndexIs
<1>21. header' \in HeaderT /\ header'.e_shstrndx = i /\ header'.e_entry = header.e_entry
  BY <1>4, <1>5, <1>20 DEF HeaderT
<1>22. Map!Order(sections)'[header'.e_shstrndx] = ".shstrtab"
  BY <1>17, <1>20, <1>21
<1>23. offset' = offset
  BY <1>4, <1>9
<1>24. sec_count' = 3
  BY <1>4, <1>5 DEF SectionsMade
<1>25. /\ SectionOf(".shstrtab")' \in SectionT /\ SectionOf(".shstrtab")'.capacity
       /\ SectionOf(".shstrtab")'.length > 0 /\ SectionOf(".shstrtab")'.sh_offset = offset'
  BY <1>11, <1>17, <1>23
<1>26. SectionsLaid'
  BY <1>17, <1>18, <1>19, <1>20, <1>21, <1>22, <1>24, <1>25, Zenon DEF SectionsLaid
<1>27. SegmentsLaid'
  BY <1>4, <1>5, <1>21, <1>23, SegmentsKept
<1>28. Stage'
  BY <1>4, <1>26, <1>27 DEF Stage
<1>29. Written'
  BY <1>4, <1>5 DEF Written
<1> QED
  BY <1>4, <1>5, <1>21, <1>28, <1>29 DEF WriterInv

LEMMA NextFinalize ==
  ASSUME WriterInv, finalize_elf_ctx
  PROVE  WriterInv'
<1>1. /\ pc = "finalize" /\ pc' = "headers" /\ hash' = hash
      /\ header' = [header EXCEPT
                      !.e_phnum = seg_count,
                      !.e_phoff = IF seg_count > 0 THEN EhdrSize ELSE header.e_phoff,
                      !.e_shnum = sec_count + 1,
                      !.e_shoff = EhdrSize + seg_count * PhdrSize]
      /\ segments' = segments /\ seg_count' = seg_count /\ sections' = sections
      /\ sec_count' = sec_count /\ preload' = preload /\ offset' = offset /\ out' = out
  BY DEF finalize_elf_ctx
<1>2. /\ hash \in [SectionKeys -> Nat] /\ header \in HeaderT
      /\ SegmentsLaid /\ SectionsLaid /\ out = <<>>
  BY <1>1 DEF WriterInv, Stage, Written
<1>3. seg_count = 2 /\ sec_count = 3
  BY <1>2 DEF SegmentsLaid, SegmentsMade, SectionsLaid
<1>4. PICK a \in Nat : a = EhdrSize + 2 * PhdrSize
  BY SizesAssumption
<1>5. header' = [header EXCEPT !.e_phnum = 2, !.e_phoff = EhdrSize, !.e_shnum = 4, !.e_shoff = a]
  BY <1>1, <1>3, <1>4
<1>6. /\ header' \in HeaderT
      /\ header'.e_phnum = 2 /\ header'.e_phoff = EhdrSize
      /\ header'.e_shnum = 4 /\ header'.e_shoff = a
      /\ header'.e_entry = header.e_entry /\ header'.e_shstrndx = header.e_shstrndx
  BY <1>2, <1>5, SizesAssumption DEF HeaderT
<1>7. HeaderMade'
  BY <1>4, <1>6 DEF HeaderMade, AtNull
<1>8. SegmentsLaid'
  BY <1>1, <1>2, <1>6, SegmentsKept
<1>9. SectionsLaid'
  BY <1>1, <1>2, <1>6, SectionsKept
<1>10. Stage'
  BY <1>1, <1>7, <1>8, <1>9 DEF Stage
<1>11. Written'
  BY <1>1, <1>2 DEF Written
<1> QED
  BY <1>1, <1>2, <1>6, <1>10, <1>11 DEF WriterInv

LEMMA NextHeaders ==
  ASSUME WriterInv, WriteHeaders
  PROVE  WriterInv'
<1>1. PICK p, q : p = Map!Order(segments) /\ q = Map!Order(sections)
  OBVIOUS
<1>2. PICK v : v = PutPhdrAll(<<Region(0, EhdrSize, "ehdr", "none")>>, p)
  OBVIOUS
<1>3. PICK w : w = PutShdrAll(Put(v, ShdrSize, "shdr", "null"), q)
  OBVIOUS
<1>4. /\ pc = "headers" /\ pc' = "contents" /\ hash' = hash /\ out' = w
      /\ segments' = segments /\ seg_count' = seg_count /\ sections' = sections
      /\ sec_count' = sec_count /\ preload' = preload /\ offset' = offset /\ header' = header
  BY <1>1, <1>2, <1>3, Zenon DEF WriteHeaders, PutPhdrAll, PutShdrAll
<1>5. /\ hash \in [SectionKeys -> Nat] /\ header \in HeaderT
      /\ SegmentsLaid /\ SectionsLaid /\ HeaderMade
  BY <1>4 DEF WriterInv, Stage
<1>6. DOMAIN p = 1..2 /\ \A i \in 1..2 : p[i] \in SectionKeys
  <2>1. Good(segments, Two)
    BY <1>5 DEF SegmentsLaid, SegmentsMade, SegmentsHeld
  <2>2. Lists(p, Two)
    BY <1>1, <2>1, OrderLists
  <2> QED
    BY <2>2, ListTwo DEF SectionKeys
<1>7. DOMAIN q = 1..3 /\ \A i \in 1..3 : q[i] \in SectionKeys
  <2>1. Lists(q, SectionKeys)
    BY <1>1, <1>5, OrderLists DEF SectionsLaid
  <2> QED
    BY <2>1, ListThree
<1>8. AreHeaders(w, p, q)
  BY <1>2, <1>3, <1>6, <1>7, HeadersPut
<1>9. SegmentsLaid' /\ Map!Order(segments)' = p
  BY <1>1, <1>4, <1>5, SegmentsKept
<1>10. SectionsLaid' /\ Map!Order(sections)' = q
  BY <1>1, <1>4, <1>5, SectionsKept
<1>11. HeaderMade'
  BY <1>4, <1>5 DEF HeaderMade
<1>12. Stage'
  BY <1>4, <1>9, <1>10, <1>11 DEF Stage
<1>13. HeadersIn(out)'
  BY <1>4, <1>8, <1>9, <1>10 DEF HeadersIn
<1>14. Written'
  BY <1>4, <1>13 DEF Written
<1> QED
  BY <1>4, <1>5, <1>12, <1>14 DEF WriterInv

\* Of the segments only the code has contents, of the sections only the
\* string table.
LEMMA PutSegmentIs ==
  ASSUME SegmentsLaid, NEW w
  PROVE  PutSegment(w, ".text") = Append(w, TextRegion) /\ PutSegment(w, ".bss") = w
<1>1. /\ IsText(SegmentOf(".text")) /\ IsBss(SegmentOf(".bss"), SegmentOf(".text"))
  BY DEF SegmentsLaid, SegmentsMade, SegmentsHeld, SegmentOf
<1>2. SegmentOf(".text").capacity /\ ~SegmentOf(".bss").capacity
  BY <1>1 DEF IsText, IsBss
<1> QED
  BY <1>2, Zenon DEF PutSegment, TextRegion, SegmentOf

LEMMA PutSectionIs ==
  ASSUME SectionsLaid, NEW w
  PROVE  /\ PutSection(w, ".shstrtab") = Append(w, TableRegion)
         /\ \A name \in Two : PutSection(w, name) = w
<1>1. /\ SectionOf(".shstrtab").capacity
      /\ \A name \in Two : ~SectionOf(name).capacity
  BY DEF SectionsLaid, IsBare
<1> QED
  BY <1>1, Zenon DEF PutSection, TableRegion, SectionOf

LEMMA NextContents ==
  ASSUME WriterInv, WriteContents
  PROVE  WriterInv'
<1>1. PICK p, q : p = Map!Order(segments) /\ q = Map!Order(sections)
  OBVIOUS
<1>2. PICK v : v = PutSegmentAll(out, p)
  OBVIOUS
<1>3. PICK w : w = PutSectionAll(v, q)
  OBVIOUS
<1>4. /\ pc = "contents" /\ pc' = "done" /\ hash' = hash /\ out' = w
      /\ segments' = segments /\ seg_count' = seg_count /\ sections' = sections
      /\ sec_count' = sec_count /\ preload' = preload /\ offset' = offset /\ header' = header
  BY <1>1, <1>2, <1>3, Zenon DEF WriteContents, PutSegmentAll, PutSectionAll
<1>5. /\ hash \in [SectionKeys -> Nat] /\ header \in HeaderT
      /\ SegmentsLaid /\ SectionsLaid /\ HeaderMade /\ HeadersIn(out)
  BY <1>4 DEF WriterInv, Stage, Written
<1>6. PICK u, x, y : u = out /\ x = TextRegion /\ y = TableRegion
  OBVIOUS
<1>7. v = Append(u, x)
  <2>1. Good(segments, Two)
    BY <1>5 DEF SegmentsLaid, SegmentsMade, SegmentsHeld
  <2>2. Lists(p, Two)
    BY <1>1, <2>1, OrderLists
  <2>3. /\ DOMAIN p = 1..2
        /\ (p[1] = ".text" /\ p[2] = ".bss") \/ (p[1] = ".bss" /\ p[2] = ".text")
    BY <2>2, ListTwo
  <2>4. Folded(PutSegmentAll(u, p), "put_segment", u, p, 2)
    BY <2>3, FoldPutSegment
  <2>5. v = PutSegment(PutSegment(u, p[1]), p[2])
    BY <1>2, <1>6, <2>4 DEF Folded, Step
  <2>6. \A z : PutSegment(z, ".text") = Append(z, x) /\ PutSegment(z, ".bss") = z
    BY <1>5, <1>6, PutSegmentIs
  <2> QED
    BY <2>3, <2>5, <2>6, Zenon
<1>8. w = Append(v, y)
  <2>1. Lists(q, SectionKeys)
    BY <1>1, <1>5, OrderLists DEF SectionsLaid
  <2>2. /\ DOMAIN q = 1..3
        /\ q[1] # q[2] /\ q[1] # q[3] /\ q[2] # q[3]
        /\ SectionKeys = {q[1], q[2], q[3]}
    BY <2>1, ListThree
  <2>3. Folded(PutSectionAll(v, q), "put_section", v, q, 3)
    BY <2>2, FoldPutSection
  <2>4. PICK a, b : a = PutSection(v, q[1]) /\ b = PutSection(a, q[2])
    OBVIOUS
  <2>5. w = PutSection(b, q[3])
    BY <1>3, <2>3, <2>4 DEF Folded, Step
  <2>6. \/ q[1] = ".shstrtab" /\ q[2] \in Two /\ q[3] \in Two
        \/ q[2] = ".shstrtab" /\ q[1] \in Two /\ q[3] \in Two
        \/ q[3] = ".shstrtab" /\ q[1] \in Two /\ q[2] \in Two
    BY <2>2 DEF SectionKeys, Two
  <2>7. \A z : PutSection(z, ".shstrtab") = Append(z, y)
    BY <1>5, <1>6, PutSectionIs
  <2>8. \A z : \A name \in Two : PutSection(z, name) = z
    BY <1>5, PutSectionIs
  <2>9. CASE q[1] = ".shstrtab" /\ q[2] \in Two /\ q[3] \in Two
    <3>1. a = Append(v, y)
      BY <2>4, <2>7, <2>9, Zenon
    <3>2. b = a /\ w = b
      BY <2>4, <2>5, <2>8, <2>9, Zenon
    <3> QED
      BY <3>1, <3>2
  <2>10. CASE q[2] = ".shstrtab" /\ q[1] \in Two /\ q[3] \in Two
    <3>1. a = v /\ w = b
      BY <2>4, <2>5, <2>8, <2>10, Zenon
    <3>2. b = Append(a, y)
      BY <2>4, <2>7, <2>10, Zenon
    <3> QED
      BY <3>1, <3>2
  <2>11. CASE q[3] = ".shstrtab" /\ q[1] \in Two /\ q[2] \in Two
    <3>1. a = v /\ b = a
      BY <2>4, <2>8, <2>11, Zenon
    <3>2. w = Append(b, y)
      BY <2>5, <2>7, <2>11, Zenon
    <3> QED
      BY <3>1, <3>2
  <2> QED
    BY <2>6, <2>9, <2>10, <2>11
<1>9. SegmentsLaid' /\ Map!Order(segments)' = p /\ TextRegion' = x
  BY <1>1, <1>4, <1>5, <1>6, SegmentsKept
<1>10. SectionsLaid' /\ Map!Order(sections)' = q /\ TableRegion' = y
  BY <1>1, <1>4, <1>5, <1>6, SectionsKept
<1>11. HeaderMade'
  BY <1>4, <1>5 DEF HeaderMade
<1>12. Stage'
  BY <1>4, <1>9, <1>10, <1>11 DEF Stage
<1>13. AreHeaders(u, p, q)
  BY <1>1, <1>5, <1>6 DEF HeadersIn
<1>14. HeadersIn(u)'
  BY <1>9, <1>10, <1>13 DEF HeadersIn
<1>15. out' = Append(Append(u, TextRegion'), TableRegion')
  BY <1>4, <1>7, <1>8, <1>9, <1>10
<1>16. Written'
  BY <1>4, <1>14, <1>15 DEF Written
<1> QED
  BY <1>4, <1>5, <1>12, <1>16 DEF WriterInv

LEMMA NextStutter ==
  ASSUME WriterInv, UNCHANGED vars
  PROVE  WriterInv'
<1>1. /\ hash' = hash /\ segments' = segments /\ seg_count' = seg_count
      /\ sections' = sections /\ sec_count' = sec_count /\ preload' = preload
      /\ header' = header /\ offset' = offset /\ out' = out /\ pc' = pc
  BY DEF vars
<1>2. /\ Map!Order(segments)' = Map!Order(segments) /\ TextRegion' = TextRegion
      /\ SegmentsMade => SegmentsMade'
      /\ SegmentsLaid => SegmentsLaid'
  BY <1>1, SegmentsKept
<1>3. /\ Map!Order(sections)' = Map!Order(sections) /\ TableRegion' = TableRegion
      /\ SectionsMade => SectionsMade'
      /\ SectionsLaid => SectionsLaid'
  BY <1>1, SectionsKept
<1>4. PICK m, n : m = segments /\ n = sections
  OBVIOUS
<1>5. /\ \A d : Good(segments, d) => Good(segments, d)'
      /\ \A k : SegmentOf(k)' = SegmentOf(k)
  BY <1>1, <1>4, SegmentsNext DEF SegmentOf
<1>6. /\ \A d : Good(sections, d) => Good(sections, d)'
      /\ \A k : SectionOf(k)' = SectionOf(k)
  BY <1>1, <1>4, SectionsNext DEF SectionOf
<1>7. OneMade => OneMade'
  BY <1>1, <1>5, <1>6 DEF OneMade, IsBare
<1>8. HeaderMade => HeaderMade'
  BY <1>1 DEF HeaderMade
<1>9. Stage'
  BY <1>1, <1>2, <1>3, <1>5, <1>6, <1>7, <1>8 DEF WriterInv, Stage, IsText
<1>10. \A w : HeadersIn(w) => HeadersIn(w)'
  BY <1>2, <1>3 DEF HeadersIn
<1>11. Written'
  <2>1. pc = "contents" => HeadersIn(out)'
    BY <1>1, <1>2, <1>3 DEF WriterInv, Written, HeadersIn
  <2>2. pc = "done" => \E w : HeadersIn(w)' /\ out' = Append(Append(w, TextRegion'), TableRegion')
    BY <1>1, <1>2, <1>3, <1>10 DEF WriterInv, Written
  <2>3. pc \notin {"contents", "done"} => out' = <<>>
    BY <1>1 DEF WriterInv, Written
  <2> QED
    BY <1>1, <2>1, <2>2, <2>3 DEF Written
<1> QED
  BY <1>1, <1>9, <1>11 DEF WriterInv

LEMMA InitInv ==
  ASSUME Init
  PROVE  WriterInv
<1>1. hash \in [SectionKeys -> Nat]
  BY HashesAssumption DEF Init
<1>2. Good(segments, {}) /\ Good(sections, {})
  BY <1>1, GoodEmpty DEF Init
<1>3. header \in HeaderT
  BY DEF Init, HeaderT
<1>4. Stage /\ Written
  BY <1>2 DEF Init, Stage, Written
<1> QED
  BY <1>1, <1>3, <1>4 DEF WriterInv

\* What the maps, the headers and the file hold at each step of
\* write_elf_file.
THEOREM WriterInvariant == Spec => []WriterInv
<1>1. ASSUME WriterInv, [Next]_vars PROVE WriterInv'
  <2>1. CASE GenText
    BY <1>1, <2>1, NextText
  <2>2. CASE CompileText
    BY <1>1, <2>2, NextCompile
  <2>3. CASE GenBss
    BY <1>1, <2>3, NextBss
  <2>4. CASE FixSegments
    BY <1>1, <2>4, NextFixSegments
  <2>5. CASE FixSections
    BY <1>1, <2>5, NextFixSections
  <2>6. CASE finalize_elf_ctx
    BY <1>1, <2>6, NextFinalize
  <2>7. CASE WriteHeaders
    BY <1>1, <2>7, NextHeaders
  <2>8. CASE WriteContents
    BY <1>1, <2>8, NextContents
  <2>9. CASE Done
    BY <1>1, <2>9, NextStutter DEF Done
  <2>10. CASE UNCHANGED vars
    BY <1>1, <2>10, NextStutter
  <2> QED
    BY <1>1, <2>1, <2>2, <2>3, <2>4, <2>5, <2>6, <2>7, <2>8, <2>9, <2>10, Zenon DEF Next
<1> QED
  BY <1>1, InitInv, PTL DEF Spec

---------------------------------------------------------------------------
(* What the properties say of the file *)

\* A region ends in front of x.
Below(r, x) == r.at \in Nat /\ r.size \in Nat /\ r.at + r.size <= x

\* The n regions of w come one behind the other, and all in front of x.
Ascending(w, n, x) ==
  /\ w \in Seq(RegionT) /\ Len(w) = n /\ x \in Nat
  /\ \A i, j \in 1..n : i < j => Below(w[i], w[j].at)
  /\ \A i \in 1..n : Below(w[i], x)

LEMMA BelowMore ==
  ASSUME NEW r, NEW x \in Nat, NEW y \in Nat, Below(r, x), x <= y
  PROVE  Below(r, y)
BY DEF Below

LEMMA AscendingDisjoint ==
  ASSUME NEW w, NEW n \in Nat, NEW x, Ascending(w, n, x),
         NEW i \in 1..n, NEW j \in 1..n, i # j
  PROVE  ~Overlap(w[i].at, w[i].size, w[j].at, w[j].size)
<1>1. Below(w[i], x) /\ Below(w[j], x)
  BY DEF Ascending
<1>2. w[i].at \in Nat /\ w[i].size \in Nat /\ w[j].at \in Nat /\ w[j].size \in Nat
  BY <1>1 DEF Below
<1>3. CASE i < j
  <2>1. Below(w[i], w[j].at)
    BY <1>3 DEF Ascending
  <2> QED
    BY <1>2, <2>1 DEF Overlap, Below
<1>4. CASE j < i
  <2>1. Below(w[j], w[i].at)
    BY <1>4 DEF Ascending
  <2> QED
    BY <1>2, <2>1 DEF Overlap, Below
<1> QED
  BY <1>3, <1>4

\* A region behind all others.
LEMMA AscendingAppend ==
  ASSUME NEW w, NEW n \in Nat, NEW x, Ascending(w, n, x),
         NEW r \in RegionT, x <= r.at, NEW y \in Nat, Below(r, y)
  PROVE  Ascending(Append(w, r), n + 1, y)
<1>1. PICK u : u = Append(w, r)
  OBVIOUS
<1>2. w \in Seq(RegionT) /\ Len(w) = n /\ x \in Nat
  BY DEF Ascending
<1>3. /\ u \in Seq(RegionT) /\ Len(u) = n + 1 /\ u[n + 1] = r
      /\ \A i \in 1..n : u[i] = w[i]
  BY <1>1, <1>2
<1>4. r.at \in Nat /\ r.at <= y
  BY DEF Below
<1>5. ASSUME NEW i \in 1..n PROVE Below(u[i], r.at) /\ Below(u[i], y)
  <2>1. Below(u[i], x)
    BY <1>3 DEF Ascending
  <2>2. Below(u[i], r.at)
    BY <1>2, <1>4, <2>1, BelowMore
  <2> QED
    BY <1>4, <2>2, BelowMore
<1>6. ASSUME NEW i \in 1..(n + 1), NEW j \in 1..(n + 1), i < j PROVE Below(u[i], u[j].at)
  <2>1. i \in 1..n
    BY <1>6
  <2>2. CASE j = n + 1
    BY <1>3, <1>5, <2>1, <2>2
  <2>3. CASE j # n + 1
    <3>1. j \in 1..n
      BY <2>3
    <3>2. Below(w[i], w[j].at)
      BY <1>6, <2>1, <3>1 DEF Ascending
    <3> QED
      BY <1>3, <2>1, <3>1, <3>2
  <2> QED
    BY <2>2, <2>3
<1>7. ASSUME NEW i \in 1..(n + 1) PROVE Below(u[i], y)
  <2>1. CASE i \in 1..n
    BY <1>5, <2>1
  <2>2. CASE i = n + 1
    BY <1>3, <2>2
  <2> QED
    BY <2>1, <2>2
<1> QED
  BY <1>1, <1>3, <1>6, <1>7 DEF Ascending

LEMMA HeadersAscend ==
  ASSUME NEW w, NEW p, NEW q, AreHeaders(w, p, q)
  PROVE  Ascending(w, 7, HeadersEnd)
<1>1. PICK e \in Nat, f \in Nat, g \in Nat : e = EhdrSize /\ f = PhdrSize /\ g = ShdrSize
  BY SizesAssumption
<1>2. PICK a : a = [i \in 1..7 |-> w[i].at]
  OBVIOUS
<1>3. PICK s : s = [i \in 1..7 |-> w[i].size]
  OBVIOUS
<1>4. /\ a[1] = 0 /\ s[1] = e /\ a[2] = e /\ s[2] = f /\ a[3] = e + f /\ s[3] = f
      /\ a[4] = e + 2 * f /\ s[4] = g /\ a[5] = e + 2 * f + g /\ s[5] = g
      /\ a[6] = e + 2 * f + 2 * g /\ s[6] = g /\ a[7] = e + 2 * f + 3 * g /\ s[7] = g
      /\ HeadersEnd = e + 2 * f + 4 * g
  BY <1>1, <1>2, <1>3 DEF AreHeaders, Region, AtNull, HeadersEnd
<1>5. \A i \in 1..7 : w[i].at = a[i] /\ w[i].size = s[i]
  BY <1>2, <1>3
<1>6. \A i \in 1..7 : i = 1 \/ i = 2 \/ i = 3 \/ i = 4 \/ i = 5 \/ i = 6 \/ i = 7
  OBVIOUS
<1>7. ASSUME NEW i \in 1..7 PROVE a[i] \in Nat /\ s[i] \in Nat /\ a[i] + s[i] <= HeadersEnd
  BY <1>4, <1>6
<1>8. ASSUME NEW i \in 1..7, NEW j \in 1..7, i < j PROVE a[i] + s[i] <= a[j]
  BY <1>4, <1>6, <1>8
<1>9. \A i, j \in 1..7 : i < j => Below(w[i], w[j].at)
  BY <1>5, <1>7, <1>8 DEF Below
<1>10. \A i \in 1..7 : Below(w[i], HeadersEnd)
  BY <1>5, <1>7 DEF Below
<1>11. w \in Seq(RegionT) /\ Len(w) = 7
  BY DEF AreHeaders
<1>12. HeadersEnd \in Nat
  BY <1>1, <1>4
<1> QED
  BY <1>9, <1>10, <1>11, <1>12 DEF Ascending

\* The parts of the finished file: the headers, the code behind the first
\* page, and the string table behind the code.
LEMMA FileIs ==
  ASSUME WriterInv, pc = "done"
  PROVE  /\ SegmentsLaid /\ SectionsLaid /\ HeaderMade /\ header \in HeaderT
         /\ \E w : HeadersIn(w) /\ out = Append(Append(w, TextRegion), TableRegion)
         /\ TextRegion \in RegionT /\ TableRegion \in RegionT
         /\ HeadersEnd <= TextRegion.at /\ Below(TextRegion, TableRegion.at)
<1>1. /\ SegmentsLaid /\ SectionsLaid /\ HeaderMade /\ header \in HeaderT
      /\ \E w : HeadersIn(w) /\ out = Append(Append(w, TextRegion), TableRegion)
  BY DEF WriterInv, Stage, Written
<1>2. PICK t : t = SegmentOf(".text")
  OBVIOUS
<1>3. PICK g : g = SectionOf(".shstrtab")
  OBVIOUS
<1>4. /\ t \in Program
      /\ t.p_offset >= HeadersEnd /\ t.p_offset + t.length <= offset /\ offset \in Nat
  BY <1>1, <1>2 DEF SegmentsLaid, SegmentsMade, SegmentsHeld, IsText, TextLaid, IsPlaced,
                    OffsetFree, SegmentOf
<1>5. g \in SectionT /\ g.sh_offset = offset
  BY <1>1, <1>3 DEF SectionsLaid
<1>6. t.length \in Nat /\ t.p_offset \in Nat /\ g.length \in Nat /\ g.sh_offset \in Nat
  BY <1>4, <1>5 DEF Program, SectionT
<1>7. /\ TextRegion = Region(t.p_offset, t.length, "segment", ".text")
      /\ TableRegion = Region(g.sh_offset, g.length, "section", ".shstrtab")
  BY <1>2, <1>3 DEF TextRegion, TableRegion
<1>8. TextRegion \in RegionT /\ TableRegion \in RegionT
  BY <1>6, <1>7, RegionIs DEF SectionKeys
<1>9. TextRegion.at = t.p_offset /\ TextRegion.size = t.length /\ TableRegion.at = offset
  BY <1>5, <1>7 DEF Region
<1>10. HeadersEnd \in Nat
  BY SizesAssumption DEF HeadersEnd
<1> QED
  BY <1>1, <1>4, <1>6, <1>8, <1>9, <1>10 DEF Below

LEMMA InvDisjoint ==
  ASSUME WriterInv
  PROVE  WritesDisjoint
<1>1. SUFFICES ASSUME NEW i \in 1..Len(out), NEW j \in 1..Len(out), i # j
               PROVE  ~Overlap(out[i].at, out[i].size, out[j].at, out[j].size)
  BY DEF WritesDisjoint
<1>2. CASE pc \notin {"contents", "done"}
  <2>1. out = <<>>
    BY <1>2 DEF WriterInv, Written
  <2> QED
    BY <2>1
<1>3. CASE pc = "contents"
  <2>1. Ascending(out, 7, HeadersEnd)
    BY <1>3, HeadersAscend DEF WriterInv, Written, HeadersIn
  <2>2. Len(out) = 7
    BY <2>1 DEF Ascending
  <2>3. i \in 1..7 /\ j \in 1..7 /\ 7 \in Nat
    BY <2>2
  <2> QED
    BY <1>1, <2>1, <2>3, AscendingDisjoint
<1>4. CASE pc = "done"
  <2>1. PICK x, y : x = TextRegion /\ y = TableRegion
    OBVIOUS
  <2>2. x \in RegionT /\ y \in RegionT /\ HeadersEnd <= x.at /\ Below(x, y.at)
    BY <1>4, <2>1, FileIs
  <2>3. PICK w : HeadersIn(w) /\ out = Append(Append(w, x), y)
    BY <1>4, <2>1, FileIs
  <2>4. Ascending(w, 7, HeadersEnd)
    BY <2>3, HeadersAscend DEF HeadersIn
  <2>5. PICK e \in Nat : e = y.at + y.size
    BY <2>2 DEF RegionT
  <2>6. y.at \in Nat /\ Below(y, e)
    BY <2>2, <2>5 DEF RegionT, Below
  <2>7. PICK v : v = Append(w, x)
    OBVIOUS
  <2>8. Ascending(v, 8, y.at)
    <3>1. Ascending(v, 7 + 1, y.at)
      BY <2>2, <2>4, <2>6, <2>7, AscendingAppend
    <3>2. 7 + 1 = 8
      OBVIOUS
    <3> QED
      BY <3>1, <3>2, Zenon
  <2>9. Ascending(out, 8 + 1, e)
    <3>1. y.at <= y.at
      BY <2>6
    <3>2. Ascending(Append(v, y), 8 + 1, e)
      BY <2>2, <2>6, <2>8, <3>1, AscendingAppend
    <3>3. out = Append(v, y)
      BY <2>3, <2>7
    <3> QED
      BY <3>2, <3>3, Zenon
  <2>10. Len(out) = 9
    BY <2>9 DEF Ascending
  <2>11. i \in 1..9 /\ j \in 1..9 /\ 9 \in Nat /\ Ascending(out, 9, e)
    BY <2>9, <2>10
  <2> QED
    BY <1>1, <2>11, AscendingDisjoint
<1> QED
  BY <1>2, <1>3, <1>4

\* No fwrite overwrites what another one wrote, for every hash function,
\* every length of the code and all sizes of headers.
THEOREM SpecWritesDisjoint == Spec => []WritesDisjoint
<1>1. WriterInv => WritesDisjoint
  BY InvDisjoint
<1> QED
  BY <1>1, WriterInvariant, PTL

LEMMA AppendIs ==
  ASSUME NEW w \in Seq(RegionT), NEW n \in Nat, Len(w) = n, NEW r \in RegionT,
         NEW u, u = Append(w, r)
  PROVE  Longer(u, w, r, n)
BY DEF Longer

\* The entries of the finished file.
LEMMA RangeIs ==
  ASSUME NEW w \in Seq(RegionT), Len(w) = 7, NEW x \in RegionT, NEW y \in RegionT,
         NEW u, u = Append(Append(w, x), y)
  PROVE  Range(u) = {w[1], w[2], w[3], w[4], w[5], w[6], w[7], x, y}
<1>1. PICK v : v = Append(w, x)
  OBVIOUS
<1>2. v \in Seq(RegionT) /\ Len(v) = 8 /\ v[8] = x /\ \A i \in 1..7 : v[i] = w[i]
  <2>1. Longer(v, w, x, 7)
    BY <1>1, AppendIs
  <2> QED
    BY <2>1 DEF Longer
<1>3. u \in Seq(RegionT) /\ Len(u) = 9 /\ u[9] = y /\ \A i \in 1..8 : u[i] = v[i]
  <2>1. Longer(u, v, y, 8)
    BY <1>1, <1>2, AppendIs
  <2> QED
    BY <2>1 DEF Longer
<1>4. DOMAIN u = {1, 2, 3, 4, 5, 6, 7, 8, 9}
  BY <1>3
<1>5. /\ u[1] = w[1] /\ u[2] = w[2] /\ u[3] = w[3] /\ u[4] = w[4] /\ u[5] = w[5]
      /\ u[6] = w[6] /\ u[7] = w[7] /\ u[8] = x /\ u[9] = y
  BY <1>2, <1>3
<1> QED
  BY <1>4, <1>5 DEF Range

\* The tables of the finished file: which region is which entry.
LEMMA EntriesAre ==
  ASSUME NEW w, NEW p, NEW q, AreHeaders(w, p, q), NEW x, NEW y,
         x.what = "segment", y.what = "section",
         Range(out) = {w[1], w[2], w[3], w[4], w[5], w[6], w[7], x, y}
  PROVE  /\ Entry("phdr", EhdrSize, PhdrSize, 0) = {w[2]}
         /\ Entry("phdr", EhdrSize, PhdrSize, 1) = {w[3]}
         /\ Entry("shdr", AtNull, ShdrSize, 0) = {w[4]}
         /\ Entry("shdr", AtNull, ShdrSize, 1) = {w[5]}
         /\ Entry("shdr", AtNull, ShdrSize, 2) = {w[6]}
         /\ Entry("shdr", AtNull, ShdrSize, 3) = {w[7]}
<1>1. PICK e \in Nat \ {0}, f \in Nat \ {0}, g \in Nat \ {0} :
        e = EhdrSize /\ f = PhdrSize /\ g = ShdrSize
  BY SizesAssumption
<1>2. PICK a \in Nat : a = AtNull
  BY SizesAssumption DEF AtNull
<1>3. /\ w[1].what = "ehdr" /\ w[2].what = "phdr" /\ w[3].what = "phdr"
      /\ w[4].what = "shdr" /\ w[5].what = "shdr" /\ w[6].what = "shdr" /\ w[7].what = "shdr"
  BY DEF AreHeaders, Region
<1>4. /\ w[2].at = e /\ w[3].at = e + f
      /\ w[4].at = a /\ w[5].at = a + g /\ w[6].at = a + 2 * g /\ w[7].at = a + 3 * g
  BY <1>1, <1>2 DEF AreHeaders, Region
<1>5. /\ \A r \in Range(out) : r.what = "phdr" => r = w[2] \/ r = w[3]
      /\ \A r \in Range(out) : r.what = "shdr" => r = w[4] \/ r = w[5] \/ r = w[6] \/ r = w[7]
      /\ w[2] \in Range(out) /\ w[3] \in Range(out) /\ w[4] \in Range(out)
      /\ w[5] \in Range(out) /\ w[6] \in Range(out) /\ w[7] \in Range(out)
  BY <1>3
<1>6. PICK R : R = Range(out)
  OBVIOUS
<1>7. \A what, off, size, k :
        Entry(what, off, size, k) = {r \in R : r.what = what /\ r.at = off + k * size}
  BY <1>6 DEF Entry
<1>8. e + 0 * f = e /\ e + 1 * f = e + f /\ e # e + f
  BY <1>1
<1>9. /\ a + 0 * g = a /\ a + 1 * g = a + g
      /\ a # a + g /\ a # a + 2 * g /\ a # a + 3 * g
      /\ a + g # a + 2 * g /\ a + g # a + 3 * g /\ a + 2 * g # a + 3 * g
  BY <1>1, <1>2
<1>10. /\ \A r \in R : r.what = "phdr" /\ r.at = e <=> r = w[2]
       /\ \A r \in R : r.what = "phdr" /\ r.at = e + f <=> r = w[3]
  BY <1>3, <1>4, <1>5, <1>6, <1>8
<1>11. /\ \A r \in R : r.what = "shdr" /\ r.at = a <=> r = w[4]
       /\ \A r \in R : r.what = "shdr" /\ r.at = a + g <=> r = w[5]
       /\ \A r \in R : r.what = "shdr" /\ r.at = a + 2 * g <=> r = w[6]
       /\ \A r \in R : r.what = "shdr" /\ r.at = a + 3 * g <=> r = w[7]
  BY <1>3, <1>4, <1>5, <1>6, <1>9
<1>12. /\ Entry("phdr", EhdrSize, PhdrSize, 0) = {w[2]}
       /\ Entry("phdr", EhdrSize, PhdrSize, 1) = {w[3]}
  BY <1>1, <1>5, <1>6, <1>7, <1>8, <1>10
<1>13. /\ Entry("shdr", AtNull, ShdrSize, 0) = {w[4]}
       /\ Entry("shdr", AtNull, ShdrSize, 1) = {w[5]}
  BY <1>1, <1>2, <1>5, <1>6, <1>7, <1>9, <1>11
<1>14. /\ Entry("shdr", AtNull, ShdrSize, 2) = {w[6]}
       /\ Entry("shdr", AtNull, ShdrSize, 3) = {w[7]}
  BY <1>1, <1>2, <1>5, <1>6, <1>7, <1>11
<1> QED
  BY <1>12, <1>13, <1>14

LEMMA InvTables ==
  ASSUME WriterInv
  PROVE  TablesFound
<1>1. SUFFICES ASSUME pc = "done" PROVE TablesFound
  BY DEF TablesFound
<1>2. PICK x, y : x = TextRegion /\ y = TableRegion
  OBVIOUS
<1>3. PICK w : HeadersIn(w) /\ out = Append(Append(w, x), y)
  BY <1>1, <1>2, FileIs
<1>4. SegmentsLaid /\ SectionsLaid /\ HeaderMade /\ x \in RegionT /\ y \in RegionT
  BY <1>1, <1>2, FileIs
<1>5. PICK p, q : p = Map!Order(segments) /\ q = Map!Order(sections)
  OBVIOUS
<1>6. AreHeaders(w, p, q)
  BY <1>3, <1>5 DEF HeadersIn
<1>7. x.what = "segment" /\ y.what = "section"
  BY <1>2 DEF TextRegion, TableRegion, Region
<1>8. Range(out) = {w[1], w[2], w[3], w[4], w[5], w[6], w[7], x, y}
  <2>1. w \in Seq(RegionT) /\ Len(w) = 7
    BY <1>6 DEF AreHeaders
  <2> QED
    BY <1>3, <1>4, <2>1, RangeIs
<1>9. /\ Entry("phdr", EhdrSize, PhdrSize, 0) = {w[2]}
      /\ Entry("phdr", EhdrSize, PhdrSize, 1) = {w[3]}
      /\ Entry("shdr", AtNull, ShdrSize, 0) = {w[4]}
      /\ Entry("shdr", AtNull, ShdrSize, 1) = {w[5]}
      /\ Entry("shdr", AtNull, ShdrSize, 2) = {w[6]}
      /\ Entry("shdr", AtNull, ShdrSize, 3) = {w[7]}
  BY <1>6, <1>7, <1>8, EntriesAre
<1>10. /\ w[2].name = p[1] /\ w[3].name = p[2] /\ w[4].name = "null"
       /\ w[5].name = q[1] /\ w[6].name = q[2] /\ w[7].name = q[3]
  BY <1>6 DEF AreHeaders, Region
<1>11. SegmentNames = {p[1], p[2]}
  <2>1. Good(segments, Two)
    BY <1>4 DEF SegmentsLaid, SegmentsMade, SegmentsHeld
  <2>2. Lists(p, Two)
    BY <1>5, <2>1, OrderLists
  <2>3. DOMAIN p = 1..2
    BY <2>2, ListTwo
  <2> QED
    BY <1>5, <2>3 DEF SegmentNames, Range
<1>12. SectionNames = {q[1], q[2], q[3]} /\ SectionNames = SectionKeys
  <2>1. Lists(q, SectionKeys)
    BY <1>4, <1>5, OrderLists DEF SectionsLaid
  <2>2. DOMAIN q = 1..3 /\ SectionKeys = {q[1], q[2], q[3]}
    BY <2>1, ListThree
  <2> QED
    BY <1>5, <2>2 DEF SectionNames, Range
<1>13. header.e_phnum = 2 /\ header.e_phoff = EhdrSize /\ header.e_shnum = 4 /\ header.e_shoff = AtNull
  BY <1>4 DEF HeaderMade
<1>14. PICK h : h = header.e_shstrndx
  OBVIOUS
<1>15. h \in 1..3 /\ q[h] = ".shstrtab"
  BY <1>4, <1>5, <1>14 DEF SectionsLaid
<1>16. UNION {Entry("phdr", header.e_phoff, PhdrSize, k) : k \in 0..(header.e_phnum - 1)} = {w[2], w[3]}
  <2>1. 0..(header.e_phnum - 1) = {0, 1}
    BY <1>13
  <2> QED
    BY <1>9, <1>13, <2>1
<1>17. UNION {Entry("shdr", header.e_shoff, ShdrSize, k) : k \in 0..(header.e_shnum - 1)}
         = {w[4], w[5], w[6], w[7]}
  <2>1. 0..(header.e_shnum - 1) = {0, 1, 2, 3}
    BY <1>13
  <2> QED
    BY <1>9, <1>13, <2>1
<1>18. {r.name : r \in {w[2], w[3]}} = SegmentNames
  BY <1>10, <1>11
<1>19. {r.name : r \in {w[4], w[5], w[6], w[7]}} = SectionNames \cup {"null"}
  BY <1>10, <1>12
<1>20. /\ \A r \in Entry("shdr", header.e_shoff, ShdrSize, h) : r.name = ".shstrtab"
       /\ Entry("shdr", header.e_shoff, ShdrSize, h) # {}
  <2>1. CASE h = 1
    BY <1>9, <1>10, <1>13, <1>15, <2>1
  <2>2. CASE h = 2
    BY <1>9, <1>10, <1>13, <1>15, <2>2
  <2>3. CASE h = 3
    BY <1>9, <1>10, <1>13, <1>15, <2>3
  <2> QED
    BY <1>15, <2>1, <2>2, <2>3
<1>21. \A name \in SectionNames :
         [at |-> SectionOf(name).sh_name, name |-> name] \in SectionOf(".shstrtab").strings
  BY <1>4, <1>12 DEF SectionsLaid, IsNamed
<1> QED
  BY <1>14, <1>16, <1>17, <1>18, <1>19, <1>20, <1>21, Zenon DEF TablesFound

\* Every segment and section has its entry in the tables that the ELF header
\* leads to, and its name in the string table.
THEOREM SpecTablesFound == Spec => []TablesFound
<1>1. WriterInv => TablesFound
  BY InvTables
<1> QED
  BY <1>1, WriterInvariant, PTL

LEMMA InvLoadable ==
  ASSUME WriterInv
  PROVE  Loadable
<1>1. SUFFICES ASSUME pc = "done" PROVE Loadable
  BY DEF Loadable
<1>2. SegmentsLaid
  BY <1>1, FileIs
<1>3. PICK t, b : t = SegmentOf(".text") /\ b = SegmentOf(".bss")
  OBVIOUS
<1>4. /\ Good(segments, Two) /\ IsText(t) /\ IsBss(b, t) /\ b.p_vaddr = preload
      /\ header.e_entry = TextAddr
      /\ IsPlaced(t) /\ t.p_filesz = t.length /\ IsPlaced(b)
  BY <1>2, <1>3 DEF SegmentsLaid, SegmentsMade, SegmentsHeld, TextLaid, BssLaid, SegmentOf
<1>5. SegmentNames = Two
  <2>1. Lists(Map!Order(segments), Two)
    BY <1>4, OrderLists
  <2> QED
    BY <2>1 DEF Lists, SegmentNames, Range
<1>6. t.p_vaddr + t.length \in Nat /\ t.p_filesz \in Nat /\ t.length > 0 /\ b.length \in Nat
  BY <1>4 DEF IsText, IsBss, Program
<1>7. b.p_vaddr % PAGE_SIZE = 0 /\ b.p_vaddr \in Nat
  BY <1>4, <1>6, AlignIs DEF IsBss, BssAddr
<1>8. t.p_offset % PAGE_SIZE = t.p_vaddr % PAGE_SIZE /\ b.p_offset % PAGE_SIZE = b.p_vaddr % PAGE_SIZE
  BY <1>4, <1>7, SizesAssumption DEF IsPlaced, IsText
<1>9. t.p_filesz <= t.p_memsz /\ b.p_filesz <= b.p_memsz
  BY <1>4, <1>6 DEF IsPlaced, IsBss
<1>10. Region(t.p_offset, t.p_filesz, "segment", ".text") \in Range(out)
  <2>1. PICK x, y : x = TextRegion /\ y = TableRegion
    OBVIOUS
  <2>2. PICK w : HeadersIn(w) /\ out = Append(Append(w, x), y)
    BY <1>1, <2>1, FileIs
  <2>3. x \in RegionT /\ y \in RegionT /\ w \in Seq(RegionT) /\ Len(w) = 7
    BY <1>1, <2>1, <2>2, FileIs DEF HeadersIn, AreHeaders
  <2>4. Range(out) = {w[1], w[2], w[3], w[4], w[5], w[6], w[7], x, y}
    BY <2>2, <2>3, RangeIs
  <2>5. x \in Range(out)
    BY <2>4
  <2> QED
    BY <1>3, <1>4, <2>1, <2>5 DEF TextRegion
<1>11. ~(b.p_filesz > 0)
  BY <1>4 DEF IsBss
<1>12. \A name \in SegmentNames :
         LET s == SegmentOf(name)
         IN  /\ s.p_offset % PAGE_SIZE = s.p_vaddr % PAGE_SIZE
             /\ s.p_filesz <= s.p_memsz
             /\ s.p_filesz > 0 => Region(s.p_offset, s.p_filesz, "segment", name) \in Range(out)
  BY <1>3, <1>5, <1>8, <1>9, <1>10, <1>11 DEF Two
<1>13. align_to(t.p_vaddr + t.p_memsz, PAGE_SIZE) <= b.p_vaddr
  <2>1. align_to(t.p_vaddr + t.p_memsz, PAGE_SIZE) = b.p_vaddr
    BY <1>4 DEF IsPlaced, IsBss, BssAddr
  <2> QED
    BY <1>7, <2>1
<1>14. header.e_entry = t.p_vaddr /\ t.p_filesz > 0 /\ preload = b.p_vaddr /\ b.p_memsz = BssLength
  BY <1>4, <1>6 DEF IsText, IsBss, IsPlaced
<1> QED
  BY <1>3, <1>12, <1>13, <1>14, Zenon DEF Loadable

\* The kernel can map the file: the code and the tape are placed as their
\* program headers say.
THEOREM SpecLoadable == Spec => []Loadable
<1>1. WriterInv => Loadable
  BY InvLoadable
<1> QED
  BY <1>1, WriterInvariant, PTL
=============================================================================
