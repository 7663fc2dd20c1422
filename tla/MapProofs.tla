----------------------------- MODULE MapProofs -----------------------------
(***************************************************************************)
(* Proofs about the hash map, for all keys, hash functions and values: its *)
(* chains hold every key once and in its bucket, and lookups see what the  *)
(* calls have set and removed, through every resize.                       *)
(***************************************************************************)
EXTENDS MapClient, WellFoundedInduction, SequenceTheorems, FiniteSetTheorems, TLAPS

---------------------------------------------------------------------------
(* Numbers and sequences *)

LessThan == {pair \in Nat \X Nat : pair[1] < pair[2]}

(***************************************************************************)
(* Every set of natural numbers that is not empty has a least element.     *)
(* Applied to the set of counterexamples, this is induction.               *)
(***************************************************************************)
LEMMA LeastNat ==
  ASSUME NEW T, T \subseteq Nat, T # {}
  PROVE  \E x \in T : \A y \in T : x <= y
<1>1. IsWellFoundedOn(LessThan, Nat)
  BY NatLessThanWellFounded DEF OpToRel, LessThan
<1>2. PICK x \in T : \A y \in T : <<y, x>> \notin LessThan
  BY <1>1, WFMin, Zenon
<1>3. \A y \in T : ~(y < x)
  BY <1>2 DEF LessThan
<1> QED
  BY <1>3

\* A part of a sequence.
LEMMA Segment ==
  ASSUME NEW T, NEW s \in Seq(T), NEW a \in Nat, NEW b \in Nat, a <= b, b <= Len(s)
  PROVE  /\ SubSeq(s, a + 1, b) \in Seq(T)
         /\ Len(SubSeq(s, a + 1, b)) = b - a
         /\ \A i \in 1..(b - a) : SubSeq(s, a + 1, b)[i] = s[a + i]
<1>1. \A i \in (a + 1)..b : s[i] \in T
  OBVIOUS
<1>2. b - (a + 1) + 1 = b - a /\ \A i \in 1..(b - a) : (a + 1) + i - 1 = a + i
  OBVIOUS
<1> QED
  BY <1>1, <1>2, SubSeqProperties

\* The first elements of a sequence.
LEMMA Prefix ==
  ASSUME NEW T, NEW s \in Seq(T), NEW b \in Nat, b <= Len(s)
  PROVE  /\ SubSeq(s, 1, b) \in Seq(T)
         /\ Len(SubSeq(s, 1, b)) = b
         /\ \A i \in 1..b : SubSeq(s, 1, b)[i] = s[i]
BY Segment, 0 + 1 = 1, b - 0 = b, \A i \in 1..b : 0 + i = i

\* What FlattenSeq has put together after i sequences.
IsFlatten(f, n, seqs) ==
  f = [i \in 1..n |-> IF i = 1 THEN seqs[i] ELSE f[i - 1] \o seqs[i]]

LEMMA FlattenExists ==
  ASSUME NEW seqs, NEW n \in Nat
  PROVE  \E f : IsFlatten(f, n, seqs)
<1> DEFINE P(k) == \E f : IsFlatten(f, k, seqs)
           T == {k \in Nat : ~P(k)}
<1>1. P(0)
  <2> DEFINE f == [i \in 1..0 |-> {}]
  <2>1. f = [i \in 1..0 |-> IF i = 1 THEN seqs[i] ELSE f[i - 1] \o seqs[i]]
    OBVIOUS
  <2> QED
    BY <2>1 DEF IsFlatten
<1>2. ASSUME NEW k \in Nat, P(k) PROVE P(k + 1)
  <2>1. PICK g : IsFlatten(g, k, seqs)
    BY <1>2
  <2> DEFINE f == [i \in 1..(k + 1) |-> IF i = 1 THEN seqs[i] ELSE g[i - 1] \o seqs[i]]
  <2>2. \A i \in 1..k : f[i] = g[i]
    <3> TAKE i \in 1..k
    <3>1. i \in 1..(k + 1)
      OBVIOUS
    <3>2. g[i] = IF i = 1 THEN seqs[i] ELSE g[i - 1] \o seqs[i]
      BY <2>1 DEF IsFlatten
    <3> QED
      BY <3>1, <3>2
  <2>3. \A i \in 1..(k + 1) : i # 1 => i - 1 \in 1..k
    OBVIOUS
  <2>4. f = [i \in 1..(k + 1) |-> IF i = 1 THEN seqs[i] ELSE f[i - 1] \o seqs[i]]
    BY <2>2, <2>3
  <2> HIDE DEF f
  <2> QED
    BY <2>4 DEF IsFlatten
<1> HIDE DEF P
<1>3. T = {}
  <2> SUFFICES ASSUME T # {} PROVE FALSE
    OBVIOUS
  <2>1. PICK k \in T : \A y \in T : k <= y
    BY LeastNat
  <2>2. k \in Nat /\ ~P(k) /\ k # 0
    BY <1>1, <2>1
  <2>3. k - 1 \in Nat /\ (k - 1) + 1 = k /\ ~(k <= k - 1)
    BY <2>2
  <2>4. P(k - 1)
    BY <2>1, <2>3
  <2>5. P((k - 1) + 1)
    BY <1>2, <2>3, <2>4
  <2> QED
    BY <2>2, <2>3, <2>5
<1> QED
  BY <1>3 DEF P

---------------------------------------------------------------------------
(* Folds as iterations *)

\* Sets of numbers up to n that are not empty have a largest element.
LEMMA MaxIs ==
  ASSUME NEW n \in Nat, NEW d, d \subseteq 1..n, d # {}
  PROVE  Map!Max(d) \in d /\ \A y \in d : Map!Max(d) >= y
<1> DEFINE T == {u \in Nat : \A y \in d : u >= y}
<1>1. T # {} /\ T \subseteq Nat
  <2>1. n \in T
    OBVIOUS
  <2> QED
    BY <2>1
<1>2. PICK x \in T : \A y \in T : x <= y
  BY <1>1, LeastNat
<1>3. x \in d
  <2> SUFFICES ASSUME x \notin d PROVE FALSE
    OBVIOUS
  <2>1. PICK y \in d : TRUE
    OBVIOUS
  <2>2. x \in Nat /\ x >= y /\ y \in Nat /\ y > 0
    BY <1>2
  <2>3. x - 1 \in Nat
    BY <2>2
  <2>4. \A z \in d : x - 1 >= z
    <3> TAKE z \in d
    <3>1. x >= z /\ x # z /\ z \in Nat /\ x \in Nat
      BY <1>2
    <3> QED
      BY <3>1
  <2>5. x - 1 \in T
    BY <2>3, <2>4
  <2> QED
    BY <1>2, <2>2, <2>5
<1>4. \E y \in d : \A z \in d : y >= z
  BY <1>2, <1>3
<1> QED
  BY <1>4 DEF Map!Max

AddNode(buckets, node) == Map!map_addnode(buckets, node)

\* The table that the fold of map_resize is defined by: a result for every
\* set of places in nodes.
IsTable(f, D, base, nodes) ==
  f = [d \in SUBSET D |-> IF d = {} THEN base
                          ELSE AddNode(f[d \ {Map!Max(d)}], nodes[Map!Max(d)])]

LEMMA TableExists ==
  ASSUME NEW base, NEW nodes, NEW n \in Nat
  PROVE  \E f : IsTable(f, 1..n, base, nodes)
<1> DEFINE P(k) == \E f : IsTable(f, 1..k, base, nodes)
           T == {k \in Nat : ~P(k)}
<1>1. P(0)
  <2> DEFINE f == [d \in SUBSET (1..0) |-> base]
  <2>1. \A d \in SUBSET (1..0) : d = {}
    OBVIOUS
  <2>2. IsTable(f, 1..0, base, nodes)
    BY <2>1 DEF IsTable
  <2> QED
    BY <2>2
<1>2. ASSUME NEW k \in Nat, P(k) PROVE P(k + 1)
  <2>1. PICK g : IsTable(g, 1..k, base, nodes)
    BY <1>2
  <2> DEFINE f == [d \in SUBSET (1..(k + 1)) |->
                     IF d = {} THEN base ELSE AddNode(g[d \ {Map!Max(d)}], nodes[Map!Max(d)])]
  <2>2. \A d \in SUBSET (1..k) : f[d] = g[d]
    <3> TAKE d \in SUBSET (1..k)
    <3>1. d \in SUBSET (1..(k + 1))
      OBVIOUS
    <3>2. g[d] = IF d = {} THEN base ELSE AddNode(g[d \ {Map!Max(d)}], nodes[Map!Max(d)])
      BY <2>1 DEF IsTable
    <3> QED
      BY <3>1, <3>2
  <2>3. \A d \in SUBSET (1..(k + 1)) : d # {} => d \ {Map!Max(d)} \in SUBSET (1..k)
    <3> SUFFICES ASSUME NEW d \in SUBSET (1..(k + 1)), d # {}, NEW y \in d, y # Map!Max(d)
                 PROVE  y \in 1..k
      OBVIOUS
    <3>1. k + 1 \in Nat
      OBVIOUS
    <3>2. Map!Max(d) \in d /\ \A z \in d : Map!Max(d) >= z
      BY <3>1, MaxIs
    <3>3. Map!Max(d) \in 1..(k + 1) /\ y \in 1..(k + 1) /\ Map!Max(d) >= y
      BY <3>2
    <3> DEFINE x == Map!Max(d)
    <3>4. x \in 1..(k + 1) /\ y \in 1..(k + 1) /\ x >= y /\ y # x
      BY <3>3
    <3> HIDE DEF x
    <3> QED
      BY <3>4
  <2>4. \A d \in SUBSET (1..(k + 1)) : d # {} => f[d \ {Map!Max(d)}] = g[d \ {Map!Max(d)}]
    BY <2>2, <2>3
  <2>5. f = [d \in SUBSET (1..(k + 1)) |->
               IF d = {} THEN base ELSE AddNode(f[d \ {Map!Max(d)}], nodes[Map!Max(d)])]
    BY <2>4
  <2> HIDE DEF f
  <2> QED
    BY <2>5 DEF IsTable
<1> HIDE DEF P
<1>3. T = {}
  <2> SUFFICES ASSUME T # {} PROVE FALSE
    OBVIOUS
  <2>1. PICK k \in T : \A y \in T : k <= y
    BY LeastNat
  <2>2. k \in Nat /\ ~P(k) /\ k # 0
    BY <1>1, <2>1
  <2>3. k - 1 \in Nat /\ (k - 1) + 1 = k /\ ~(k <= k - 1)
    BY <2>2
  <2>4. P(k - 1)
    BY <2>1, <2>3
  <2>5. P((k - 1) + 1)
    BY <1>2, <2>3, <2>4
  <2> QED
    BY <2>2, <2>3, <2>5
<1> QED
  BY <1>3 DEF P

\* The fold of map_resize, node by node.
Folds(g, base, nodes, n) ==
  /\ g[0] = base
  /\ \A i \in 1..n : g[i] = AddNode(g[i - 1], nodes[i])
  /\ Map!FoldLeft(Map!map_addnode, base, nodes) = g[n]

LEMMA FoldIs ==
  ASSUME NEW base, NEW nodes, NEW n \in Nat, DOMAIN nodes = 1..n
  PROVE  \E g : Folds(g, base, nodes, n)
<1> DEFINE f == CHOOSE f : IsTable(f, 1..n, base, nodes)
           g == [i \in 0..n |-> f[1..i]]
<1>1. Map!FoldLeft(Map!map_addnode, base, nodes) = f[1..n]
  BY DEF Map!FoldLeft, Map!MapThenFoldSet, IsTable, AddNode
<1>2. IsTable(f, 1..n, base, nodes)
  BY TableExists
<1> HIDE DEF f
<1>3. \A d \in SUBSET (1..n) : f[d] = IF d = {} THEN base
                                      ELSE AddNode(f[d \ {Map!Max(d)}], nodes[Map!Max(d)])
  BY <1>2 DEF IsTable
<1>4. f[1..0] = base
  <2>1. 1..0 = {} /\ {} \in SUBSET (1..n)
    OBVIOUS
  <2> QED
    BY <1>3, <2>1
<1>5. ASSUME NEW i \in 1..n PROVE f[1..i] = AddNode(f[1..(i - 1)], nodes[i])
  <2>1. Map!Max(1..i) = i
    <3>1. 1..i \subseteq 1..n /\ 1..i # {}
      OBVIOUS
    <3>2. Map!Max(1..i) \in 1..i /\ \A y \in 1..i : Map!Max(1..i) >= y
      BY <3>1, MaxIs
    <3>3. i \in 1..i
      OBVIOUS
    <3> QED
      BY <3>2, <3>3
  <2>2. (1..i) \ {i} = 1..(i - 1) /\ 1..i \in SUBSET (1..n) /\ 1..i # {}
    OBVIOUS
  <2> QED
    BY <1>3, <2>1, <2>2
<1>6. g[0] = base /\ g[n] = f[1..n] /\ \A i \in 1..n : g[i] = AddNode(g[i - 1], nodes[i])
  <2>1. \A i \in 1..n : i \in 0..n /\ i - 1 \in 0..n
    OBVIOUS
  <2> QED
    BY <1>4, <1>5, <2>1
<1> QED
  BY <1>1, <1>6 DEF Folds

---------------------------------------------------------------------------
(* Flattened sequences *)

\* flat lists the elements of the first n sequences, each once and those of a
\* sequence in their order: element i is at place y[i] of sequence x[i].
Lists(flat, seqs, n, x, y) ==
  /\ x \in [1..Len(flat) -> 1..n]
  /\ y \in [1..Len(flat) -> Nat]
  /\ \A i \in 1..Len(flat) : y[i] \in 1..Len(seqs[x[i]]) /\ flat[i] = seqs[x[i]][y[i]]
  /\ \A i, k \in 1..Len(flat) : x[i] = x[k] /\ i < k => y[i] < y[k]
  /\ \A b \in 1..n : \A j \in 1..Len(seqs[b]) :
       \E i \in 1..Len(flat) : x[i] = b /\ y[i] = j

LEMMA ListsStep ==
  ASSUME NEW T, NEW n \in Nat, NEW seqs \in Seq(Seq(T)), n + 1 <= Len(seqs),
         NEW flat \in Seq(T), NEW x, NEW y, Lists(flat, seqs, n, x, y)
  PROVE  \E u, v : Lists(flat \o seqs[n + 1], seqs, n + 1, u, v)
<1> DEFINE s == seqs[n + 1]
           l == Len(flat)
           r == flat \o s
           u == [i \in 1..(l + Len(s)) |-> IF i <= l THEN x[i] ELSE n + 1]
           v == [i \in 1..(l + Len(s)) |-> IF i <= l THEN y[i] ELSE i - l]
<1>1. s \in Seq(T) /\ l \in Nat /\ Len(s) \in Nat
  BY n + 1 \in 1..Len(seqs)
<1>2. r \in Seq(T) /\ Len(r) = l + Len(s)
  BY <1>1
<1>3. \A i \in 1..(l + Len(s)) : r[i] = IF i <= l THEN flat[i] ELSE s[i - l]
  BY <1>1
<1>4. /\ x \in [1..l -> 1..n] /\ y \in [1..l -> Nat]
      /\ \A i \in 1..l : y[i] \in 1..Len(seqs[x[i]]) /\ flat[i] = seqs[x[i]][y[i]]
      /\ \A i, k \in 1..l : x[i] = x[k] /\ i < k => y[i] < y[k]
      /\ \A b \in 1..n : \A j \in 1..Len(seqs[b]) : \E i \in 1..l : x[i] = b /\ y[i] = j
  BY DEF Lists
<1> HIDE DEF r, l
<1>5. u \in [1..(l + Len(s)) -> 1..(n + 1)] /\ v \in [1..(l + Len(s)) -> Nat]
  <2> SUFFICES ASSUME NEW i \in 1..(l + Len(s))
               PROVE  u[i] \in 1..(n + 1) /\ v[i] \in Nat
    OBVIOUS
  <2>1. CASE i <= l
    <3>1. i \in 1..l
      BY <1>1, <2>1
    <3>2. x[i] \in 1..n /\ y[i] \in Nat
      BY <1>4, <3>1
    <3> QED
      BY <2>1, <3>2
  <2>2. CASE ~(i <= l)
    BY <1>1, <2>2
  <2> QED
    BY <2>1, <2>2
<1>6. ASSUME NEW i \in 1..(l + Len(s))
      PROVE  v[i] \in 1..Len(seqs[u[i]]) /\ r[i] = seqs[u[i]][v[i]]
  <2>1. CASE i <= l
    <3>1. i \in 1..l
      BY <1>1, <2>1
    <3>2. u[i] = x[i] /\ v[i] = y[i] /\ r[i] = flat[i]
      BY <1>3, <2>1
    <3> QED
      BY <1>4, <3>1, <3>2, Zenon
  <2>2. CASE ~(i <= l)
    <3>1. u[i] = n + 1 /\ v[i] = i - l /\ r[i] = s[i - l]
      BY <1>3, <2>2
    <3>2. i - l \in 1..Len(s)
      BY <1>1, <2>2
    <3> QED
      BY <3>1, <3>2
  <2> QED
    BY <2>1, <2>2
<1>7. ASSUME NEW i \in 1..(l + Len(s)), NEW k \in 1..(l + Len(s)), u[i] = u[k], i < k
      PROVE  v[i] < v[k]
  <2>1. CASE i <= l /\ k <= l
    <3>1. i \in 1..l /\ k \in 1..l
      BY <1>1, <2>1
    <3>2. u[i] = x[i] /\ v[i] = y[i] /\ u[k] = x[k] /\ v[k] = y[k]
      BY <2>1
    <3> HIDE DEF u, v
    <3> QED
      BY <1>4, <1>7, <3>1, <3>2
  <2>2. CASE ~(i <= l) /\ ~(k <= l)
    <3>1. v[i] = i - l /\ v[k] = k - l
      BY <2>2
    <3> HIDE DEF u, v
    <3>2. i - l < k - l
      BY <1>1, <1>7
    <3> QED
      BY <3>1, <3>2
  <2>3. ASSUME NEW a \in 1..(l + Len(s)), NEW c \in 1..(l + Len(s)), a <= l, ~(c <= l)
        PROVE  u[a] # u[c]
    <3>1. a \in 1..l
      BY <1>1, <2>3
    <3>2. x[a] \in 1..n /\ u[a] = x[a] /\ u[c] = n + 1
      BY <1>4, <2>3, <3>1
    <3> QED
      BY <3>2
  <2> QED
    BY <1>7, <2>1, <2>2, <2>3
<1>8. ASSUME NEW b \in 1..(n + 1), NEW j \in 1..Len(seqs[b])
      PROVE  \E i \in 1..(l + Len(s)) : u[i] = b /\ v[i] = j
  <2>1. CASE b = n + 1
    <3>1. j \in Nat /\ j >= 1 /\ j <= Len(s)
      BY <1>1, <2>1
    <3>2. /\ l + j \in 1..(l + Len(s)) /\ ~(l + j <= l) /\ (l + j) - l = j
      BY <1>1, <3>1
    <3>3. u[l + j] = n + 1 /\ v[l + j] = j
      BY <3>2
    <3> QED
      BY <2>1, <3>2, <3>3
  <2>2. CASE b # n + 1
    <3>1. b \in 1..n
      BY <2>2
    <3>2. PICK i \in 1..l : x[i] = b /\ y[i] = j
      BY <1>4, <3>1
    <3>3. i \in 1..(l + Len(s)) /\ i <= l
      BY <1>1
    <3>4. u[i] = x[i] /\ v[i] = y[i]
      BY <3>3
    <3> QED
      BY <3>2, <3>3, <3>4
  <2> QED
    BY <2>1, <2>2
<1> HIDE DEF u, v
<1>9. Lists(r, seqs, n + 1, u, v)
  BY <1>2, <1>5, <1>6, <1>7, <1>8 DEF Lists
<1> QED
  BY <1>9 DEF r

\* Each once.
LEMMA ListedOnce ==
  ASSUME NEW flat, NEW seqs, NEW n, NEW x, NEW y, Lists(flat, seqs, n, x, y),
         NEW i \in 1..Len(flat), NEW k \in 1..Len(flat), x[i] = x[k], y[i] = y[k]
  PROVE  i = k
<1>1. y[i] \in Nat /\ y[k] \in Nat
  BY DEF Lists
<1>2. i < k => y[i] < y[k]
  BY DEF Lists
<1>3. k < i => y[k] < y[i]
  BY DEF Lists
<1> QED
  BY <1>1, <1>2, <1>3

LEMMA FlattenLists ==
  ASSUME NEW T, NEW seqs \in Seq(Seq(T))
  PROVE  /\ Map!FlattenSeq(seqs) \in Seq(T)
         /\ \E x, y : Lists(Map!FlattenSeq(seqs), seqs, Len(seqs), x, y)
<1>0. Len(seqs) \in Nat
  OBVIOUS
<1>1. CASE Len(seqs) = 0
  <2>1. Map!FlattenSeq(seqs) = <<>> /\ seqs = <<>>
    BY <1>1 DEF Map!FlattenSeq
  <2> DEFINE e == [i \in 1..0 |-> 0]
  <2>2. e \in [1..0 -> 1..0] /\ e \in [1..0 -> Nat]
    OBVIOUS
  <2> HIDE DEF e
  <2>3. Lists(<<>>, <<>>, 0, e, e)
    BY <2>2 DEF Lists
  <2> QED
    BY <1>1, <2>1, <2>3
<1>2. CASE Len(seqs) # 0
  <2> DEFINE n == Len(seqs)
             f == CHOOSE f : IsFlatten(f, n, seqs)
  <2>1. Map!FlattenSeq(seqs) = f[n]
    BY <1>2 DEF Map!FlattenSeq, IsFlatten
  <2>2. IsFlatten(f, n, seqs)
    BY <1>0, FlattenExists
  <2> HIDE DEF f
  <2>3. \A i \in 1..n : f[i] = IF i = 1 THEN seqs[i] ELSE f[i - 1] \o seqs[i]
    BY <2>2 DEF IsFlatten
  <2> DEFINE Q(i) == f[i] \in Seq(T) /\ \E x, y : Lists(f[i], seqs, i, x, y)
             U == {i \in 1..n : ~Q(i)}
  <2>4. Q(1)
    <3>1. 1 \in 1..n /\ 0 \in Nat /\ 0 + 1 <= Len(seqs) /\ 0 + 1 = 1
      BY <1>0, <1>2
    <3>2. f[1] = seqs[1] /\ seqs[1] \in Seq(T)
      BY <2>3, <3>1
    <3> DEFINE e == [i \in 1..0 |-> 0]
    <3>3. e \in [1..0 -> 1..0] /\ e \in [1..0 -> Nat]
      OBVIOUS
    <3> HIDE DEF e
    <3>4. Lists(<<>>, seqs, 0, e, e) /\ <<>> \in Seq(T)
      BY <3>3 DEF Lists
    <3>5. \E x, y : Lists(<<>> \o seqs[0 + 1], seqs, 0 + 1, x, y)
      BY <3>1, <3>4, ListsStep
    <3>6. <<>> \o seqs[0 + 1] = f[1]
      BY <3>2, \A s \in Seq(T) : <<>> \o s = s
    <3> QED
      BY <3>1, <3>2, <3>5, <3>6
  <2>5. ASSUME NEW i \in 1..n, i # 1, Q(i - 1) PROVE Q(i)
    <3>1. i - 1 \in Nat /\ (i - 1) + 1 = i /\ (i - 1) + 1 <= Len(seqs) /\ seqs[i] \in Seq(T)
      BY <1>0
    <3>2. f[i] = f[i - 1] \o seqs[i]
      BY <2>3, <2>5
    <3>3. f[i - 1] \in Seq(T)
      BY <2>5
    <3>4. f[i] \in Seq(T)
      BY <3>1, <3>2, <3>3
    <3>5. PICK x, y : Lists(f[i - 1], seqs, i - 1, x, y)
      BY <2>5
    <3>6. \E u, v : Lists(f[i - 1] \o seqs[(i - 1) + 1], seqs, (i - 1) + 1, u, v)
      BY <3>1, <3>3, <3>5, ListsStep
    <3> QED
      BY <3>1, <3>2, <3>4, <3>6
  <2> HIDE DEF Q
  <2>6. U = {}
    <3> SUFFICES ASSUME U # {} PROVE FALSE
      OBVIOUS
    <3>0. U \subseteq Nat
      OBVIOUS
    <3>1. PICK k \in U : \A z \in U : k <= z
      BY <3>0, LeastNat
    <3>2. k \in 1..n /\ ~Q(k) /\ k # 1
      BY <2>4, <3>1
    <3>3. k - 1 \in 1..n /\ ~(k <= k - 1)
      BY <1>0, <3>2
    <3>4. Q(k - 1)
      BY <3>1, <3>3
    <3> QED
      BY <2>5, <3>2, <3>4
  <2>7. n \in 1..n
    BY <1>0, <1>2
  <2>8. Q(n)
    BY <2>6, <2>7
  <2> QED
    BY <2>1, <2>8 DEF Q
<1> QED
  BY <1>1, <1>2

---------------------------------------------------------------------------
(* Sound chains *)

NodeT == [key : Keys, value : Values]

\* The bucket of a key among n.
Idx(h, k, n) == (h[k] % n) + 1

\* Every node is in the bucket of its key, and no key has two.
Sound(h, B) ==
  /\ B \in Seq(Seq(NodeT))
  /\ \A b \in 1..Len(B) : \A j \in 1..Len(B[b]) : Idx(h, B[b][j].key, Len(B)) = b
  /\ \A b \in 1..Len(B) : \A j, k \in 1..Len(B[b]) : B[b][j].key = B[b][k].key => j = k

Nodes(B) == {x \in NodeT : \E b \in 1..Len(B) : \E j \in 1..Len(B[b]) : B[b][j] = x}

KeysOf(B) == {k \in Keys : \E x \in Nodes(B) : x.key = k}

LEMMA IdxIn ==
  ASSUME NEW h \in [Keys -> Nat], NEW k \in Keys, NEW n \in Nat \ {0}
  PROVE  Idx(h, k, n) \in 1..n
<1> DEFINE a == h[k]
<1>1. a \in Nat
  OBVIOUS
<1> HIDE DEF a
<1>2. a % n \in 0..(n - 1)
  BY <1>1
<1>3. (a % n) + 1 \in 1..n
  BY <1>2
<1> QED
  BY <1>3 DEF Idx, a

\* A node is in the chain that its key has among n.
InChain(h, B, n, x) ==
  /\ x \in NodeT /\ Idx(h, x.key, n) \in 1..n
  /\ \E j \in 1..Len(B[Idx(h, x.key, n)]) : B[Idx(h, x.key, n)][j] = x

LEMMA NodeAt ==
  ASSUME NEW h, NEW B, Sound(h, B), NEW x \in Nodes(B)
  PROVE  InChain(h, B, Len(B), x)
<1>1. PICK b \in 1..Len(B) : \E j \in 1..Len(B[b]) : B[b][j] = x
  BY DEF Nodes
<1>2. PICK j \in 1..Len(B[b]) : B[b][j] = x
  BY <1>1
<1>3. Idx(h, x.key, Len(B)) = b
  BY <1>2 DEF Sound
<1>4. x \in NodeT
  BY DEF Nodes
<1> QED
  BY <1>2, <1>3, <1>4 DEF InChain

\* The nodes of one chain.
LEMMA ChainNodes ==
  ASSUME NEW h, NEW B, Sound(h, B), NEW b \in 1..Len(B), NEW x \in NodeT,
         Idx(h, x.key, Len(B)) = b
  PROVE  x \in Nodes(B) <=> \E j \in 1..Len(B[b]) : B[b][j] = x
<1>1. ASSUME x \in Nodes(B) PROVE \E j \in 1..Len(B[b]) : B[b][j] = x
  <2>1. InChain(h, B, Len(B), x)
    BY <1>1, NodeAt
  <2> QED
    BY <2>1 DEF InChain
<1>2. ASSUME NEW j \in 1..Len(B[b]), B[b][j] = x PROVE x \in Nodes(B)
  BY <1>2 DEF Nodes
<1> QED
  BY <1>1, <1>2

\* No two nodes have the same key.
LEMMA SameNode ==
  ASSUME NEW h, NEW B, Sound(h, B), NEW x \in Nodes(B), NEW y \in Nodes(B), x.key = y.key
  PROVE  x = y
<1> DEFINE b == Idx(h, x.key, Len(B))
<1>0. b = Idx(h, y.key, Len(B)) /\ b \in 1..Len(B)
  BY NodeAt DEF InChain
<1>1. PICK j \in 1..Len(B[b]) : B[b][j] = x
  BY NodeAt DEF InChain
<1>2. PICK k \in 1..Len(B[b]) : B[b][k] = y
  BY <1>0, NodeAt DEF InChain
<1>3. j = k
  BY <1>0, <1>1, <1>2 DEF Sound
<1> QED
  BY <1>1, <1>2, <1>3

\* c is a chain that bucket b among n may have.
Chain(h, n, b, c) ==
  /\ c \in Seq(NodeT)
  /\ \A j \in 1..Len(c) : Idx(h, c[j].key, n) = b
  /\ \A j, k \in 1..Len(c) : c[j].key = c[k].key => j = k

\* In R the bucket b has chain c, and the other ones have those of B.
Swapped(B, b, c, R) ==
  /\ R \in Seq(Seq(NodeT)) /\ Len(R) = Len(B) /\ R[b] = c
  /\ \A a \in 1..Len(B) : a # b => R[a] = B[a]

\* The nodes then.
SwappedNodes(h, B, b, c, R) ==
  \A x \in NodeT : x \in Nodes(R) <=> IF Idx(h, x.key, Len(B)) = b
                                       THEN \E j \in 1..Len(c) : c[j] = x
                                       ELSE x \in Nodes(B)

LEMMA SwappedIs ==
  ASSUME NEW B \in Seq(Seq(NodeT)), NEW b \in 1..Len(B), NEW c \in Seq(NodeT)
  PROVE  Swapped(B, b, c, [B EXCEPT ![b] = c])
BY DEF Swapped

LEMMA ChainChanged ==
  ASSUME NEW h, NEW B, Sound(h, B), NEW b \in 1..Len(B), NEW c, Chain(h, Len(B), b, c),
         NEW R, Swapped(B, b, c, R)
  PROVE  Sound(h, R) /\ SwappedNodes(h, B, b, c, R)
<1>1. R \in Seq(Seq(NodeT)) /\ Len(R) = Len(B) /\ R[b] = c
  BY DEF Swapped
<1>2. \A a \in 1..Len(B) : a # b => R[a] = B[a]
  BY DEF Swapped
<1>3. Sound(h, R)
  <2>1. \A a \in 1..Len(R) : \A j \in 1..Len(R[a]) : Idx(h, R[a][j].key, Len(R)) = a
    BY <1>1, <1>2 DEF Sound, Chain
  <2>2. \A a \in 1..Len(R) : \A j, k \in 1..Len(R[a]) : R[a][j].key = R[a][k].key => j = k
    BY <1>1, <1>2 DEF Sound, Chain
  <2> QED
    BY <1>1, <2>1, <2>2 DEF Sound
<1>4. ASSUME NEW x \in NodeT
      PROVE  x \in Nodes(R) <=> IF Idx(h, x.key, Len(B)) = b
                                  THEN \E j \in 1..Len(c) : c[j] = x
                                  ELSE x \in Nodes(B)
  <2>1. ASSUME Idx(h, x.key, Len(B)) = b PROVE x \in Nodes(R) => \E j \in 1..Len(c) : c[j] = x
    <3> HAVE x \in Nodes(R)
    <3>1. InChain(h, R, Len(B), x)
      BY <1>1, <1>3, NodeAt
    <3> QED
      BY <1>1, <2>1, <3>1 DEF InChain
  <2>2. ASSUME Idx(h, x.key, Len(B)) = b PROVE (\E j \in 1..Len(c) : c[j] = x) => x \in Nodes(R)
    BY <1>1 DEF Nodes
  <2>3. ASSUME Idx(h, x.key, Len(B)) # b PROVE x \in Nodes(R) => x \in Nodes(B)
    <3> HAVE x \in Nodes(R)
    <3> DEFINE a == Idx(h, x.key, Len(B))
    <3>0. InChain(h, R, Len(B), x)
      BY <1>1, <1>3, NodeAt
    <3>1. a \in 1..Len(B) /\ \E j \in 1..Len(R[a]) : R[a][j] = x
      BY <3>0 DEF InChain
    <3> HIDE DEF a
    <3>2. R[a] = B[a]
      BY <1>2, <2>3, <3>1 DEF a
    <3> QED
      BY <3>1, <3>2 DEF Nodes
  <2>4. ASSUME Idx(h, x.key, Len(B)) # b PROVE x \in Nodes(B) => x \in Nodes(R)
    <3> HAVE x \in Nodes(B)
    <3> DEFINE a == Idx(h, x.key, Len(B))
    <3>0. InChain(h, B, Len(B), x)
      BY NodeAt
    <3>1. a \in 1..Len(B) /\ \E j \in 1..Len(B[a]) : B[a][j] = x
      BY <3>0 DEF InChain
    <3> HIDE DEF a
    <3>2. R[a] = B[a]
      BY <1>2, <2>4, <3>1 DEF a
    <3> QED
      BY <1>1, <3>1, <3>2 DEF Nodes
  <2> QED
    BY <2>1, <2>2, <2>3, <2>4
<1> QED
  BY <1>3, <1>4 DEF SwappedNodes

\* map_addnode with a key that is not there.
LEMMA AddNodeIs ==
  ASSUME hash \in [Keys -> Nat], NEW B, Sound(hash, B), B # <<>>,
         NEW node \in NodeT, node.key \notin KeysOf(B)
  PROVE  /\ Sound(hash, AddNode(B, node)) /\ Len(AddNode(B, node)) = Len(B)
         /\ Nodes(AddNode(B, node)) = Nodes(B) \cup {node}
<1> DEFINE b == Idx(hash, node.key, Len(B))
           s == B[b]
           c == <<node>> \o s
           R == [B EXCEPT ![b] = c]
<1>0. B \in Seq(Seq(NodeT)) /\ Len(B) \in Nat \ {0} /\ node.key \in Keys
  BY DEF Sound, NodeT
<1>1. b \in 1..Len(B)
  BY <1>0, IdxIn
<1>2. AddNode(B, node) = R
  BY DEF AddNode, Map!map_addnode, Map!map_bucketidx, Idx
<1>3. s \in Seq(NodeT) /\ Len(s) \in Nat
  BY <1>0, <1>1
<1>4. \A j \in 1..Len(s) : Idx(hash, s[j].key, Len(B)) = b /\ s[j].key # node.key
  <2> TAKE j \in 1..Len(s)
  <2>1. s[j] \in NodeT
    BY <1>3
  <2>2. s[j] \in Nodes(B)
    BY <1>1, <2>1 DEF Nodes
  <2>3. s[j].key \in Keys
    BY <2>1 DEF NodeT
  <2> QED
    BY <1>1, <2>2, <2>3 DEF Sound, KeysOf
<1>5. \A j, k \in 1..Len(s) : s[j].key = s[k].key => j = k
  BY <1>1 DEF Sound
<1> HIDE DEF s
<1>6. c \in Seq(NodeT) /\ Len(c) = Len(s) + 1 /\ c[1] = node
  BY <1>3
<1>7. \A j \in 1..Len(c) : j # 1 => j - 1 \in 1..Len(s) /\ c[j] = s[j - 1]
  BY <1>3
<1> HIDE DEF c, b
<1>8. \A j \in 1..Len(c) : Idx(hash, c[j].key, Len(B)) = b
  BY <1>4, <1>6, <1>7 DEF b
<1>9. \A j, k \in 1..Len(c) : c[j].key = c[k].key => j = k
  <2> SUFFICES ASSUME NEW j \in 1..Len(c), NEW k \in 1..Len(c), c[j].key = c[k].key PROVE j = k
    OBVIOUS
  <2>1. CASE j = 1 \/ k = 1
    BY <1>4, <1>6, <1>7, <2>1
  <2>2. CASE j # 1 /\ k # 1
    <3>1. j - 1 \in 1..Len(s) /\ k - 1 \in 1..Len(s) /\ s[j - 1].key = s[k - 1].key
      BY <1>7, <2>2
    <3>2. j - 1 = k - 1
      BY <1>5, <3>1
    <3> QED
      BY <1>3, <1>6, <3>2
  <2> QED
    BY <2>1, <2>2
<1>10. Sound(hash, R) /\ Len(R) = Len(B) /\ SwappedNodes(hash, B, b, c, R)
  <2>1. Swapped(B, b, c, R) /\ Len(R) = Len(B)
    BY <1>0, <1>1, <1>6 DEF Swapped
  <2>2. Chain(hash, Len(B), b, c)
    BY <1>6, <1>8, <1>9 DEF Chain
  <2> HIDE DEF R
  <2>3. Sound(hash, R) /\ SwappedNodes(hash, B, b, c, R)
    BY <1>1, <2>1, <2>2, ChainChanged
  <2> QED
    BY <2>1, <2>3
<1> HIDE DEF R
<1>11. ASSUME NEW x \in NodeT PROVE x \in Nodes(R) <=> x \in Nodes(B) \/ x = node
  <2>1. CASE Idx(hash, x.key, Len(B)) # b
    <3>1. x # node
      BY <2>1 DEF b
    <3> QED
      BY <1>10, <2>1, <3>1 DEF SwappedNodes
  <2>2. CASE Idx(hash, x.key, Len(B)) = b
    <3>1. x \in Nodes(R) <=> \E j \in 1..Len(c) : c[j] = x
      BY <1>10, <2>2 DEF SwappedNodes
    <3>2. x \in Nodes(B) <=> \E j \in 1..Len(s) : s[j] = x
      BY <1>1, <2>2, ChainNodes DEF s
    <3>3. ASSUME NEW j \in 1..Len(s), s[j] = x PROVE \E k \in 1..Len(c) : c[k] = x
      <4>1. j + 1 \in 1..Len(c) /\ (j + 1) - 1 = j /\ j + 1 # 1
        BY <1>3, <1>6
      <4>2. c[j + 1] = s[j]
        BY <1>7, <4>1
      <4> QED
        BY <3>3, <4>1, <4>2
    <3>4. 1 \in 1..Len(c)
      BY <1>3, <1>6
    <3> QED
      BY <1>6, <1>7, <3>1, <3>2, <3>3, <3>4
  <2> QED
    BY <2>1, <2>2
<1>12. Nodes(R) = Nodes(B) \cup {node}
  BY <1>11 DEF Nodes
<1> QED
  BY <1>2, <1>10, <1>12

\* In chain c the node of key a is before that of key k.
Before(c, a, k) == \E i, j \in 1..Len(c) : i < j /\ c[i].key = a /\ c[j].key = k

After(B, a, k) == \E b \in 1..Len(B) : Before(B[b], a, k)

\* The order in R is that of B, at least behind the keys of B, or without a key.
SameOrder(R, B) == \A a, k : After(R, a, k) <=> After(B, a, k)

SameOrderIn(R, B) == \A a \in KeysOf(B) : \A k : After(R, a, k) <=> After(B, a, k)

OrderWithout(R, B, key) ==
  \A a, k : After(R, a, k) <=> a # key /\ k # key /\ After(B, a, k)

\* Keys in the order of a chain are different ones of the same bucket.
LEMMA AfterIn ==
  ASSUME NEW h, NEW B, Sound(h, B), NEW a, NEW k, After(B, a, k)
  PROVE  /\ a \in KeysOf(B) /\ k \in KeysOf(B) /\ a # k
         /\ Idx(h, a, Len(B)) = Idx(h, k, Len(B))
<1>1. PICK b \in 1..Len(B) : Before(B[b], a, k)
  BY DEF After
<1> DEFINE c == B[b]
<1>2. /\ c \in Seq(NodeT) /\ \A i \in 1..Len(c) : Idx(h, c[i].key, Len(B)) = b
      /\ \A i, j \in 1..Len(c) : c[i].key = c[j].key => i = j
  <2>1. c \in Seq(NodeT)
    BY DEF Sound
  <2>2. \A i \in 1..Len(c) : Idx(h, c[i].key, Len(B)) = b
    BY DEF Sound
  <2>3. \A i, j \in 1..Len(c) : c[i].key = c[j].key => i = j
    BY DEF Sound
  <2> QED
    BY <2>1, <2>2, <2>3
<1>3. \A i \in 1..Len(c) : c[i].key \in KeysOf(B)
  <2> TAKE i \in 1..Len(c)
  <2>1. c[i] \in NodeT
    BY <1>2
  <2>2. c[i] \in Nodes(B) /\ c[i].key \in Keys
    BY <2>1 DEF Nodes, NodeT
  <2> QED
    BY <2>2 DEF KeysOf
<1>4. PICK i, j \in 1..Len(c) : i < j /\ c[i].key = a /\ c[j].key = k
  BY <1>1 DEF Before
<1>5. i # j
  BY <1>4
<1> HIDE DEF c
<1> QED
  BY <1>2, <1>3, <1>4, <1>5

LEMMA AfterTrans ==
  ASSUME NEW h, NEW B, Sound(h, B), NEW a, NEW k, NEW l, After(B, a, k), After(B, k, l)
  PROVE  After(B, a, l)
<1>1. PICK b \in 1..Len(B) : Before(B[b], a, k)
  BY DEF After
<1>2. PICK d \in 1..Len(B) : Before(B[d], k, l)
  BY DEF After
<1>3. PICK i, j \in 1..Len(B[b]) : i < j /\ B[b][i].key = a /\ B[b][j].key = k
  BY <1>1 DEF Before
<1>4. PICK p, q \in 1..Len(B[d]) : p < q /\ B[d][p].key = k /\ B[d][q].key = l
  BY <1>2 DEF Before
<1>5. b = d
  <2>1. Idx(h, B[b][j].key, Len(B)) = b /\ Idx(h, B[d][p].key, Len(B)) = d
    BY DEF Sound
  <2> QED
    BY <1>3, <1>4, <2>1
<1>6. j = p
  BY <1>3, <1>4, <1>5 DEF Sound
<1>7. i \in 1..Len(B[b]) /\ q \in 1..Len(B[b]) /\ i < q
  BY <1>3, <1>4, <1>5, <1>6
<1> QED
  BY <1>3, <1>4, <1>5, <1>7 DEF After, Before

LEMMA SwappedOrder ==
  ASSUME NEW B, NEW b \in 1..Len(B), NEW c, NEW R, Swapped(B, b, c, R), NEW a, NEW k
  PROVE  After(R, a, k) <=>
           Before(c, a, k) \/ \E d \in 1..Len(B) : d # b /\ Before(B[d], a, k)
BY DEF Swapped, After

\* The new node is before those of its bucket.
LEMMA AddNodeOrder ==
  ASSUME hash \in [Keys -> Nat], NEW B, Sound(hash, B), B # <<>>,
         NEW node \in NodeT, node.key \notin KeysOf(B), NEW a, NEW k
  PROVE  After(AddNode(B, node), a, k) <=>
           \/ After(B, a, k)
           \/ /\ a = node.key /\ k \in KeysOf(B)
              /\ Idx(hash, a, Len(B)) = Idx(hash, k, Len(B))
<1> DEFINE b == Idx(hash, node.key, Len(B))
           s == B[b]
           c == <<node>> \o s
           R == [B EXCEPT ![b] = c]
<1>0. B \in Seq(Seq(NodeT)) /\ Len(B) \in Nat \ {0} /\ node.key \in Keys
  BY DEF Sound, NodeT
<1>1. b \in 1..Len(B)
  BY <1>0, IdxIn
<1>2. AddNode(B, node) = R
  BY DEF AddNode, Map!map_addnode, Map!map_bucketidx, Idx
<1>3. s \in Seq(NodeT) /\ Len(s) \in Nat
  BY <1>0, <1>1
<1>4. s = B[b]
  OBVIOUS
<1> HIDE DEF s
<1>5. c \in Seq(NodeT) /\ Len(c) = Len(s) + 1 /\ c[1] = node
  BY <1>3
<1>6. \A j \in 1..Len(c) : j # 1 => j - 1 \in 1..Len(s) /\ c[j] = s[j - 1]
  BY <1>3
<1> HIDE DEF c, b
<1>7. Swapped(B, b, c, R)
  BY <1>0, <1>1, <1>5, SwappedIs
<1>8. After(R, a, k) <=> Before(c, a, k) \/ \E d \in 1..Len(B) : d # b /\ Before(B[d], a, k)
  BY <1>1, <1>7, SwappedOrder
<1>9. After(B, a, k) <=> Before(s, a, k) \/ \E d \in 1..Len(B) : d # b /\ Before(B[d], a, k)
  BY <1>1, <1>4 DEF After
<1>10. (\E j \in 1..Len(s) : s[j].key = k) <=> k \in KeysOf(B) /\ Idx(hash, k, Len(B)) = b
  <2>1. ASSUME NEW j \in 1..Len(s), s[j].key = k PROVE k \in KeysOf(B) /\ Idx(hash, k, Len(B)) = b
    <3>1. s[j] \in NodeT
      BY <1>3
    <3>2. s[j] \in Nodes(B) /\ k \in Keys
      BY <1>1, <1>4, <2>1, <3>1 DEF Nodes, NodeT
    <3> QED
      BY <1>1, <1>4, <2>1, <3>2 DEF KeysOf, Sound
  <2>2. ASSUME k \in KeysOf(B), Idx(hash, k, Len(B)) = b PROVE \E j \in 1..Len(s) : s[j].key = k
    <3>1. PICK x \in Nodes(B) : x.key = k
      BY <2>2 DEF KeysOf
    <3>2. x \in NodeT
      BY DEF Nodes
    <3> QED
      BY <1>1, <1>4, <2>2, <3>1, <3>2, ChainNodes
  <2> QED
    BY <2>1, <2>2
<1>11. Before(c, a, k) <=> Before(s, a, k) \/ (a = node.key /\ \E j \in 1..Len(s) : s[j].key = k)
  <2>0. \A j \in 1..Len(s) : j + 1 \in 1..Len(c) /\ c[j + 1] = s[j] /\ 1 < j + 1
    <3> TAKE j \in 1..Len(s)
    <3>1. j + 1 \in 1..Len(c) /\ j + 1 # 1 /\ (j + 1) - 1 = j /\ 1 < j + 1
      BY <1>3, <1>5
    <3> QED
      BY <1>6, <3>1
  <2>1. ASSUME Before(c, a, k)
        PROVE  Before(s, a, k) \/ (a = node.key /\ \E j \in 1..Len(s) : s[j].key = k)
    <3>1. PICK i, j \in 1..Len(c) : i < j /\ c[i].key = a /\ c[j].key = k
      BY <2>1 DEF Before
    <3>2. j # 1 /\ j - 1 \in 1..Len(s) /\ c[j] = s[j - 1]
      BY <1>6, <3>1
    <3>3. CASE i = 1
      BY <1>5, <3>1, <3>2, <3>3
    <3>4. CASE i # 1
      <4>1. i - 1 \in 1..Len(s) /\ c[i] = s[i - 1] /\ i - 1 < j - 1
        BY <1>6, <3>1, <3>4
      <4> QED
        BY <3>1, <3>2, <4>1 DEF Before
    <3> QED
      BY <3>3, <3>4
  <2>2. ASSUME Before(s, a, k) PROVE Before(c, a, k)
    <3>1. PICK i, j \in 1..Len(s) : i < j /\ s[i].key = a /\ s[j].key = k
      BY <2>2 DEF Before
    <3>2. /\ i + 1 \in 1..Len(c) /\ j + 1 \in 1..Len(c) /\ i + 1 < j + 1
          /\ c[i + 1] = s[i] /\ c[j + 1] = s[j]
      BY <1>3, <2>0, <3>1
    <3> QED
      BY <3>1, <3>2 DEF Before
  <2>3. ASSUME a = node.key, NEW j \in 1..Len(s), s[j].key = k PROVE Before(c, a, k)
    <3>1. j + 1 \in 1..Len(c) /\ c[j + 1] = s[j] /\ 1 < j + 1 /\ 1 \in 1..Len(c)
      BY <1>3, <1>5, <2>0
    <3> QED
      BY <1>5, <2>3, <3>1 DEF Before
  <2> QED
    BY <2>1, <2>2, <2>3
<1>12. a = node.key => Idx(hash, a, Len(B)) = b
  BY DEF b
<1> HIDE DEF R
<1> QED
  BY <1>2, <1>8, <1>9, <1>10, <1>11, <1>12

\* Among the first l nodes of s, that of key a comes after that of key k in
\* the same of n buckets.
Stacked(s, l, n, a, k) ==
  /\ Idx(hash, a, n) = Idx(hash, k, n)
  /\ \E i, j \in 1..l : i < j /\ s[i].key = k /\ s[j].key = a

\* A map with the nodes of s, which have different keys, in n buckets: each
\* goes before those of its bucket.
LEMMA FoldNodes ==
  ASSUME hash \in [Keys -> Nat], NEW n \in Nat, NEW s \in Seq(NodeT),
         n = 0 => s = <<>>,
         \A i, k \in 1..Len(s) : s[i].key = s[k].key => i = k,
         NEW R, R = Map!FoldLeft(Map!map_addnode, [i \in 1..n |-> <<>>], s)
  PROVE  /\ Sound(hash, R) /\ Len(R) = n
         /\ \A x \in NodeT : x \in Nodes(R) <=> \E i \in 1..Len(s) : s[i] = x
         /\ \A a, k : After(R, a, k) <=> Stacked(s, Len(s), n, a, k)
<1> DEFINE base == [i \in 1..n |-> <<>>]
           l == Len(s)
<1>0. l \in Nat /\ DOMAIN s = 1..l /\ \A i \in 1..l : s[i] \in NodeT /\ s[i].key \in Keys
  <2>1. l \in Nat /\ DOMAIN s = 1..l /\ \A i \in 1..l : s[i] \in NodeT
    OBVIOUS
  <2>2. \A x \in NodeT : x.key \in Keys
    BY DEF NodeT
  <2> QED
    BY <2>1, <2>2
<1>1. base \in Seq(Seq(NodeT)) /\ Len(base) = n /\ \A b \in 1..n : base[b] = <<>>
  <2>1. \A i \in 1..n : <<>> \in Seq(NodeT)
    OBVIOUS
  <2> QED
    BY <2>1
<1> HIDE DEF base
<1>2. PICK g : Folds(g, base, s, l)
  <2>1. l \in Nat /\ DOMAIN s = 1..l
    BY <1>0
  <2> HIDE DEF l
  <2> QED
    BY <2>1, FoldIs
<1>3. /\ g[0] = base
      /\ \A i \in 1..l : g[i] = AddNode(g[i - 1], s[i])
      /\ Map!FoldLeft(Map!map_addnode, base, s) = g[l]
  BY <1>2 DEF Folds
<1>4. R = g[l]
  BY <1>3 DEF base
<1> DEFINE P(i) == /\ Sound(hash, g[i]) /\ Len(g[i]) = n
                   /\ \A x \in NodeT : x \in Nodes(g[i]) <=> \E k \in 1..i : s[k] = x
                   /\ \A a, k : After(g[i], a, k) <=> Stacked(s, i, n, a, k)
           T == {i \in 0..l : ~P(i)}
<1>5. P(0)
  <2>1. Sound(hash, base)
    BY <1>1 DEF Sound
  <2>2. Nodes(base) = {}
    BY <1>1 DEF Nodes
  <2>3. \A a, k : ~After(base, a, k) /\ ~Stacked(s, 0, n, a, k)
    BY <1>1 DEF After, Before, Stacked
  <2> QED
    BY <1>1, <1>3, <2>1, <2>2, <2>3
<1>6. ASSUME NEW i \in 1..l, P(i - 1) PROVE P(i)
  <2> DEFINE B == g[i - 1]
             node == s[i]
  <2>0. i - 1 \in Nat /\ i \in 1..i /\ i \notin 1..(i - 1) /\ 1..(i - 1) \subseteq 1..l
    BY <1>0
  <2>1. /\ Sound(hash, B) /\ Len(B) = n
        /\ \A x \in NodeT : x \in Nodes(B) <=> \E k \in 1..(i - 1) : s[k] = x
        /\ \A a, k : After(B, a, k) <=> Stacked(s, i - 1, n, a, k)
    BY <1>6
  <2>2. g[i] = AddNode(B, node) /\ node \in NodeT /\ node.key \in Keys
    BY <1>0, <1>3
  <2>3. B # <<>>
    <3>1. Len(<<>>) = 0
      OBVIOUS
    <3>2. n # 0
      BY <1>0
    <3> HIDE DEF B
    <3> QED
      BY <2>1, <3>1, <3>2
  <2>4. node.key \notin KeysOf(B)
    <3> SUFFICES ASSUME NEW x \in Nodes(B), x.key = node.key PROVE FALSE
      BY DEF KeysOf
    <3>1. x \in NodeT
      BY DEF Nodes
    <3>2. PICK k \in 1..(i - 1) : s[k] = x
      BY <2>1, <3>1
    <3>3. k \in 1..l /\ k # i
      BY <2>0
    <3> QED
      BY <3>2, <3>3
  <2> HIDE DEF B, node
  <2>5. /\ Sound(hash, AddNode(B, node)) /\ Len(AddNode(B, node)) = Len(B)
        /\ Nodes(AddNode(B, node)) = Nodes(B) \cup {node}
    BY <2>1, <2>2, <2>3, <2>4, AddNodeIs
  <2>6. ASSUME NEW x \in NodeT PROVE x \in Nodes(g[i]) <=> \E k \in 1..i : s[k] = x
    <3>1. x \in Nodes(g[i]) <=> x = node \/ \E k \in 1..(i - 1) : s[k] = x
      BY <2>1, <2>2, <2>5
    <3>2. \A k \in 1..i : k = i \/ k \in 1..(i - 1)
      BY <2>0
    <3>3. \A k \in 1..(i - 1) : k \in 1..i
      BY <2>0
    <3> QED
      BY <2>0, <3>1, <3>2, <3>3 DEF node
  <2>7. \A k : k \in KeysOf(B) <=> \E p \in 1..(i - 1) : s[p].key = k
    <3>1. \A p \in 1..(i - 1) : s[p] \in NodeT /\ s[p].key \in Keys
      BY <1>0, <2>0
    <3>2. ASSUME NEW k \in KeysOf(B) PROVE \E p \in 1..(i - 1) : s[p].key = k
      <4>1. PICK x \in Nodes(B) : x.key = k
        BY DEF KeysOf
      <4>2. x \in NodeT
        BY DEF Nodes
      <4> QED
        BY <2>1, <4>1, <4>2
    <3>3. ASSUME NEW k, NEW p \in 1..(i - 1), s[p].key = k PROVE k \in KeysOf(B)
      <4>1. s[p] \in Nodes(B)
        BY <2>1, <3>1
      <4> QED
        BY <3>1, <3>3, <4>1 DEF KeysOf
    <3> QED
      BY <3>2, <3>3
  <2>8. ASSUME NEW a, NEW k PROVE After(g[i], a, k) <=> Stacked(s, i, n, a, k)
    <3>1. After(g[i], a, k) <=> \/ After(B, a, k)
                               \/ /\ a = node.key /\ k \in KeysOf(B)
                                  /\ Idx(hash, a, Len(B)) = Idx(hash, k, Len(B))
      <4>1. After(AddNode(B, node), a, k) <=>
              \/ After(B, a, k)
              \/ /\ a = node.key /\ k \in KeysOf(B)
                 /\ Idx(hash, a, Len(B)) = Idx(hash, k, Len(B))
        BY <2>1, <2>2, <2>3, <2>4, AddNodeOrder
      <4> QED
        BY <2>2, <4>1
    <3>2. ASSUME Stacked(s, i, n, a, k), ~Stacked(s, i - 1, n, a, k)
          PROVE  a = node.key /\ k \in KeysOf(B) /\ Idx(hash, a, n) = Idx(hash, k, n)
      <4>1. PICK p, q \in 1..i : p < q /\ s[p].key = k /\ s[q].key = a
        BY <3>2 DEF Stacked
      <4>2. p \in 1..(i - 1)
        BY <1>0, <4>1
      <4>3. q = i
        <5> SUFFICES ASSUME q # i PROVE FALSE
          OBVIOUS
        <5>1. q \in 1..(i - 1)
          BY <1>0
        <5> QED
          BY <3>2, <4>1, <4>2, <5>1 DEF Stacked
      <4> QED
        BY <2>7, <3>2, <4>1, <4>2, <4>3 DEF Stacked, node
    <3>3. ASSUME a = node.key, k \in KeysOf(B), Idx(hash, a, n) = Idx(hash, k, n)
          PROVE  Stacked(s, i, n, a, k)
      <4>1. PICK p \in 1..(i - 1) : s[p].key = k
        BY <2>7, <3>3
      <4>2. p \in 1..i /\ p < i
        BY <1>0, <2>0
      <4> QED
        BY <2>0, <3>3, <4>1, <4>2 DEF Stacked, node
    <3>4. Stacked(s, i - 1, n, a, k) => Stacked(s, i, n, a, k)
      <4>1. \A p \in 1..(i - 1) : p \in 1..i
        BY <2>0
      <4> QED
        BY <4>1 DEF Stacked
    <3>5. Len(B) = n /\ (After(B, a, k) <=> Stacked(s, i - 1, n, a, k))
      BY <2>1
    <3> QED
      BY <3>1, <3>2, <3>3, <3>4, <3>5
  <2> QED
    BY <2>1, <2>2, <2>5, <2>6, <2>8
<1> HIDE DEF P
<1>7. T = {}
  <2> SUFFICES ASSUME T # {} PROVE FALSE
    OBVIOUS
  <2>0. T \subseteq Nat
    BY <1>0
  <2>1. PICK i \in T : \A y \in T : i <= y
    BY <2>0, LeastNat
  <2>2. i \in 0..l /\ ~P(i) /\ i # 0
    BY <1>5, <2>1
  <2>3. i \in 1..l /\ i - 1 \in 0..l /\ ~(i <= i - 1)
    BY <1>0, <2>2
  <2>4. P(i - 1)
    BY <2>1, <2>3
  <2> QED
    BY <1>6, <2>2, <2>3, <2>4
<1>8. P(l)
  <2>1. l \in 0..l
    BY <1>0
  <2> QED
    BY <1>7, <2>1
<1> QED
  BY <1>4, <1>8 DEF P

\* The nodes that map_resize chains together: those of the buckets, each once.
LEMMA ChainedIs ==
  ASSUME NEW h, NEW B, Sound(h, B), NEW s, s = Map!Chained(B)
  PROVE  /\ s \in Seq(NodeT) /\ (B = <<>> => s = <<>>)
         /\ \A i, k \in 1..Len(s) : s[i].key = s[k].key => i = k
         /\ \A x \in NodeT : x \in Nodes(B) <=> \E i \in 1..Len(s) : s[i] = x
         /\ \A i, k \in 1..Len(s) :
              i < k /\ Idx(h, s[i].key, Len(B)) = Idx(h, s[k].key, Len(B))
                => After(B, s[k].key, s[i].key)
<1> DEFINE n == Len(B)
           C == [i \in 1..n |-> Map!Reverse(B[i])]
<1>0. B \in Seq(Seq(NodeT)) /\ n \in Nat
  BY DEF Sound
<1>1. ASSUME NEW i \in 1..n
      PROVE  /\ C[i] \in Seq(NodeT) /\ Len(C[i]) = Len(B[i])
             /\ \A j \in 1..Len(B[i]) : C[i][j] = B[i][(Len(B[i]) - j) + 1]
  <2> DEFINE t == B[i]
             r == [j \in 1..Len(t) |-> t[(Len(t) - j) + 1]]
  <2>1. t \in Seq(NodeT) /\ Len(t) \in Nat
    BY <1>0
  <2>2. C[i] = r
    BY DEF Map!Reverse
  <2> HIDE DEF t
  <2>3. \A j \in 1..Len(t) : (Len(t) - j) + 1 \in 1..Len(t)
    BY <2>1
  <2>4. r \in Seq(NodeT) /\ Len(r) = Len(t)
    BY <2>1, <2>3
  <2>5. \A j \in 1..Len(t) : r[j] = t[(Len(t) - j) + 1]
    OBVIOUS
  <2> HIDE DEF r
  <2> QED
    BY <2>2, <2>4, <2>5 DEF t
<1>2. C \in Seq(Seq(NodeT)) /\ Len(C) = n
  BY <1>0, <1>1
<1>3. s = Map!FlattenSeq(C)
  BY DEF Map!Chained
<1> HIDE DEF C
<1>4. s \in Seq(NodeT)
  BY <1>2, <1>3, FlattenLists
<1>5. PICK u, v : Lists(s, C, n, u, v)
  BY <1>2, <1>3, FlattenLists
<1>6. /\ u \in [1..Len(s) -> 1..n]
      /\ \A i \in 1..Len(s) : v[i] \in 1..Len(C[u[i]]) /\ s[i] = C[u[i]][v[i]]
      /\ \A i, k \in 1..Len(s) : u[i] = u[k] /\ i < k => v[i] < v[k]
      /\ \A b \in 1..n : \A j \in 1..Len(C[b]) : \E i \in 1..Len(s) : u[i] = b /\ v[i] = j
  BY <1>5 DEF Lists
<1> DEFINE w(i) == (Len(B[u[i]]) - v[i]) + 1
<1>7. ASSUME NEW i \in 1..Len(s)
      PROVE  /\ u[i] \in 1..n /\ v[i] \in 1..Len(B[u[i]]) /\ Len(B[u[i]]) \in Nat
             /\ w(i) \in 1..Len(B[u[i]]) /\ s[i] = B[u[i]][w(i)]
  <2>1. u[i] \in 1..n
    BY <1>6
  <2>2. v[i] \in 1..Len(C[u[i]]) /\ s[i] = C[u[i]][v[i]]
    BY <1>6
  <2>3. v[i] \in 1..Len(B[u[i]]) /\ B[u[i]] \in Seq(NodeT)
    BY <1>0, <1>1, <2>1, <2>2
  <2>4. s[i] = B[u[i]][w(i)]
    BY <1>1, <2>1, <2>2, <2>3
  <2>5. Len(B[u[i]]) \in Nat
    BY <2>3
  <2> QED
    BY <2>1, <2>3, <2>4, <2>5
<1>8. \A q \in 1..Len(s) : u[q] = Idx(h, s[q].key, n)
  <2> TAKE q \in 1..Len(s)
  <2> DEFINE b == u[q]
             j == w(q)
  <2>1. b \in 1..n /\ j \in 1..Len(B[b]) /\ s[q] = B[b][j]
    BY <1>7
  <2> HIDE DEF b, j
  <2>2. b = Idx(h, s[q].key, n)
    BY <2>1 DEF Sound
  <2> QED
    BY <2>2 DEF b
<1>9. ASSUME NEW i \in 1..Len(s), NEW k \in 1..Len(s), s[i].key = s[k].key
      PROVE  i = k
  <2>2. u[i] = u[k]
    BY <1>9, <1>8
  <2>3. /\ w(i) \in 1..Len(B[u[i]]) /\ s[i] = B[u[i]][w(i)]
        /\ w(k) \in 1..Len(B[u[i]]) /\ s[k] = B[u[i]][w(k)] /\ u[i] \in 1..n
    BY <1>7, <2>2
  <2>4. w(i) = w(k)
    <3> HIDE DEF w
    <3> QED
      BY <1>9, <2>3 DEF Sound
  <2>5. v[i] = v[k]
    <3> DEFINE q == Len(B[u[i]])
               a == v[i]
               c == v[k]
    <3>1. q \in Nat /\ a \in 1..q /\ c \in 1..q /\ (q - a) + 1 = (q - c) + 1
      BY <1>7, <2>2, <2>4
    <3> HIDE DEF q, a, c
    <3>2. a = c
      BY <3>1
    <3> QED
      BY <3>2 DEF a, c
  <2> QED
    BY <1>5, <2>2, <2>5, ListedOnce
<1>10. ASSUME NEW x \in NodeT PROVE x \in Nodes(B) <=> \E i \in 1..Len(s) : s[i] = x
  <2>1. ASSUME NEW i \in 1..Len(s), s[i] = x PROVE x \in Nodes(B)
    <3> HIDE DEF w
    <3> QED
      BY <1>7, <2>1 DEF Nodes
  <2>2. ASSUME x \in Nodes(B) PROVE \E i \in 1..Len(s) : s[i] = x
    <3>1. PICK b \in 1..n : \E j \in 1..Len(B[b]) : B[b][j] = x
      BY <2>2 DEF Nodes
    <3>2. PICK j \in 1..Len(B[b]) : B[b][j] = x
      BY <3>1
    <3> DEFINE q == Len(B[b])
               a == (q - j) + 1
    <3>3. q \in Nat /\ j \in 1..q
      BY <1>0
    <3>4. a \in 1..q /\ (q - a) + 1 = j
      <4> HIDE DEF q
      <4> QED
        BY <3>3
    <3> HIDE DEF a, q
    <3>7. a \in 1..Len(C[b])
      BY <1>1, <3>4 DEF q
    <3>5. PICK i \in 1..Len(s) : u[i] = b /\ v[i] = a
      BY <1>6, <3>7
    <3>6. w(i) = j
      BY <3>4, <3>5 DEF q
    <3> QED
      BY <1>7, <3>2, <3>5, <3>6
  <2> QED
    BY <2>1, <2>2
<1>11. B = <<>> => s = <<>>
  <2> HAVE B = <<>>
  <2>1. n = 0
    OBVIOUS
  <2>2. Len(s) = 0
    <3> SUFFICES ASSUME Len(s) # 0 PROVE FALSE
      OBVIOUS
    <3>1. 1 \in 1..Len(s)
      BY <1>4
    <3> QED
      BY <1>7, <2>1, <3>1
  <2> QED
    BY <1>4, <2>2
<1>12. ASSUME NEW i \in 1..Len(s), NEW k \in 1..Len(s), i < k,
              Idx(h, s[i].key, n) = Idx(h, s[k].key, n)
       PROVE  After(B, s[k].key, s[i].key)
  <2>1. u[i] = u[k] /\ v[i] < v[k]
    BY <1>6, <1>12, <1>8
  <2> DEFINE c == B[u[i]]
             a == v[i]
             d == v[k]
  <2>2. /\ Len(c) \in Nat /\ a \in 1..Len(c) /\ d \in 1..Len(c) /\ a < d
        /\ s[i] = c[(Len(c) - a) + 1] /\ s[k] = c[(Len(c) - d) + 1]
    BY <1>7, <2>1
  <2> HIDE DEF c, a, d
  <2>3. /\ (Len(c) - a) + 1 \in 1..Len(c) /\ (Len(c) - d) + 1 \in 1..Len(c)
        /\ (Len(c) - d) + 1 < (Len(c) - a) + 1
    BY <2>2
  <2>4. Before(c, s[k].key, s[i].key)
    BY <2>2, <2>3 DEF Before
  <2>5. u[i] \in 1..Len(B)
    BY <1>7
  <2> QED
    BY <2>4, <2>5 DEF After, c
<1> QED
  BY <1>4, <1>9, <1>10, <1>11, <1>12

\* map_resize keeps the nodes, and their order if it gets no more buckets.
LEMMA ResizeIs ==
  ASSUME hash \in [Keys -> Nat], NEW w, Sound(hash, w.buckets), NEW n \in Nat,
         n = 0 => w.buckets = <<>>,
         NEW R, R = Map!FoldLeft(Map!map_addnode, [i \in 1..n |-> <<>>], Map!Chained(w.buckets))
  PROVE  /\ Sound(hash, R) /\ Len(R) = n /\ Nodes(R) = Nodes(w.buckets)
         /\ n = Len(w.buckets) => SameOrder(R, w.buckets)
<1> DEFINE B == w.buckets
<1>1. PICK s : s = Map!Chained(B)
  OBVIOUS
<1> HIDE DEF B
<1>2. /\ s \in Seq(NodeT) /\ (B = <<>> => s = <<>>)
      /\ \A i, k \in 1..Len(s) : s[i].key = s[k].key => i = k
      /\ \A x \in NodeT : x \in Nodes(B) <=> \E i \in 1..Len(s) : s[i] = x
      /\ \A i, k \in 1..Len(s) :
           i < k /\ Idx(hash, s[i].key, Len(B)) = Idx(hash, s[k].key, Len(B))
             => After(B, s[k].key, s[i].key)
  BY <1>1, ChainedIs, SMTT(30) DEF B
<1>3. R = Map!FoldLeft(Map!map_addnode, [i \in 1..n |-> <<>>], s)
  BY <1>1 DEF B
<1>4. n = 0 => s = <<>>
  BY <1>2 DEF B
<1>5. /\ Sound(hash, R) /\ Len(R) = n
      /\ \A x \in NodeT : x \in Nodes(R) <=> \E i \in 1..Len(s) : s[i] = x
      /\ \A a, k : After(R, a, k) <=> Stacked(s, Len(s), n, a, k)
  BY <1>2, <1>3, <1>4, FoldNodes
<1>6. Nodes(R) = Nodes(B)
  BY <1>2, <1>5 DEF Nodes
<1>7. ASSUME n = Len(B), NEW a, NEW k PROVE After(R, a, k) <=> After(B, a, k)
  <2>1. Sound(hash, B) /\ Len(s) \in Nat
    BY <1>2 DEF B
  <2>2. ASSUME Stacked(s, Len(s), n, a, k) PROVE After(B, a, k)
    BY <1>2, <1>7, <2>2 DEF Stacked
  <2>3. ASSUME After(B, a, k) PROVE Stacked(s, Len(s), n, a, k)
    <3>1. /\ a \in KeysOf(B) /\ k \in KeysOf(B) /\ a # k
          /\ Idx(hash, a, Len(B)) = Idx(hash, k, Len(B))
      BY <2>1, <2>3, AfterIn
    <3>2. \A c \in KeysOf(B) : \E i \in 1..Len(s) : s[i].key = c
      <4> TAKE c \in KeysOf(B)
      <4>1. PICK x \in Nodes(B) : x.key = c
        BY DEF KeysOf
      <4>2. x \in NodeT
        BY DEF Nodes
      <4> QED
        BY <1>2, <4>1, <4>2
    <3>3. PICK i \in 1..Len(s) : s[i].key = k
      BY <3>1, <3>2
    <3>4. PICK j \in 1..Len(s) : s[j].key = a
      BY <3>1, <3>2
    <3>5. ~(j < i)
      <4> SUFFICES ASSUME j < i PROVE FALSE
        OBVIOUS
      <4>1. After(B, k, a)
        BY <1>2, <3>1, <3>3, <3>4
      <4>2. After(B, a, a)
        BY <2>1, <2>3, <4>1, AfterTrans
      <4>3. a # a
        <5>1. /\ a \in KeysOf(B) /\ a \in KeysOf(B) /\ a # a
              /\ Idx(hash, a, Len(B)) = Idx(hash, a, Len(B))
          BY <2>1, <4>2, AfterIn
        <5> QED
          BY <5>1
      <4> QED
        BY <4>3
    <3>6. i < j
      BY <2>1, <3>1, <3>3, <3>4, <3>5
    <3> QED
      BY <1>7, <3>1, <3>3, <3>4, <3>6 DEF Stacked
  <2> QED
    BY <1>5, <2>2, <2>3
<1> QED
  BY <1>5, <1>6, <1>7 DEF B, SameOrder

---------------------------------------------------------------------------
(* Lookups, replacements and removals *)

MapT == [buckets : Seq(Seq(NodeT)), nnodes : Nat]

\* Where map_getref finds a key that is there.
Place(w, key) == CHOOSE j \in Map!map_getref(w, key) : TRUE

Found(w, key) ==
  /\ Map!Bucket(w, key) \in 1..Len(w.buckets)
  /\ Map!Bucket(w, key) = Idx(hash, key, Len(w.buckets))
  /\ Place(w, key) \in 1..Len(w.buckets[Map!Bucket(w, key)])
  /\ w.buckets[Map!Bucket(w, key)][Place(w, key)].key = key

LEMMA GetRefIs ==
  ASSUME hash \in [Keys -> Nat], NEW w, Sound(hash, w.buckets), NEW key \in Keys
  PROVE  /\ Map!Has(w, key) <=> key \in KeysOf(w.buckets)
         /\ Map!Has(w, key) => Found(w, key)
<1> DEFINE B == w.buckets
           b == Idx(hash, key, Len(B))
           G == Map!map_getref(w, key)
<1>0. B \in Seq(Seq(NodeT)) /\ Len(B) \in Nat /\ Sound(hash, B)
  BY DEF Sound
<1>1. CASE B = <<>>
  <2>1. ~Map!Has(w, key)
    BY <1>1 DEF Map!Has, Map!map_getref
  <2>2. Nodes(B) = {}
    BY <1>1 DEF Nodes
  <2> QED
    BY <2>1, <2>2 DEF KeysOf
<1>2. CASE B # <<>>
  <2>1. Len(B) \in Nat \ {0}
    <3> HIDE DEF B
    <3> QED
      BY <1>0, <1>2
  <2>2. b \in 1..Len(B)
    BY <2>1, IdxIn
  <2>3. Map!Bucket(w, key) = b
    BY DEF Map!Bucket, Map!map_bucketidx, Idx
  <2> DEFINE c == B[b]
  <2>4. G = {j \in 1..Len(c) : c[j].key = key /\ \A i \in 1..(j - 1) : c[i].key # key}
    BY <1>2, <2>3 DEF Map!map_getref
  <2>5. c \in Seq(NodeT) /\ Len(c) \in Nat
    BY <1>0, <2>2
  <2>6. \A j, k \in 1..Len(c) : c[j].key = c[k].key => j = k
    BY <1>0, <2>2 DEF Sound
  <2>7. Map!Has(w, key) <=> G # {}
    BY DEF Map!Has
  <2> HIDE DEF G
  <2>8. ASSUME G # {} PROVE key \in KeysOf(B) /\ Found(w, key)
    <3>0. Place(w, key) \in G
      BY <2>8 DEF Place, G
    <3>1. Place(w, key) \in 1..Len(c) /\ c[Place(w, key)].key = key
      BY <2>4, <3>0
    <3>2. c[Place(w, key)] \in Nodes(B)
      BY <2>2, <2>5, <3>1 DEF Nodes
    <3>3. key \in KeysOf(B)
      BY <3>1, <3>2 DEF KeysOf
    <3> QED
      BY <2>2, <2>3, <3>1, <3>3 DEF Found
  <2>9. ASSUME key \in KeysOf(B) PROVE G # {}
    <3>1. PICK x \in Nodes(B) : x.key = key
      BY <2>9 DEF KeysOf
    <3>2. InChain(hash, B, Len(B), x)
      BY <1>0, NodeAt
    <3>3. PICK j \in 1..Len(c) : c[j] = x
      BY <3>1, <3>2 DEF InChain
    <3> HIDE DEF c
    <3>4. \A i \in 1..(j - 1) : c[i].key # key
      <4> SUFFICES ASSUME NEW i \in 1..(j - 1), c[i].key = key PROVE FALSE
        OBVIOUS
      <4>1. i \in 1..Len(c) /\ i # j
        BY <2>5
      <4> QED
        BY <2>6, <3>1, <3>3, <4>1
    <3> QED
      BY <2>4, <3>1, <3>3, <3>4
  <2> QED
    BY <2>7, <2>8, <2>9
<1> QED
  BY <1>1, <1>2

\* The node with a key that is there.
LEMMA FoundIs ==
  ASSUME NEW w, Sound(hash, w.buckets), NEW key \in Keys, Found(w, key),
         NEW x \in Nodes(w.buckets), x.key = key
  PROVE  /\ w.buckets[Map!Bucket(w, key)][Place(w, key)] = x
         /\ Map!map_get_(w, key) = x.value
<1> DEFINE B == w.buckets
           b == Map!Bucket(w, key)
           j == Place(w, key)
<1>1. b \in 1..Len(B) /\ j \in 1..Len(B[b]) /\ B[b][j].key = key /\ B \in Seq(Seq(NodeT))
  BY DEF Found, Sound
<1>2. B[b][j] \in NodeT
  <2> HIDE DEF B, b, j
  <2> QED
    BY <1>1
<1>3. B[b][j] \in Nodes(B)
  <2> HIDE DEF B, b, j
  <2> QED
    BY <1>1, <1>2 DEF Nodes
<1>4. B[b][j] = x
  BY <1>1, <1>3, SameNode
<1>5. Map!map_get_(w, key) = B[b][j].value
  BY DEF Map!map_get_, Place
<1> QED
  BY <1>4, <1>5

\* The bucket of a key changes.
LEMMA OneBucket ==
  ASSUME NEW w \in MapT, Sound(hash, w.buckets), NEW key \in Keys, Found(w, key),
         NEW c, Chain(hash, Len(w.buckets), Map!Bucket(w, key), c),
         NEW R, R = [w.buckets EXCEPT ![Map!Bucket(w, key)] = c]
  PROVE  /\ Sound(hash, R) /\ Len(R) = Len(w.buckets)
         /\ Swapped(w.buckets, Map!Bucket(w, key), c, R)
         /\ SwappedNodes(hash, w.buckets, Map!Bucket(w, key), c, R)
<1> DEFINE B == w.buckets
           b == Map!Bucket(w, key)
<1>1. B \in Seq(Seq(NodeT)) /\ b \in 1..Len(B) /\ c \in Seq(NodeT)
  BY DEF Sound, Found, Chain
<1>2. R = [B EXCEPT ![b] = c] /\ Sound(hash, B) /\ Chain(hash, Len(B), b, c)
  OBVIOUS
<1> HIDE DEF B, b
<1>3. Swapped(B, b, c, R)
  <2>1. Swapped(B, b, c, [B EXCEPT ![b] = c])
    BY <1>1, SwappedIs
  <2> QED
    BY <1>2, <2>1, Zenon
<1>5. Len(R) = Len(B)
  BY <1>3 DEF Swapped
<1>4. Sound(hash, R) /\ SwappedNodes(hash, B, b, c, R)
  BY <1>1, <1>2, <1>3, ChainChanged
<1> QED
  BY <1>3, <1>4, <1>5 DEF B, b

\* map_set_ of a key that is there.
LEMMA ReplaceIs ==
  ASSUME hash \in [Keys -> Nat], NEW w \in MapT, Sound(hash, w.buckets), NEW key \in Keys,
         Map!Has(w, key), NEW value \in Values, NEW r, r = Map!Replace(w, key, value)
  PROVE  /\ r \in MapT /\ Sound(hash, r.buckets) /\ Len(r.buckets) = Len(w.buckets)
         /\ r.nnodes = w.nnodes
         /\ Nodes(r.buckets) = {x \in Nodes(w.buckets) : x.key # key} \cup {Map!Node(key, value)}
         /\ SameOrder(r.buckets, w.buckets)
<1> DEFINE B == w.buckets
           b == Map!Bucket(w, key)
           j == Place(w, key)
           s == B[b]
           c == [s EXCEPT ![j].value = value]
           R == [B EXCEPT ![b] = c]
<1>0. Found(w, key)
  BY GetRefIs
<1>1. /\ B \in Seq(Seq(NodeT)) /\ b \in 1..Len(B) /\ b = Idx(hash, key, Len(B))
      /\ j \in 1..Len(s) /\ s[j].key = key
  BY <1>0 DEF Found, Sound
<1>2. r = [buckets |-> R, nnodes |-> w.nnodes]
  BY DEF Map!Replace, Place, MapT
<1>3. s \in Seq(NodeT) /\ Len(s) \in Nat
  <2> HIDE DEF B, b
  <2> QED
    BY <1>1
<1>4. /\ \A i \in 1..Len(s) : Idx(hash, s[i].key, Len(B)) = b
      /\ \A i, k \in 1..Len(s) : s[i].key = s[k].key => i = k
  <2>1. Sound(hash, B)
    OBVIOUS
  <2> HIDE DEF B, b
  <2> QED
    BY <1>1, <2>1 DEF Sound
<1> DEFINE node == Map!Node(key, value)
<1>5. node \in NodeT /\ node.key = key
  BY DEF Map!Node, NodeT
<1>6. [s[j] EXCEPT !.value = value] = node
  <2> DEFINE y == s[j]
  <2>1. y \in NodeT /\ y.key = key
    <3> HIDE DEF s, j
    <3> QED
      BY <1>1, <1>3
  <2> HIDE DEF y
  <2>2. [y EXCEPT !.value = value] = node
    BY <2>1 DEF Map!Node, NodeT
  <2> QED
    BY <2>2 DEF y
<1>7. /\ c \in Seq(NodeT) /\ Len(c) = Len(s) /\ c[j] = node
      /\ \A i \in 1..Len(s) : i # j => c[i] = s[i]
  <2>1. c = [s EXCEPT ![j] = node]
    BY <1>6
  <2> HIDE DEF c, s, j, node
  <2> QED
    BY <1>1, <1>3, <1>5, <2>1
<1>8. \A i \in 1..Len(c) : c[i].key = s[i].key
  <2> HIDE DEF c, s, j, node, B, b
  <2> QED
    BY <1>1, <1>5, <1>7
<1>9. Chain(hash, Len(B), b, c)
  <2> HIDE DEF c, s, j, node, B, b
  <2> QED
    BY <1>4, <1>7, <1>8 DEF Chain
<1>10. /\ Sound(hash, R) /\ Len(R) = Len(B) /\ Swapped(B, b, c, R)
       /\ SwappedNodes(hash, B, b, c, R)
  <2>1. \A q : q = [B EXCEPT ![b] = c] =>
          /\ Sound(hash, q) /\ Len(q) = Len(B) /\ Swapped(B, b, c, q)
          /\ SwappedNodes(hash, B, b, c, q)
    <3> HIDE DEF c
    <3> QED
      BY <1>0, <1>9, OneBucket
  <2> QED
    BY <2>1, Zenon
<1> HIDE DEF R
<1>11. r \in MapT /\ r.buckets = R /\ r.nnodes = w.nnodes
  <2>1. R \in Seq(Seq(NodeT))
    BY <1>10 DEF Sound
  <2> QED
    BY <1>2, <2>1 DEF MapT
<1>12. ASSUME NEW x \in NodeT
       PROVE  x \in Nodes(R) <=> (x \in Nodes(B) /\ x.key # key) \/ x = node
  <2>0. Sound(hash, B)
    OBVIOUS
  <2> HIDE DEF c, s, j, node, B, b
  <2>1. CASE Idx(hash, x.key, Len(B)) # b
    <3>1. x.key # key
      BY <1>1, <2>1
    <3> QED
      BY <1>5, <1>10, <2>1, <3>1 DEF SwappedNodes
  <2>2. CASE Idx(hash, x.key, Len(B)) = b
    <3>1. x \in Nodes(R) <=> \E i \in 1..Len(s) : c[i] = x
      BY <1>7, <1>10, <2>2 DEF SwappedNodes
    <3>2. x \in Nodes(B) <=> \E i \in 1..Len(s) : s[i] = x
      BY <1>1, <2>0, <2>2, ChainNodes DEF s
    <3>3. \A i \in 1..Len(s) : s[i].key = key => i = j
      BY <1>1, <1>4
    <3> QED
      BY <1>1, <1>5, <1>7, <3>1, <3>2, <3>3
  <2> QED
    BY <2>1, <2>2
<1>13. Nodes(R) = {x \in Nodes(B) : x.key # key} \cup {node}
  <2> HIDE DEF node, B
  <2> QED
    BY <1>5, <1>12 DEF Nodes
<1>14. ASSUME NEW a, NEW k PROVE After(R, a, k) <=> After(B, a, k)
  <2> HIDE DEF c, s, j, node, B, b
  <2>1. After(R, a, k) <=> Before(c, a, k) \/ \E d \in 1..Len(B) : d # b /\ Before(B[d], a, k)
    BY <1>1, <1>10, SwappedOrder
  <2>2. After(B, a, k) <=> Before(s, a, k) \/ \E d \in 1..Len(B) : d # b /\ Before(B[d], a, k)
    BY <1>1 DEF After, s
  <2>3. Before(c, a, k) <=> Before(s, a, k)
    BY <1>7, <1>8 DEF Before
  <2> QED
    BY <2>1, <2>2, <2>3
<1> QED
  BY <1>10, <1>11, <1>13, <1>14 DEF SameOrder

\* A chain without its element j.
LEMMA RemovedAt ==
  ASSUME NEW T, NEW s \in Seq(T), NEW j \in 1..Len(s)
  PROVE  /\ Map!RemoveAt(s, j) \in Seq(T) /\ Len(Map!RemoveAt(s, j)) = Len(s) - 1
         /\ \A i \in 1..(Len(s) - 1) :
              Map!RemoveAt(s, j)[i] = IF i < j THEN s[i] ELSE s[i + 1]
<1> DEFINE l == Len(s)
           p == SubSeq(s, 1, j - 1)
           q == SubSeq(s, j + 1, l)
<1>0. l \in Nat /\ j \in Nat /\ 1 <= j /\ j <= l /\ j - 1 \in Nat
  OBVIOUS
<1>1. p \in Seq(T) /\ Len(p) = j - 1 /\ \A i \in 1..(j - 1) : p[i] = s[i]
  <2>1. j - 1 \in Nat /\ j - 1 <= Len(s)
    BY <1>0
  <2> QED
    BY <2>1, Prefix
<1>2. q \in Seq(T) /\ Len(q) = l - j /\ \A i \in 1..(l - j) : q[i] = s[j + i]
  BY <1>0, Segment
<1>3. Map!RemoveAt(s, j) = p \o q
  BY DEF Map!RemoveAt
<1> HIDE DEF p, q
<1>4. p \o q \in Seq(T) /\ Len(p \o q) = l - 1
  <2>0. p \in Seq(T) /\ q \in Seq(T)
    BY <1>1, <1>2
  <2>1. p \o q \in Seq(T) /\ Len(p \o q) = Len(p) + Len(q)
    BY <2>0
  <2>2. Len(p) + Len(q) = l - 1
    BY <1>0, <1>1, <1>2
  <2> QED
    BY <2>1, <2>2
<1>5. ASSUME NEW i \in 1..(l - 1) PROVE (p \o q)[i] = IF i < j THEN s[i] ELSE s[i + 1]
  <2>0. (p \o q)[i] = IF i <= Len(p) THEN p[i] ELSE q[i - Len(p)]
    BY <1>0, <1>1, <1>2
  <2>1. CASE i < j
    <3>1. i \in 1..(j - 1) /\ i <= Len(p)
      BY <1>0, <1>1, <2>1
    <3> QED
      BY <1>1, <2>0, <2>1, <3>1
  <2>2. CASE ~(i < j)
    <3>1. /\ ~(i <= Len(p)) /\ i - Len(p) \in 1..(l - j) /\ j + (i - Len(p)) = i + 1
      BY <1>0, <1>1, <2>2
    <3> QED
      BY <1>2, <2>0, <2>2, <3>1
  <2> QED
    BY <2>1, <2>2
<1> QED
  BY <1>3, <1>4, <1>5

\* map_remove_ of a key that is there.
LEMMA RemoveIs ==
  ASSUME hash \in [Keys -> Nat], NEW w \in MapT, Sound(hash, w.buckets), NEW key \in Keys,
         Map!Has(w, key), NEW r, r = Map!map_remove_(w, key)
  PROVE  /\ Sound(hash, r.buckets) /\ Len(r.buckets) = Len(w.buckets)
         /\ r = [buckets |-> r.buckets, nnodes |-> w.nnodes - 1]
         /\ Nodes(r.buckets) = {x \in Nodes(w.buckets) : x.key # key}
         /\ OrderWithout(r.buckets, w.buckets, key)
<1> DEFINE B == w.buckets
           b == Map!Bucket(w, key)
           j == Place(w, key)
           s == B[b]
           c == Map!RemoveAt(s, j)
           R == [B EXCEPT ![b] = c]
<1>0. Found(w, key)
  BY GetRefIs
<1>1. /\ B \in Seq(Seq(NodeT)) /\ b \in 1..Len(B) /\ b = Idx(hash, key, Len(B))
      /\ j \in 1..Len(s) /\ s[j].key = key
  BY <1>0 DEF Found, Sound
<1>2. r = [buckets |-> R, nnodes |-> w.nnodes - 1]
  BY DEF Map!map_remove_, Place
<1>3. s \in Seq(NodeT) /\ Len(s) \in Nat
  <2> HIDE DEF B, b
  <2> QED
    BY <1>1
<1>4. /\ \A i \in 1..Len(s) : Idx(hash, s[i].key, Len(B)) = b
      /\ \A i, k \in 1..Len(s) : s[i].key = s[k].key => i = k
  <2>1. Sound(hash, B)
    OBVIOUS
  <2> HIDE DEF B, b
  <2> QED
    BY <1>1, <2>1 DEF Sound
<1>7. /\ c \in Seq(NodeT) /\ Len(c) = Len(s) - 1
      /\ \A i \in 1..(Len(s) - 1) : c[i] = IF i < j THEN s[i] ELSE s[i + 1]
  <2> HIDE DEF s, j
  <2> QED
    BY <1>1, <1>3, RemovedAt
<1> DEFINE f(i) == IF i < j THEN i ELSE i + 1
<1>8. \A i \in 1..Len(c) : f(i) \in 1..Len(s) /\ f(i) # j /\ c[i] = s[f(i)]
  <2> HIDE DEF c, s, j, B, b
  <2> QED
    BY <1>1, <1>3, <1>7
<1>9. \A i, k \in 1..Len(c) : f(i) = f(k) => i = k
  <2> HIDE DEF c, s, j, B, b
  <2> QED
    BY <1>1, <1>3, <1>7
<1>10. \A k \in 1..Len(s) : k # j => \E i \in 1..Len(c) : f(i) = k
  <2> HIDE DEF c, s, j, B, b
  <2> SUFFICES ASSUME NEW k \in 1..Len(s), k # j PROVE \E i \in 1..Len(c) : f(i) = k
    OBVIOUS
  <2>1. CASE k < j
    <3>1. k \in 1..Len(c) /\ f(k) = k
      BY <1>1, <1>3, <1>7, <2>1
    <3> QED
      BY <3>1
  <2>2. CASE ~(k < j)
    <3>1. k - 1 \in 1..Len(c) /\ f(k - 1) = k
      BY <1>1, <1>3, <1>7, <2>2
    <3> QED
      BY <3>1
  <2> QED
    BY <2>1, <2>2
<1>11. Chain(hash, Len(B), b, c)
  <2> HIDE DEF c, s, j, B, b, f
  <2> QED
    BY <1>4, <1>7, <1>8, <1>9 DEF Chain
<1>12. /\ Sound(hash, R) /\ Len(R) = Len(B) /\ Swapped(B, b, c, R)
       /\ SwappedNodes(hash, B, b, c, R)
  <2>1. \A q : q = [B EXCEPT ![b] = c] =>
          /\ Sound(hash, q) /\ Len(q) = Len(B) /\ Swapped(B, b, c, q)
          /\ SwappedNodes(hash, B, b, c, q)
    <3> HIDE DEF c
    <3> QED
      BY <1>0, <1>11, OneBucket
  <2> QED
    BY <2>1, Zenon
<1> HIDE DEF R
<1>13. ASSUME NEW x \in NodeT
       PROVE  x \in Nodes(R) <=> (x \in Nodes(B) /\ x.key # key)
  <2>0. Sound(hash, B)
    OBVIOUS
  <2> HIDE DEF c, s, j, B, b, f
  <2>1. CASE Idx(hash, x.key, Len(B)) # b
    <3>1. x.key # key
      BY <1>1, <2>1
    <3> QED
      BY <1>12, <2>1, <3>1 DEF SwappedNodes
  <2>2. CASE Idx(hash, x.key, Len(B)) = b
    <3>1. x \in Nodes(R) <=> \E i \in 1..Len(c) : c[i] = x
      BY <1>12, <2>2 DEF SwappedNodes
    <3>2. x \in Nodes(B) <=> \E i \in 1..Len(s) : s[i] = x
      BY <1>1, <2>0, <2>2, ChainNodes DEF s
    <3>3. \A i \in 1..Len(s) : s[i].key = key <=> i = j
      BY <1>1, <1>4
    <3>4. (\E i \in 1..Len(c) : c[i] = x) <=> \E k \in 1..Len(s) : k # j /\ s[k] = x
      BY <1>8, <1>10
    <3> QED
      BY <3>1, <3>2, <3>3, <3>4
  <2> QED
    BY <2>1, <2>2
<1>14. Nodes(R) = {x \in Nodes(B) : x.key # key}
  <2> HIDE DEF B
  <2> QED
    BY <1>13 DEF Nodes
<1>15. ASSUME NEW a, NEW k PROVE After(R, a, k) <=> a # key /\ k # key /\ After(B, a, k)
  <2>0. Sound(hash, B)
    OBVIOUS
  <2> HIDE DEF c, s, j, B, b
  <2>1. After(R, a, k) <=> Before(c, a, k) \/ \E d \in 1..Len(B) : d # b /\ Before(B[d], a, k)
    BY <1>1, <1>12, SwappedOrder
  <2>2. After(B, a, k) <=> Before(s, a, k) \/ \E d \in 1..Len(B) : d # b /\ Before(B[d], a, k)
    BY <1>1 DEF After, s
  <2>3. ASSUME NEW d \in 1..Len(B), d # b, Before(B[d], a, k) PROVE a # key /\ k # key
    BY <1>1, <2>0, <2>3, SMTT(30) DEF Before, Sound
  <2>4. ASSUME Before(c, a, k) PROVE Before(s, a, k) /\ a # key /\ k # key
    <3>1. PICK p, q \in 1..Len(c) : p < q /\ c[p].key = a /\ c[q].key = k
      BY <2>4 DEF Before
    <3>2. /\ f(p) \in 1..Len(s) /\ f(p) # j /\ c[p] = s[f(p)]
          /\ f(q) \in 1..Len(s) /\ f(q) # j /\ c[q] = s[f(q)]
      <4> HIDE DEF f
      <4> QED
        BY <1>8
    <3>3. f(p) < f(q)
      BY <1>1, <1>3, <1>7, <3>1
    <3> HIDE DEF f
    <3> QED
      BY <1>1, <1>4, <3>1, <3>2, <3>3 DEF Before
  <2>5. ASSUME Before(s, a, k), a # key, k # key PROVE Before(c, a, k)
    <3>1. PICK p, q \in 1..Len(s) : p < q /\ s[p].key = a /\ s[q].key = k
      BY <2>5 DEF Before
    <3>2. p # j /\ q # j
      BY <1>1, <2>5, <3>1
    <3>3. PICK x \in 1..Len(c) : f(x) = p
      <4> HIDE DEF f
      <4> QED
        BY <1>10, <3>2
    <3>4. PICK y \in 1..Len(c) : f(y) = q
      <4> HIDE DEF f
      <4> QED
        BY <1>10, <3>2
    <3>5. x < y
      BY <1>1, <1>3, <1>7, <3>1, <3>3, <3>4
    <3>6. c[x] = s[p] /\ c[y] = s[q]
      <4> HIDE DEF f
      <4> QED
        BY <1>8, <3>3, <3>4
    <3> QED
      BY <3>1, <3>5, <3>6 DEF Before
  <2> QED
    BY <2>1, <2>2, <2>3, <2>4, <2>5
<1> QED
  BY <1>2, <1>12, <1>14, <1>15 DEF OrderWithout

---------------------------------------------------------------------------
(* The calls *)

MapOK(h, w) ==
  /\ w \in MapT
  /\ Sound(h, w.buckets)
  /\ w.nnodes = Cardinality(KeysOf(w.buckets))
  /\ w.nnodes <= Len(w.buckets)

LEMMA KeysCounted ==
  ASSUME NEW B
  PROVE  /\ IsFiniteSet(KeysOf(B)) /\ Cardinality(KeysOf(B)) \in Nat
         /\ Cardinality(KeysOf(B)) < CountMod
<1>1. KeysOf(B) \subseteq Keys /\ IsFiniteSet(Keys)
  BY KeysAssumption DEF KeysOf
<1>2. /\ IsFiniteSet(KeysOf(B)) /\ Cardinality(KeysOf(B)) <= Cardinality(Keys)
      /\ Cardinality(KeysOf(B)) \in Nat /\ Cardinality(Keys) \in Nat
  BY <1>1, FS_Subset, FS_CardinalityType
<1> QED
  BY <1>2, CountAssumption

\* map_resize that gets its memory, or not.
LEMMA ResizedIs ==
  ASSUME hash \in [Keys -> Nat], NEW w, MapOK(hash, w), NEW n \in Nat, Len(w.buckets) <= n,
         NEW r, r = Map!map_resize(w, n)
  PROVE  /\ MapOK(hash, r) /\ Len(r.buckets) = n /\ r.nnodes = w.nnodes
         /\ Nodes(r.buckets) = Nodes(w.buckets) /\ KeysOf(r.buckets) = KeysOf(w.buckets)
         /\ n = Len(w.buckets) => SameOrder(r.buckets, w.buckets)
<1>1. w \in MapT /\ Sound(hash, w.buckets) /\ w.nnodes <= Len(w.buckets)
  BY DEF MapOK
<1>2. Len(w.buckets) \in Nat /\ w.nnodes \in Nat /\ w.buckets \in Seq(Seq(NodeT))
  BY <1>1 DEF MapT
<1>3. n = 0 => w.buckets = <<>>
  <2> DEFINE B == w.buckets
  <2>1. B \in Seq(Seq(NodeT)) /\ Len(B) <= n
    BY <1>2
  <2> HIDE DEF B
  <2>2. n = 0 => B = <<>>
    BY <2>1
  <2> QED
    BY <2>2 DEF B
<1>4. PICK R : R = Map!FoldLeft(Map!map_addnode, [i \in 1..n |-> <<>>], Map!Chained(w.buckets))
  OBVIOUS
<1>5. /\ Sound(hash, R) /\ Len(R) = n /\ Nodes(R) = Nodes(w.buckets)
      /\ n = Len(w.buckets) => SameOrder(R, w.buckets)
  BY <1>1, <1>3, <1>4, ResizeIs
<1>6. r = [buckets |-> R, nnodes |-> w.nnodes]
  BY <1>1, <1>4 DEF Map!map_resize, MapT
<1>7. KeysOf(R) = KeysOf(w.buckets)
  BY <1>5 DEF KeysOf
<1>8. r \in MapT
  BY <1>2, <1>5, <1>6 DEF MapT, Sound
<1>9. MapOK(hash, r)
  BY <1>1, <1>2, <1>5, <1>6, <1>7, <1>8 DEF MapOK
<1> QED
  BY <1>5, <1>6, <1>7, <1>9

\* The nodes when key has a value and those it had are gone.
WithNode(N, key, value) == {x \in N : x.key # key} \cup {Map!Node(key, value)}

\* map_set_ where no allocation fails.
LEMMA SetIs ==
  ASSUME hash \in [Keys -> Nat], NEW w, MapOK(hash, w), NEW key \in Keys, NEW value \in Values,
         NEW r, r = Map!map_set_(w, key, value)
  PROVE  /\ MapOK(hash, r)
         /\ r.nnodes = IF Map!Has(w, key) THEN w.nnodes ELSE w.nnodes + 1
         /\ Nodes(r.buckets) = WithNode(Nodes(w.buckets), key, value)
         /\ Map!Has(w, key) \/ ~Map!Grows(w) =>
              /\ Len(r.buckets) = Len(w.buckets)
              /\ SameOrderIn(r.buckets, w.buckets)
<1> DEFINE node == Map!Node(key, value)
<1>0. w \in MapT /\ Sound(hash, w.buckets) /\ w.nnodes <= Len(w.buckets)
  BY DEF MapOK
<1>1. w.buckets \in Seq(Seq(NodeT)) /\ Len(w.buckets) \in Nat /\ w.nnodes \in Nat
  BY <1>0 DEF MapT
<1>2. node \in NodeT /\ node.key = key /\ node.value = value
  BY DEF Map!Node, NodeT
<1>3. Map!Has(w, key) <=> key \in KeysOf(w.buckets)
  BY <1>0, GetRefIs
<1>4. CASE Map!Has(w, key)
  <2>1. r = Map!Replace(w, key, value)
    BY <1>4 DEF Map!map_set_
  <2>2. /\ r \in MapT /\ Sound(hash, r.buckets) /\ Len(r.buckets) = Len(w.buckets)
        /\ r.nnodes = w.nnodes
        /\ Nodes(r.buckets) = {x \in Nodes(w.buckets) : x.key # key} \cup {node}
        /\ SameOrder(r.buckets, w.buckets)
    BY <1>0, <1>4, <2>1, ReplaceIs
  <2>3. KeysOf(r.buckets) = KeysOf(w.buckets)
    <3> HIDE DEF node
    <3> QED
      BY <1>2, <1>3, <1>4, <2>2 DEF KeysOf
  <2>4. MapOK(hash, r)
    BY <2>2, <2>3 DEF MapOK
  <2> QED
    BY <1>4, <2>2, <2>4 DEF WithNode, SameOrder, SameOrderIn
<1>5. CASE ~Map!Has(w, key)
  <2>1. PICK g : g = Map!Grown(w)
    OBVIOUS
  <2>2. /\ MapOK(hash, g) /\ Nodes(g.buckets) = Nodes(w.buckets)
        /\ KeysOf(g.buckets) = KeysOf(w.buckets) /\ g.nnodes = w.nnodes
        /\ g.nnodes < Len(g.buckets)
    <3>1. CASE Map!Grows(w)
      <4> DEFINE n == IF w.buckets = <<>> THEN 1 ELSE 2 * Len(w.buckets)
      <4>1. g = Map!map_resize(w, n)
        BY <2>1, <3>1 DEF Map!Grown
      <4>2. n \in Nat /\ Len(w.buckets) <= n /\ w.nnodes < n
        <5> DEFINE B == w.buckets
        <5>1. B \in Seq(Seq(NodeT)) /\ w.nnodes <= Len(B) /\ Len(B) \in Nat /\ w.nnodes \in Nat
          BY <1>0, <1>1
        <5>2. B = <<>> => Len(B) = 0
          OBVIOUS
        <5>3. B # <<>> => Len(B) > 0
          <6> HIDE DEF B
          <6> QED
            BY <5>1
        <5>4. n = IF B = <<>> THEN 1 ELSE 2 * Len(B)
          OBVIOUS
        <5> HIDE DEF B, n
        <5>5. n \in Nat /\ Len(B) <= n /\ w.nnodes < n
          BY <5>1, <5>2, <5>3, <5>4
        <5> QED
          BY <5>5 DEF B
      <4> HIDE DEF n
      <4>3. /\ MapOK(hash, g) /\ Len(g.buckets) = n /\ g.nnodes = w.nnodes
            /\ Nodes(g.buckets) = Nodes(w.buckets) /\ KeysOf(g.buckets) = KeysOf(w.buckets)
            /\ n = Len(w.buckets) => SameOrder(g.buckets, w.buckets)
        BY <4>1, <4>2, ResizedIs
      <4> QED
        BY <4>2, <4>3
    <3>2. CASE ~Map!Grows(w)
      <4>1. g = w
        BY <2>1, <3>2 DEF Map!Grown
      <4>2. w.nnodes < Len(w.buckets)
        BY <1>1, <3>2 DEF Map!Grows
      <4> QED
        BY <4>1, <4>2
    <3> QED
      BY <3>1, <3>2
  <2> DEFINE B == g.buckets
             R == AddNode(B, node)
  <2>3. r = [buckets |-> R, nnodes |-> g.nnodes + 1]
    BY <1>5, <2>1 DEF Map!map_set_, Map!Insert, AddNode
  <2>4. Sound(hash, B) /\ g \in MapT /\ g.nnodes = Cardinality(KeysOf(B))
    BY <2>2 DEF MapOK
  <2>5. g.nnodes \in Nat /\ B \in Seq(Seq(NodeT)) /\ Len(B) \in Nat
    BY <2>4 DEF MapT
  <2>6. B # <<>>
    <3>1. Len(B) # 0
      BY <2>2, <2>5
    <3> QED
      BY <3>1
  <2> HIDE DEF B
  <2>7. node.key \notin KeysOf(B)
    BY <1>2, <1>3, <1>5, <2>2 DEF B
  <2> HIDE DEF node
  <2>8. /\ Sound(hash, R) /\ Len(R) = Len(B) /\ Nodes(R) = Nodes(B) \cup {node}
    BY <1>2, <2>4, <2>6, <2>7, AddNodeIs
  <2> HIDE DEF R
  <2>9. KeysOf(R) = KeysOf(B) \cup {key}
    BY <1>2, <2>8 DEF KeysOf
  <2>10. Cardinality(KeysOf(R)) = g.nnodes + 1
    <3>1. IsFiniteSet(KeysOf(B)) /\ key \notin KeysOf(B)
      BY <1>2, <2>7, KeysCounted
    <3> QED
      BY <2>4, <2>9, <3>1, FS_AddElement
  <2>11. r \in MapT /\ r.buckets = R /\ r.nnodes = g.nnodes + 1
    BY <2>3, <2>5, <2>8 DEF MapT, Sound
  <2>12. MapOK(hash, r)
    <3>1. g.nnodes + 1 <= Len(R)
      BY <2>2, <2>5, <2>8 DEF B
    <3> QED
      BY <2>8, <2>10, <2>11, <3>1 DEF MapOK
  <2>13. {x \in Nodes(w.buckets) : x.key # key} = Nodes(B)
    <3>1. Nodes(B) = Nodes(w.buckets)
      BY <2>2 DEF B
    <3>2. \A x \in Nodes(B) : x.key # key
      BY <1>2, <2>7 DEF KeysOf
    <3> QED
      BY <3>1, <3>2
  <2>14. ASSUME ~Map!Grows(w), NEW a \in KeysOf(w.buckets), NEW k
         PROVE  After(r.buckets, a, k) <=> After(w.buckets, a, k)
    <3>1. B = w.buckets
      BY <2>1, <2>14 DEF Map!Grown, B
    <3>2. a # node.key
      BY <2>7, <3>1
    <3>3. After(AddNode(B, node), a, k) <=>
            \/ After(B, a, k)
            \/ /\ a = node.key /\ k \in KeysOf(B)
               /\ Idx(hash, a, Len(B)) = Idx(hash, k, Len(B))
      BY <1>2, <2>4, <2>6, <2>7, AddNodeOrder
    <3> QED
      BY <2>11, <3>1, <3>2, <3>3 DEF R
  <2>15. ~Map!Grows(w) => Len(r.buckets) = Len(w.buckets)
    <3>1. ~Map!Grows(w) => B = w.buckets
      BY <2>1 DEF Map!Grown, B
    <3> QED
      BY <2>8, <2>11, <3>1
  <2> QED
    BY <1>5, <2>2, <2>8, <2>11, <2>12, <2>13, <2>14, <2>15 DEF WithNode, node, SameOrderIn
<1> QED
  BY <1>4, <1>5

\* map_remove_, whether the key is there or not.
LEMMA RemovedIs ==
  ASSUME hash \in [Keys -> Nat], NEW w, MapOK(hash, w), NEW key \in Keys,
         NEW r, r = Map!map_remove_(w, key)
  PROVE  /\ MapOK(hash, r)
         /\ r.nnodes = IF Map!Has(w, key) THEN w.nnodes - 1 ELSE w.nnodes
         /\ Nodes(r.buckets) = {x \in Nodes(w.buckets) : x.key # key}
         /\ Len(r.buckets) = Len(w.buckets)
         /\ OrderWithout(r.buckets, w.buckets, key)
<1>0. w \in MapT /\ Sound(hash, w.buckets) /\ w.nnodes <= Len(w.buckets)
      /\ w.nnodes = Cardinality(KeysOf(w.buckets))
  BY DEF MapOK
<1>1. w.buckets \in Seq(Seq(NodeT)) /\ Len(w.buckets) \in Nat /\ w.nnodes \in Nat
  BY <1>0 DEF MapT
<1>2. Map!Has(w, key) <=> key \in KeysOf(w.buckets)
  BY <1>0, GetRefIs
<1>3. CASE ~Map!Has(w, key)
  <2>1. r = w
    BY <1>3 DEF Map!map_remove_
  <2>2. \A x \in Nodes(w.buckets) : x.key # key
    BY <1>2, <1>3 DEF KeysOf
  <2>3. ASSUME NEW a, NEW k, After(w.buckets, a, k) PROVE a # key /\ k # key
    <3>1. /\ a \in KeysOf(w.buckets) /\ k \in KeysOf(w.buckets) /\ a # k
          /\ Idx(hash, a, Len(w.buckets)) = Idx(hash, k, Len(w.buckets))
      BY <1>0, <2>3, AfterIn
    <3> QED
      BY <1>2, <1>3, <3>1
  <2> QED
    BY <1>3, <2>1, <2>2, <2>3 DEF OrderWithout
<1>4. CASE Map!Has(w, key)
  <2> DEFINE B == w.buckets
             R == r.buckets
  <2>1. /\ Sound(hash, R) /\ Len(R) = Len(B)
        /\ r = [buckets |-> R, nnodes |-> w.nnodes - 1]
        /\ Nodes(R) = {x \in Nodes(B) : x.key # key}
        /\ OrderWithout(R, B, key)
    BY <1>0, <1>4, RemoveIs
  <2>2. IsFiniteSet(KeysOf(B)) /\ key \in KeysOf(B)
    BY <1>2, <1>4, KeysCounted
  <2> HIDE DEF R, B
  <2>3. KeysOf(R) = KeysOf(B) \ {key}
    BY <2>1 DEF KeysOf
  <2>4. Cardinality(KeysOf(R)) = w.nnodes - 1
    BY <1>0, <2>2, <2>3, FS_RemoveElement DEF B
  <2>5. Cardinality(KeysOf(R)) \in Nat
    BY KeysCounted
  <2>6. r \in MapT /\ r.nnodes = w.nnodes - 1
    BY <2>1, <2>4, <2>5 DEF MapT, Sound
  <2>7. w.nnodes - 1 <= Len(R)
    BY <1>0, <1>1, <2>1 DEF B
  <2>8. MapOK(hash, r)
    BY <2>1, <2>4, <2>6, <2>7 DEF MapOK, R
  <2> QED
    BY <1>4, <2>1, <2>6, <2>8 DEF R, B
<1> QED
  BY <1>3, <1>4

---------------------------------------------------------------------------
(* The client *)

\* What count_t says of the map.
CountInv ==
  /\ count \in 0..(CountMod - 1) /\ drift \in 0..(CountMod - 1)
  /\ count = (m.nnodes + drift) % CountMod

IterInv ==
  /\ iter \in [bucketidx : Nat, node : Keys \cup {"none"}, on : BOOLEAN]
  /\ iter.node # "none" => iter.node \in KeysOf(m.buckets)
  /\ visited \in Seq(Keys)
  /\ stable \subseteq Keys
  /\ calm \in BOOLEAN

MapInv ==
  /\ hash \in [Keys -> Nat]
  /\ MapOK(hash, m)
  /\ CountInv
  /\ IterInv

\* A number has one remainder.
LEMMA ModUnique ==
  ASSUME NEW M \in Nat \ {0}, NEW a \in Int, NEW q \in Int, NEW s \in 0..(M - 1), a = M * q + s
  PROVE  a % M = s
<1> DEFINE l == a \div M
           u == a % M
<1>1. a = M * l + u /\ l \in Int /\ u \in 0..(M - 1)
  OBVIOUS
<1> HIDE DEF l, u
<1>2. M * (q - l) = u - s /\ q - l \in Int
  <2>1. M * q - M * l = M * (q - l) /\ q - l \in Int
    BY <1>1
  <2> QED
    BY <1>1, <2>1
<1>3. CASE q - l >= 1
  <2>1. M * (q - l) >= M
    BY <1>2, <1>3
  <2> QED
    BY <1>1, <1>2, <2>1
<1>4. CASE q - l <= -1
  <2>1. M * (q - l) <= -M
    BY <1>2, <1>4
  <2> QED
    BY <1>1, <1>2, <2>1
<1>5. CASE q - l = 0
  <2>1. u = s
    BY <1>1, <1>2, <1>5
  <2> QED
    BY <2>1 DEF u
<1> QED
  BY <1>2, <1>3, <1>4, <1>5

LEMMA ModType ==
  ASSUME NEW M \in Nat \ {0}, NEW a \in Int
  PROVE  a % M \in 0..(M - 1) /\ \E q \in Int : a = M * q + (a % M)
<1>1. a % M \in 0..(M - 1) /\ a \div M \in Int /\ a = M * (a \div M) + (a % M)
  OBVIOUS
<1> QED
  BY <1>1

\* A counter that wraps at every step is the sum that wraps once.
LEMMA ModAdd ==
  ASSUME NEW M \in Nat \ {0}, NEW a \in Int, NEW d \in Int
  PROVE  ((a % M) + d) % M = (a + d) % M
<1>1. PICK r \in 0..(M - 1), q \in Int : r = a % M /\ a = M * q + r
  BY ModType
<1>2. PICK b \in Int, c \in Int : b = r + d /\ c = a + d
  BY <1>1
<1>3. PICK s \in 0..(M - 1), p \in Int : b = M * p + s
  BY ModType
<1>4. b % M = s
  BY <1>3, ModUnique
<1>5. c = M * (q + p) + s /\ q + p \in Int
  <2>1. M * (q + p) = M * q + M * p /\ q + p \in Int
    OBVIOUS
  <2> QED
    BY <1>1, <1>2, <1>3, <2>1
<1>6. c % M = s
  BY <1>5, ModUnique
<1> QED
  BY <1>1, <1>2, <1>4, <1>6

LEMMA CountModType == CountMod \in Nat \ {0}
<1>1. Cardinality(Keys) \in Nat
  BY KeysAssumption, FS_CardinalityType
<1> QED
  BY <1>1, CountAssumption

\* count++ and count--: the difference to the number of nodes is followed.
LEMMA CountedIs ==
  ASSUME CountInv, NEW d \in {-1, 1}, NEW j \in {-1, 0, 1}, Counted(d, j),
         NEW n \in Nat, m.nnodes \in Nat, n = m.nnodes + j
  PROVE  /\ count' \in 0..(CountMod - 1) /\ drift' \in 0..(CountMod - 1)
         /\ count' = (n + drift') % CountMod
<1>1. PICK M \in Nat \ {0} : M = CountMod
  BY CountModType
<1>2. PICK a \in Nat, x \in Int, y \in Int :
        a = m.nnodes /\ x = drift /\ y = x + (d - j)
  BY <1>1 DEF CountInv
<1>3. count' = (((a + x) % M) + d) % M /\ drift' = y % M
  BY <1>1, <1>2 DEF CountInv, Counted
<1>4. a + x \in Int /\ d \in Int /\ n \in Int /\ (a + x) + d = y + n
  BY <1>2
<1>5. (((a + x) % M) + d) % M = ((a + x) + d) % M
  BY <1>4, ModAdd
<1>6. ((y % M) + n) % M = (y + n) % M
  BY <1>4, ModAdd
<1>7. y % M \in 0..(M - 1) /\ ((a + x) + d) % M \in 0..(M - 1)
  <2>1. (a + x) + d \in Int
    BY <1>4
  <2> QED
    BY <1>2, <2>1, ModType
<1>8. (y % M) + n = n + (y % M)
  BY <1>7
<1> QED
  BY <1>1, <1>3, <1>4, <1>5, <1>6, <1>7, <1>8

LEMMA EmptyOK ==
  ASSUME NEW h
  PROVE  MapOK(h, Map!Empty) /\ KeysOf(<<>>) = {} /\ Nodes(<<>>) = {}
<1>1. Nodes(<<>>) = {}
  BY DEF Nodes
<1>2. KeysOf(<<>>) = {}
  BY <1>1 DEF KeysOf
<1>3. Cardinality({}) = 0
  BY FS_EmptySet
<1>4. Sound(h, <<>>)
  BY DEF Sound
<1>5. PICK w : w = Map!Empty
  OBVIOUS
<1>6. w \in MapT /\ w.buckets = <<>> /\ w.nnodes = 0
  BY <1>5 DEF MapT, Map!Empty
<1>7. w.nnodes <= Len(w.buckets)
  BY <1>6
<1>8. MapOK(h, w)
  BY <1>2, <1>3, <1>4, <1>6, <1>7 DEF MapOK
<1> QED
  BY <1>1, <1>2, <1>5, <1>8

LEMMA MapInit == Init => MapInv
<1> SUFFICES ASSUME Init PROVE MapInv
  OBVIOUS
<1>1. hash \in [Keys -> Nat]
  BY HashesAssumption DEF Init
<1>2. MapOK(hash, m)
  BY EmptyOK DEF Init
<1>3. CountInv
  <2>1. PICK M \in Nat \ {0} : M = CountMod
    BY CountModType
  <2>2. 0 \in 0..(M - 1) /\ 0 % M = 0 /\ 0 + 0 = 0
    <3>1. 0 = M * 0 + 0 /\ 0 \in 0..(M - 1)
      OBVIOUS
    <3> QED
      BY <3>1, ModUnique
  <2>3. m.nnodes = 0 /\ count = 0 /\ drift = 0
    BY DEF Init, Map!Empty
  <2> QED
    BY <2>1, <2>2, <2>3 DEF CountInv
<1>4. IterInv
  BY DEF Init, IterInv, Unused
<1> QED
  BY <1>1, <1>2, <1>3, <1>4 DEF MapInv

\* What a set and a removal do to the map and its counter.
LEMMA SetStep ==
  ASSUME MapInv, NEW key \in Keys, NEW value \in Values, Set(key, value)
  PROVE  /\ MapOK(hash, m') /\ CountInv'
         /\ Nodes(m'.buckets) = WithNode(Nodes(m.buckets), key, value)
         /\ Map!Has(m, key) \/ ~Map!Grows(m) =>
              /\ Len(m'.buckets) = Len(m.buckets)
              /\ SameOrderIn(m'.buckets, m.buckets)
<1>1. PICK w, r : w = m /\ r = m'
  OBVIOUS
<1>2. hash \in [Keys -> Nat] /\ MapOK(hash, w)
  BY <1>1 DEF MapInv
<1>3. r = Map!map_set_(w, key, value)
  BY <1>1 DEF Set
<1>4. /\ MapOK(hash, r)
      /\ r.nnodes = IF Map!Has(w, key) THEN w.nnodes ELSE w.nnodes + 1
      /\ Nodes(r.buckets) = WithNode(Nodes(w.buckets), key, value)
      /\ Map!Has(w, key) \/ ~Map!Grows(w) =>
           /\ Len(r.buckets) = Len(w.buckets)
           /\ SameOrderIn(r.buckets, w.buckets)
  BY <1>2, <1>3, SetIs
<1>5. r.nnodes \in Nat /\ r.nnodes < CountMod /\ w.nnodes \in Nat
  BY <1>2, <1>4, KeysCounted DEF MapOK
<1>6. PICK j \in {-1, 0, 1} : j = IF Map!Has(w, key) THEN 0 ELSE 1
  OBVIOUS
<1>7. Counted(1, j)
  BY <1>1, <1>6 DEF Set
<1>8. r.nnodes = w.nnodes + j
  BY <1>4, <1>5, <1>6
<1>9. CountInv /\ m.nnodes = w.nnodes
  BY <1>1 DEF MapInv
<1>10. /\ count' \in 0..(CountMod - 1) /\ drift' \in 0..(CountMod - 1)
       /\ count' = (r.nnodes + drift') % CountMod
  BY <1>5, <1>7, <1>8, <1>9, CountedIs
<1>11. CountInv'
  BY <1>1, <1>10 DEF CountInv
<1> QED
  BY <1>1, <1>4, <1>11

LEMMA DeleteStep ==
  ASSUME MapInv, NEW key \in Keys, Delete(key)
  PROVE  /\ MapOK(hash, m') /\ CountInv'
         /\ Nodes(m'.buckets) = {x \in Nodes(m.buckets) : x.key # key}
         /\ Len(m'.buckets) = Len(m.buckets)
         /\ OrderWithout(m'.buckets, m.buckets, key)
<1>1. PICK w, r : w = m /\ r = m'
  OBVIOUS
<1>2. hash \in [Keys -> Nat] /\ MapOK(hash, w)
  BY <1>1 DEF MapInv
<1>3. r = Map!map_remove_(w, key)
  BY <1>1 DEF Delete
<1>4. /\ MapOK(hash, r)
      /\ r.nnodes = IF Map!Has(w, key) THEN w.nnodes - 1 ELSE w.nnodes
      /\ Nodes(r.buckets) = {x \in Nodes(w.buckets) : x.key # key}
      /\ Len(r.buckets) = Len(w.buckets)
      /\ OrderWithout(r.buckets, w.buckets, key)
  BY <1>2, <1>3, RemovedIs
<1>5. r.nnodes \in Nat /\ r.nnodes < CountMod /\ w.nnodes \in Nat
  BY <1>2, <1>4, KeysCounted DEF MapOK
<1>6. PICK j \in {-1, 0, 1} : j = IF Map!Has(w, key) THEN -1 ELSE 0
  OBVIOUS
<1>7. Counted(-1, j)
  BY <1>1, <1>6 DEF Delete
<1>8. r.nnodes = w.nnodes + j
  BY <1>4, <1>5, <1>6
<1>9. CountInv /\ m.nnodes = w.nnodes
  BY <1>1 DEF MapInv
<1>10. /\ count' \in 0..(CountMod - 1) /\ drift' \in 0..(CountMod - 1)
       /\ count' = (r.nnodes + drift') % CountMod
  BY <1>5, <1>7, <1>8, <1>9, CountedIs
<1>11. CountInv'
  BY <1>1, <1>10 DEF CountInv
<1> QED
  BY <1>1, <1>4, <1>11

\* A set that fails, with or without a resize that got no memory.
LEMMA RefusedStep ==
  ASSUME MapInv, NEW key \in Keys, SetNoNode(key) \/ SetNoBuckets(key)
  PROVE  /\ MapOK(hash, m') /\ CountInv' /\ Len(m'.buckets) = Len(m.buckets)
         /\ Nodes(m'.buckets) = Nodes(m.buckets)
         /\ SameOrder(m'.buckets, m.buckets)
<1>1. PICK w, r : w = m /\ r = m'
  OBVIOUS
<1>2. hash \in [Keys -> Nat] /\ MapOK(hash, w)
  BY <1>1 DEF MapInv
<1>3. /\ MapOK(hash, r) /\ Len(r.buckets) = Len(w.buckets)
      /\ Nodes(r.buckets) = Nodes(w.buckets) /\ r.nnodes = w.nnodes
      /\ SameOrder(r.buckets, w.buckets)
  <2>1. CASE SetNoNode(key)
    BY <1>1, <1>2, <2>1 DEF SetNoNode, SameOrder
  <2>2. CASE SetNoBuckets(key)
    <3>1. PICK n : n = Len(w.buckets)
      OBVIOUS
    <3>2. n \in Nat /\ Len(w.buckets) <= n
      <4> DEFINE B == w.buckets
      <4>1. B \in Seq(Seq(NodeT))
        BY <1>2 DEF MapOK, Sound
      <4> HIDE DEF B
      <4>2. Len(B) \in Nat
        BY <4>1
      <4> QED
        BY <3>1, <4>2 DEF B
    <3>3. r = Map!map_resize(w, n)
      BY <1>1, <2>2, <3>1 DEF SetNoBuckets
    <3> QED
      <4>1. /\ MapOK(hash, r) /\ Len(r.buckets) = n /\ r.nnodes = w.nnodes
            /\ Nodes(r.buckets) = Nodes(w.buckets) /\ KeysOf(r.buckets) = KeysOf(w.buckets)
            /\ n = Len(w.buckets) => SameOrder(r.buckets, w.buckets)
        BY <1>2, <3>2, <3>3, ResizedIs
      <4> QED
        BY <3>1, <4>1
  <2> QED
    BY <2>1, <2>2
<1>4. Counted(1, 0)
  BY DEF SetNoNode, SetNoBuckets
<1>5. r.nnodes \in Nat /\ r.nnodes < CountMod /\ w.nnodes \in Nat
  BY <1>2, <1>3, KeysCounted DEF MapOK
<1>6. r.nnodes = w.nnodes + 0
  BY <1>3, <1>5
<1>9. CountInv /\ m.nnodes = w.nnodes
  BY <1>1 DEF MapInv
<1>10. /\ count' \in 0..(CountMod - 1) /\ drift' \in 0..(CountMod - 1)
       /\ count' = (r.nnodes + drift') % CountMod
  BY <1>4, <1>5, <1>6, <1>9, CountedIs
<1>11. CountInv'
  BY <1>1, <1>10 DEF CountInv
<1> QED
  BY <1>1, <1>3, <1>11

\* The keys that a lookup finds.
LEMMA PresentIs == MapInv => Present = KeysOf(m.buckets)
<1> SUFFICES ASSUME MapInv PROVE Present = KeysOf(m.buckets)
  OBVIOUS
<1>1. PICK w : w = m
  OBVIOUS
<1>2. hash \in [Keys -> Nat] /\ Sound(hash, w.buckets)
  BY <1>1 DEF MapInv, MapOK
<1>3. \A k \in Keys : Map!Has(w, k) <=> k \in KeysOf(w.buckets)
  BY <1>2, GetRefIs
<1>4. KeysOf(w.buckets) \subseteq Keys
  BY DEF KeysOf
<1> QED
  BY <1>1, <1>3, <1>4 DEF Present

\* Nothing is behind the iterator before its first node.
LEMMA NotAfter ==
  ASSUME NEW h, NEW B, Sound(h, B), NEW a, a = "none"
  PROVE  \A k : ~After(B, a, k)
<1> SUFFICES ASSUME NEW k, After(B, a, k) PROVE FALSE
  OBVIOUS
<1>1. /\ a \in KeysOf(B) /\ k \in KeysOf(B) /\ a # k
      /\ Idx(h, a, Len(B)) = Idx(h, k, Len(B))
  BY AfterIn
<1> QED
  BY <1>1, KeysAssumption DEF KeysOf

\* t starts with the first key after a, if there is one.
Rest(B, a, t) ==
  /\ t = <<>> => \A k : ~After(B, a, k)
  /\ t # <<>> => /\ t[1] \in Nodes(B) /\ After(B, a, t[1].key)
                 /\ \A k : After(B, a, k) => k = t[1].key \/ After(B, t[1].key, k)

\* The rest of a chain behind place p does.
LEMMA RestOrder ==
  ASSUME NEW h, NEW B, Sound(h, B), NEW b \in 1..Len(B), NEW p \in 1..Len(B[b]),
         NEW a, a = B[b][p].key, NEW t \in Seq(NodeT), Len(t) = Len(B[b]) - p,
         \A i \in 1..(Len(B[b]) - p) : t[i] = B[b][p + i]
  PROVE  Rest(B, a, t)
<1> DEFINE s == B[b]
<1>0. s \in Seq(NodeT) /\ Len(s) \in Nat /\ p \in Nat /\ p <= Len(s) /\ p \in 1..Len(s)
  <2>1. s \in Seq(NodeT)
    BY DEF Sound
  <2> QED
    BY <2>1
<1>1. s[p].key = a
  OBVIOUS
<1>2. \A i, j \in 1..Len(s) : s[i].key = s[j].key => i = j
  BY DEF Sound
<1>3. \A i \in 1..Len(s) : Idx(h, s[i].key, Len(B)) = b
  BY DEF Sound
<1>4. \A i, j \in 1..Len(s) : i < j => After(B, s[i].key, s[j].key)
  BY DEF After, Before
<1>5. \A i \in 1..Len(s) : s[i] \in NodeT => s[i] \in Nodes(B)
  BY DEF Nodes
<1>6. ASSUME NEW k, After(B, a, k) PROVE \E j \in 1..Len(s) : p < j /\ s[j].key = k
  <2>1. PICK d \in 1..Len(B) : Before(B[d], a, k)
    BY <1>6 DEF After
  <2>2. PICK i, j \in 1..Len(B[d]) : i < j /\ B[d][i].key = a /\ B[d][j].key = k
    BY <2>1 DEF Before
  <2>3. d = b
    <3>1. Idx(h, a, Len(B)) = d
      BY <2>2 DEF Sound
    <3>2. Idx(h, a, Len(B)) = b
      BY <1>0, <1>1, <1>3
    <3> QED
      BY <3>1, <3>2
  <2>4. i = p
    BY <1>0, <1>1, <1>2, <2>2, <2>3
  <2> QED
    BY <2>2, <2>3, <2>4
<1>7. /\ Len(t) = Len(s) - p /\ t \in Seq(NodeT)
      /\ \A i \in 1..(Len(s) - p) : t[i] = s[p + i]
  OBVIOUS
<1> HIDE DEF s
<1>8. ASSUME t = <<>>, NEW k, After(B, a, k) PROVE FALSE
  <2>1. Len(s) = p
    BY <1>0, <1>7, <1>8
  <2>2. PICK j \in 1..Len(s) : p < j
    BY <1>6, <1>8
  <2> QED
    BY <1>0, <2>1, <2>2
<1>9. ASSUME t # <<>>
      PROVE  /\ t[1] \in Nodes(B) /\ After(B, a, t[1].key)
             /\ \A k : After(B, a, k) => k = t[1].key \/ After(B, t[1].key, k)
  <2>1. p + 1 \in 1..Len(s) /\ p < p + 1 /\ 1 \in 1..(Len(s) - p)
    BY <1>0, <1>7, <1>9
  <2>2. t[1] = s[p + 1] /\ s[p + 1] \in NodeT
    BY <1>0, <1>7, <2>1
  <2>3. t[1] \in Nodes(B) /\ After(B, a, t[1].key)
    BY <1>0, <1>1, <1>4, <1>5, <2>1, <2>2
  <2>4. ASSUME NEW k, After(B, a, k) PROVE k = t[1].key \/ After(B, t[1].key, k)
    <3>1. PICK j \in 1..Len(s) : p < j /\ s[j].key = k
      BY <1>6, <2>4
    <3>2. j = p + 1 \/ p + 1 < j
      BY <1>0, <3>1
    <3> QED
      BY <1>4, <2>1, <2>2, <3>1, <3>2
  <2> QED
    BY <2>3, <2>4
<1> QED
  BY <1>8, <1>9 DEF Rest

\* The nodes behind the iterator are those after it.
LEMMA BehindOrder ==
  ASSUME MapInv, NEW B, B = m.buckets, NEW a, a = iter.node
  PROVE  Rest(B, a, Behind)
<1>0. hash \in [Keys -> Nat] /\ Sound(hash, B)
  BY DEF MapInv, MapOK
<1>1. CASE a = "none"
  <2>1. Behind = <<>>
    BY <1>1 DEF Behind
  <2>2. \A k : ~After(B, a, k)
    BY <1>0, <1>1, NotAfter
  <2> QED
    BY <2>1, <2>2 DEF Rest
<1>2. CASE a # "none"
  <2>1. PICK w : w = m
    OBVIOUS
  <2>2. a \in Keys /\ a \in KeysOf(w.buckets) /\ Sound(hash, w.buckets)
    BY <1>0, <1>2, <2>1 DEF MapInv, IterInv, KeysOf
  <2>3. Found(w, a)
    BY <1>0, <2>2, GetRefIs
  <2>4. PICK b, p : b = Map!Bucket(w, a) /\ p = Place(w, a)
    OBVIOUS
  <2>5. b \in 1..Len(B) /\ p \in 1..Len(B[b]) /\ B[b][p].key = a
    BY <2>1, <2>3, <2>4 DEF Found
  <2>6. PICK t : t = SubSeq(B[b], p + 1, Len(B[b]))
    OBVIOUS
  <2>7. Behind = t
    BY <1>2, <2>1, <2>4, <2>6 DEF Behind, Place
  <2>8. /\ SubSeq(B[b], p + 1, Len(B[b])) \in Seq(NodeT)
        /\ Len(SubSeq(B[b], p + 1, Len(B[b]))) = Len(B[b]) - p
        /\ \A i \in 1..(Len(B[b]) - p) : SubSeq(B[b], p + 1, Len(B[b]))[i] = B[b][p + i]
    <3>1. PICK s : s = B[b]
      OBVIOUS
    <3>2. s \in Seq(NodeT)
      BY <1>0, <2>5, <3>1 DEF Sound
    <3>3. p \in Nat /\ Len(s) \in Nat /\ p <= Len(s)
      BY <2>5, <3>1, <3>2
    <3>4. /\ SubSeq(s, p + 1, Len(s)) \in Seq(NodeT)
          /\ Len(SubSeq(s, p + 1, Len(s))) = Len(s) - p
          /\ \A i \in 1..(Len(s) - p) : SubSeq(s, p + 1, Len(s))[i] = s[p + i]
      BY <3>2, <3>3, Segment
    <3> QED
      BY <3>1, <3>4
  <2>9. /\ t \in Seq(NodeT) /\ Len(t) = Len(B[b]) - p
        /\ \A i \in 1..(Len(B[b]) - p) : t[i] = B[b][p + i]
    BY <2>6, <2>8
  <2>10. Rest(B, a, t)
    BY <1>0, <2>5, <2>9, RestOrder
  <2> QED
    BY <2>7, <2>10
<1> QED
  BY <1>1, <1>2

\* Such a node belongs to the map.
LEMMA BehindIs ==
  ASSUME MapInv, Behind # <<>>
  PROVE  /\ iter.node \in KeysOf(m.buckets)
         /\ First(Behind) \in Nodes(m.buckets)
<1>1. PICK B, a : B = m.buckets /\ a = iter.node
  OBVIOUS
<1>2. Rest(B, a, Behind)
  BY <1>1, BehindOrder
<1>3. a # "none"
  BY <1>1 DEF Behind
<1> QED
  BY <1>1, <1>2, <1>3 DEF Rest, First, MapInv, IterInv

\* The first node of a bucket is one.
LEMMA FirstIs ==
  ASSUME MapInv, NEW b \in NonEmpty
  PROVE  b \in Nat /\ First(m.buckets[b]) \in Nodes(m.buckets)
<1>1. PICK B : B = m.buckets
  OBVIOUS
<1>2. B \in Seq(Seq(NodeT))
  BY <1>1 DEF MapInv, MapOK, Sound
<1>3. iter.bucketidx \in Nat
  BY DEF MapInv, IterInv
<1>4. b \in (iter.bucketidx + 1)..Len(B) /\ B[b] # <<>>
  BY <1>1 DEF NonEmpty
<1>5. b \in 1..Len(B)
  BY <1>2, <1>3, <1>4
<1> DEFINE s == B[b]
<1>6. s \in Seq(NodeT) /\ s # <<>>
  BY <1>2, <1>4, <1>5
<1> HIDE DEF s
<1>7. 1 \in 1..Len(s) /\ s[1] \in NodeT
  BY <1>6
<1>8. s[1] \in Nodes(B)
  BY <1>5, <1>7 DEF Nodes, s
<1> QED
  BY <1>1, <1>5, <1>8 DEF First, s

LEMMA MapNext == MapInv /\ [Next]_vars => MapInv'
<1> SUFFICES ASSUME MapInv, [Next]_vars PROVE MapInv'
  OBVIOUS
<1>0. hash \in [Keys -> Nat] /\ MapOK(hash, m) /\ CountInv /\ IterInv
  BY DEF MapInv
<1>1. ASSUME NEW key \in Keys, NEW value \in Values, Set(key, value) PROVE MapInv'
  <2>1. /\ MapOK(hash, m') /\ CountInv'
        /\ Nodes(m'.buckets) = WithNode(Nodes(m.buckets), key, value)
        /\ Map!Has(m, key) \/ ~Map!Grows(m) =>
             /\ Len(m'.buckets) = Len(m.buckets)
             /\ SameOrderIn(m'.buckets, m.buckets)
    BY <1>1, SetStep
  <2>2. hash' = hash /\ iter' = iter /\ visited' = visited /\ stable' = stable
    BY <1>1 DEF Set
  <2>3. calm' \in BOOLEAN
    BY <1>0, <1>1 DEF Set, IterInv
  <2>4. KeysOf(m.buckets) \subseteq KeysOf(m'.buckets)
    <3> SUFFICES ASSUME NEW k \in KeysOf(m.buckets) PROVE k \in KeysOf(m'.buckets)
      OBVIOUS
    <3>1. PICK x \in Nodes(m.buckets) : x.key = k /\ k \in Keys
      BY DEF KeysOf
    <3>2. CASE k = key
      <4>1. Map!Node(key, value) \in Nodes(m'.buckets) /\ Map!Node(key, value).key = key
        BY <2>1 DEF WithNode, Map!Node
      <4> QED
        BY <3>1, <3>2, <4>1 DEF KeysOf
    <3>3. CASE k # key
      <4>1. x \in Nodes(m'.buckets)
        BY <2>1, <3>1, <3>3 DEF WithNode
      <4> QED
        BY <3>1, <4>1 DEF KeysOf
    <3> QED
      BY <3>2, <3>3
  <2>5. IterInv'
    BY <1>0, <2>2, <2>3, <2>4 DEF IterInv
  <2> QED
    BY <1>0, <2>1, <2>2, <2>5 DEF MapInv
<1>2. ASSUME NEW key \in Keys, SetNoNode(key) \/ SetNoBuckets(key) PROVE MapInv'
  <2>1. /\ MapOK(hash, m') /\ CountInv' /\ Len(m'.buckets) = Len(m.buckets)
        /\ Nodes(m'.buckets) = Nodes(m.buckets)
        /\ SameOrder(m'.buckets, m.buckets)
    BY <1>2, RefusedStep
  <2>2. hash' = hash /\ UNCHANGED ivars
    BY <1>2 DEF SetNoNode, SetNoBuckets
  <2>3. KeysOf(m'.buckets) = KeysOf(m.buckets)
    BY <2>1 DEF KeysOf
  <2>4. IterInv'
    BY <1>0, <2>2, <2>3 DEF IterInv, ivars
  <2> QED
    BY <1>0, <2>1, <2>2, <2>4 DEF MapInv
<1>3. ASSUME NEW key \in Keys, Delete(key) PROVE MapInv'
  <2>1. /\ MapOK(hash, m') /\ CountInv'
        /\ Nodes(m'.buckets) = {x \in Nodes(m.buckets) : x.key # key}
        /\ Len(m'.buckets) = Len(m.buckets)
        /\ OrderWithout(m'.buckets, m.buckets, key)
    BY <1>3, DeleteStep
  <2>2. hash' = hash
    BY <1>3 DEF Delete
  <2>3. IterInv'
    <3>1. CASE GiveUp
      BY <3>1 DEF GiveUp, Unused, IterInv
    <3>2. CASE iter.node # key /\ stable' = stable \ {key} /\ UNCHANGED <<iter, visited, calm>>
      <4>1. iter.node # "none" => iter.node \in KeysOf(m'.buckets)
        <5> SUFFICES ASSUME iter.node # "none" PROVE iter.node \in KeysOf(m'.buckets)
          OBVIOUS
        <5>1. PICK x \in Nodes(m.buckets) : x.key = iter.node /\ iter.node \in Keys
          BY <1>0 DEF IterInv, KeysOf
        <5>2. x \in Nodes(m'.buckets)
          BY <2>1, <3>2, <5>1
        <5> QED
          BY <5>1, <5>2 DEF KeysOf
      <4> QED
        BY <1>0, <3>2, <4>1 DEF IterInv
    <3> QED
      BY <1>3, <3>1, <3>2 DEF Delete
  <2> QED
    BY <1>0, <2>1, <2>2, <2>3 DEF MapInv
<1>4. ASSUME NEW b \in Nat, NEW node \in Nodes(m.buckets), Visit(b, node) PROVE MapInv'
  <2>1. node \in NodeT /\ node.key \in Keys /\ node.key \in KeysOf(m.buckets)
    BY DEF Nodes, NodeT, KeysOf
  <2>2. UNCHANGED <<hash, m, count, stable, calm, drift>>
    BY <1>4 DEF Visit
  <2>3. iter' = [iter EXCEPT !.bucketidx = b, !.node = node.key]
    BY <1>4 DEF Visit
  <2>4. iter' \in [bucketidx : Nat, node : Keys \cup {"none"}, on : BOOLEAN] /\ iter'.node = node.key
    BY <1>0, <2>1, <2>3 DEF IterInv
  <2>5. visited' \in Seq(Keys)
    BY <1>0, <1>4, <2>1 DEF Visit, IterInv
  <2>6. IterInv'
    BY <1>0, <2>1, <2>2, <2>4, <2>5 DEF IterInv
  <2> QED
    BY <1>0, <2>2, <2>6 DEF MapInv, CountInv
<1>5. CASE map_iter
  <2>1. Present \subseteq Keys
    BY DEF Present
  <2>2. iter' = [bucketidx |-> 0, node |-> "none", on |-> TRUE]
    BY <1>5 DEF map_iter, Unused
  <2>3. /\ iter' \in [bucketidx : Nat, node : Keys \cup {"none"}, on : BOOLEAN]
        /\ iter'.node = "none"
    BY <2>2
  <2>4. visited' \in Seq(Keys) /\ stable' \subseteq Keys /\ calm' \in BOOLEAN
    BY <1>5, <2>1 DEF map_iter
  <2>5. IterInv'
    BY <2>3, <2>4 DEF IterInv
  <2> QED
    BY <1>0, <1>5, <2>5 DEF map_iter, MapInv, CountInv
<1>6. CASE NextInChain
  <2>1. First(Behind) \in Nodes(m.buckets) /\ iter.bucketidx \in Nat
    BY <1>0, <1>6, BehindIs DEF NextInChain, IterInv
  <2>2. Visit(iter.bucketidx, First(Behind))
    BY <1>6 DEF NextInChain
  <2>3. PICK b, x : b = iter.bucketidx /\ x = First(Behind)
    OBVIOUS
  <2> QED
    BY <1>4, <2>1, <2>2, <2>3
<1>7. CASE NextBucket
  <2>0. NonEmpty # {} /\ NonEmpty \subseteq Nat
    BY <1>7, FirstIs DEF NextBucket
  <2>1. \E b \in NonEmpty : \A c \in NonEmpty : b <= c
    BY <2>0, LeastNat
  <2>2. PICK b \in NonEmpty : Visit(b, First(m.buckets[b]))
    BY <1>7, <2>1 DEF NextBucket
  <2>3. PICK x : x = First(m.buckets[b])
    OBVIOUS
  <2> QED
    BY <1>4, <2>2, <2>3, FirstIs
<1>8. CASE NextEnds
  <2>1. IterInv'
    BY <1>8 DEF NextEnds, GiveUp, Unused, IterInv
  <2> QED
    BY <1>0, <1>8, <2>1 DEF NextEnds, MapInv, CountInv
<1>9. CASE UNCHANGED vars
  BY <1>0, <1>9 DEF vars, ivars, MapInv, CountInv, IterInv
<1> QED
  BY <1>1, <1>2, <1>3, <1>5, <1>6, <1>7, <1>8, <1>9 DEF Next

(***************************************************************************)
(* Every node is in the bucket of its key and no key has two nodes,        *)
(* nnodes counts the keys and never exceeds the buckets, and an iterator   *)
(* is at a node that the map has: map_set_, map_remove_ and map_resize     *)
(* keep this, also where an allocation fails.                              *)
(***************************************************************************)
THEOREM MapInvariant == Spec => []MapInv
BY MapInit, MapNext, PTL DEF Spec

---------------------------------------------------------------------------
(* The order of the keys *)

LEMMA OrderIs ==
  ASSUME NEW h, NEW w, MapOK(h, w), NEW order, order = Map!Order(w)
  PROVE  /\ DOMAIN order = 1..Len(order) /\ Len(order) = w.nnodes
         /\ Map!IsInjective(order)
         /\ Map!Range(order) = KeysOf(w.buckets)
<1> DEFINE B == w.buckets
           s == Map!FlattenSeq(B)
           n == Len(B)
<1>0. Sound(h, B) /\ B \in Seq(Seq(NodeT)) /\ w.nnodes = Cardinality(KeysOf(B))
  BY DEF MapOK, Sound
<1> HIDE DEF B
<1>1. s \in Seq(NodeT)
  BY <1>0, FlattenLists
<1>2. PICK u, v : Lists(s, B, n, u, v)
  BY <1>0, FlattenLists
<1>3. /\ u \in [1..Len(s) -> 1..n]
      /\ \A i \in 1..Len(s) : v[i] \in 1..Len(B[u[i]]) /\ s[i] = B[u[i]][v[i]]
      /\ \A i, k \in 1..Len(s) : u[i] = u[k] /\ i < k => v[i] < v[k]
      /\ \A b \in 1..n : \A j \in 1..Len(B[b]) : \E i \in 1..Len(s) : u[i] = b /\ v[i] = j
  BY <1>2 DEF Lists
<1>4. order = [i \in 1..Len(s) |-> s[i].key]
  BY DEF Map!Order, B
<1> HIDE DEF s
<1>5. Len(s) \in Nat /\ DOMAIN order = 1..Len(s) /\ \A i \in 1..Len(s) : order[i] = s[i].key
  BY <1>1, <1>4
<1>6. ASSUME NEW i \in 1..Len(s)
      PROVE  u[i] \in 1..n /\ v[i] \in 1..Len(B[u[i]]) /\ s[i] = B[u[i]][v[i]]
  BY <1>3
<1>7. ASSUME NEW i \in 1..Len(s), NEW k \in 1..Len(s), s[i].key = s[k].key PROVE i = k
  <2>1. \A q \in 1..Len(s) : u[q] = Idx(h, s[q].key, n)
    <3> TAKE q \in 1..Len(s)
    <3> DEFINE b == u[q]
               j == v[q]
    <3>1. b \in 1..n /\ j \in 1..Len(B[b]) /\ s[q] = B[b][j]
      BY <1>6
    <3> HIDE DEF b, j
    <3>2. b = Idx(h, s[q].key, n)
      BY <1>0, <3>1 DEF Sound
    <3> QED
      BY <3>2 DEF b
  <2>2. u[i] = u[k]
    BY <1>7, <2>1
  <2> DEFINE b == u[i]
             a == v[i]
             c == v[k]
  <2>3. b \in 1..n /\ a \in 1..Len(B[b]) /\ c \in 1..Len(B[b]) /\ s[i] = B[b][a] /\ s[k] = B[b][c]
    BY <1>6, <2>2
  <2> HIDE DEF a, b, c
  <2>4. a = c
    BY <1>0, <1>7, <2>3 DEF Sound
  <2> QED
    BY <1>2, <2>2, <2>4, ListedOnce DEF a, c
<1>8. Map!IsInjective(order)
  BY <1>5, <1>7 DEF Map!IsInjective
<1>9. Map!Range(order) = KeysOf(B)
  <2>1. ASSUME NEW i \in 1..Len(s) PROVE s[i].key \in KeysOf(B)
    <3>1. s[i] \in NodeT
      BY <1>1
    <3>2. s[i] \in Nodes(B) /\ s[i].key \in Keys
      BY <1>6, <3>1 DEF Nodes, NodeT
    <3> QED
      BY <3>2 DEF KeysOf
  <2>2. ASSUME NEW k \in KeysOf(B) PROVE \E i \in 1..Len(s) : s[i].key = k
    <3>1. PICK x \in Nodes(B) : x.key = k
      BY DEF KeysOf
    <3>2. PICK b \in 1..n : \E j \in 1..Len(B[b]) : B[b][j] = x
      BY DEF Nodes
    <3>3. PICK j \in 1..Len(B[b]) : B[b][j] = x
      BY <3>2
    <3>4. PICK i \in 1..Len(s) : u[i] = b /\ v[i] = j
      BY <1>3
    <3> QED
      BY <1>6, <3>1, <3>3, <3>4
  <2> QED
    BY <1>5, <2>1, <2>2 DEF Map!Range
<1>10. Cardinality(KeysOf(B)) = Len(s)
  <2>1. order \in Bijection(1..Len(s), KeysOf(B))
    <3>1. order \in [1..Len(s) -> KeysOf(B)]
      BY <1>4, <1>5, <1>9 DEF Map!Range
    <3>2. \A i, k \in 1..Len(s) : order[i] = order[k] => i = k
      BY <1>5, <1>7
    <3>3. \A k \in KeysOf(B) : \E i \in 1..Len(s) : order[i] = k
      BY <1>5, <1>9 DEF Map!Range
    <3> QED
      BY <3>1, <3>2, <3>3 DEF Bijection, Injection, Surjection, IsInjective
  <2>2. ExistsBijection(1..Len(s), KeysOf(B))
    BY <2>1 DEF ExistsBijection
  <2>3. IsFiniteSet(1..Len(s)) /\ Cardinality(1..Len(s)) = Len(s)
    <3> DEFINE l == Len(s)
    <3>1. 1 \in Int /\ l \in Int /\ l \in Nat
      BY <1>5
    <3> HIDE DEF l
    <3>2. IsFiniteSet(1..l) /\ Cardinality(1..l) = IF 1 > l THEN 0 ELSE l - 1 + 1
      BY <3>1, FS_Interval
    <3>3. IsFiniteSet(1..l) /\ Cardinality(1..l) = l
      BY <3>1, <3>2
    <3> QED
      BY <3>3 DEF l
  <2>4. IsFiniteSet(KeysOf(B)) /\ Cardinality(KeysOf(B)) = Cardinality(1..Len(s))
    BY <2>2, <2>3, FS_Bijection
  <2> QED
    BY <2>3, <2>4
<1>11. Len(order) = Len(s)
  BY <1>4, <1>5
<1> QED
  BY <1>0, <1>5, <1>8, <1>9, <1>10, <1>11 DEF B

(***************************************************************************)
(* What the client holds of a map: chains of nodes with keys and values,   *)
(* and an iterator.                                                        *)
(***************************************************************************)
LEMMA TypesSound == MapInv => TypeOK
<1> SUFFICES ASSUME MapInv PROVE TypeOK
  OBVIOUS
<1>1. m.buckets \in Seq(Seq(NodeT)) /\ m.nnodes \in Nat
  BY DEF MapInv, MapOK, MapT
<1>2. \A i \in 1..Len(m.buckets) : m.buckets[i] \in Seq([key : Keys, value : Values])
  <2>1. PICK B : B = m.buckets
    OBVIOUS
  <2>2. \A i \in 1..Len(B) : B[i] \in Seq(NodeT)
    BY <1>1, <2>1
  <2> QED
    BY <2>1, <2>2 DEF NodeT
<1> QED
  BY <1>1, <1>2 DEF TypeOK, MapInv, CountInv, IterInv

THEOREM SpecTypeOK == Spec => []TypeOK
BY MapInvariant, TypesSound, PTL

(***************************************************************************)
(* map_getref finds every node of the chains, no key has two, and nnodes   *)
(* counts them and never exceeds the buckets, also after map_resize was    *)
(* refused.                                                                *)
(***************************************************************************)
LEMMA OrderSound == MapInv => ChainsSound
<1> SUFFICES ASSUME MapInv PROVE ChainsSound
  OBVIOUS
<1>1. PICK w, h, order : w = m /\ h = hash /\ order = Map!Order(w)
  OBVIOUS
<1>2. MapOK(h, w)
  BY <1>1 DEF MapInv
<1>3. /\ Len(order) = w.nnodes /\ Map!IsInjective(order) /\ Map!Range(order) = KeysOf(w.buckets)
  BY <1>1, <1>2, OrderIs
<1>4. w.nnodes <= Len(w.buckets)
  BY <1>2 DEF MapOK
<1>5. Present = KeysOf(w.buckets)
  BY <1>1, PresentIs
<1> QED
  BY <1>1, <1>3, <1>4, <1>5 DEF ChainsSound, IsInjective, Range, Map!IsInjective, Map!Range

THEOREM SpecChainsSound == Spec => []ChainsSound
BY MapInvariant, OrderSound, PTL

(***************************************************************************)
(* The count that elf_gen.c writes into the headers is the number of       *)
(* nodes, plus one for every map_set that replaced a value or failed, and  *)
(* less one for every map_remove of a key that was not there.              *)
(***************************************************************************)
THEOREM SpecCountExact == Spec => []CountExact
<1>1. MapInv => CountExact
  BY DEF MapInv, CountInv, CountExact
<1> QED
  BY <1>1, MapInvariant, PTL

---------------------------------------------------------------------------
(* The map implements its promise *)

Content == [k \in Present |-> Map!map_get_(m, k)]

NodeKeys(N) == {x.key : x \in N}

\* C has the keys of the nodes N, with their values.
Shows(C, N) ==
  /\ C = [k \in NodeKeys(N) |-> C[k]]
  /\ \A x \in N : C[x.key] = x.value

LEMMA ContentIs == MapInv => Shows(Content, Nodes(m.buckets))
<1> SUFFICES ASSUME MapInv PROVE Shows(Content, Nodes(m.buckets))
  OBVIOUS
<1>1. Present = KeysOf(m.buckets)
  BY PresentIs
<1>2. \A x \in Nodes(m.buckets) : x.key \in Keys
  BY DEF Nodes, NodeT
<1>3. KeysOf(m.buckets) = NodeKeys(Nodes(m.buckets))
  BY <1>2 DEF KeysOf, NodeKeys
<1>4. ASSUME NEW x \in Nodes(m.buckets) PROVE Content[x.key] = x.value
  <2>1. PICK w, k : w = m /\ k = x.key
    OBVIOUS
  <2>2. hash \in [Keys -> Nat] /\ Sound(hash, w.buckets) /\ k \in Keys
    BY <1>2, <2>1 DEF MapInv, MapOK
  <2>3. k \in KeysOf(w.buckets)
    BY <2>1, <2>2 DEF KeysOf
  <2>4. Found(w, k)
    BY <2>2, <2>3, GetRefIs
  <2>5. x \in Nodes(w.buckets) /\ x.key = k
    BY <2>1
  <2>6. /\ w.buckets[Map!Bucket(w, k)][Place(w, k)] = x
        /\ Map!map_get_(w, k) = x.value
    BY <2>2, <2>4, <2>5, FoundIs
  <2> QED
    BY <1>1, <2>1, <2>3, <2>6 DEF Content
<1>5. DOMAIN Content = NodeKeys(Nodes(m.buckets)) /\ Content = [k \in DOMAIN Content |-> Content[k]]
  BY <1>1, <1>3 DEF Content
<1> QED
  BY <1>4, <1>5 DEF Shows

LEMMA ShowsSame ==
  ASSUME NEW N, NEW C, NEW D, Shows(C, N), Shows(D, N)
  PROVE  D = C
<1>1. \A k \in NodeKeys(N) : C[k] = D[k]
  BY DEF NodeKeys, Shows
<1>2. C = [k \in NodeKeys(N) |-> C[k]] /\ D = [k \in NodeKeys(N) |-> D[k]]
  BY DEF Shows
<1>3. [k \in NodeKeys(N) |-> C[k]] = [k \in NodeKeys(N) |-> D[k]]
  BY <1>1
<1> QED
  BY <1>2, <1>3, Zenon

LEMMA ShowsSet ==
  ASSUME NEW N, NEW key, NEW value, NEW C, NEW D, Shows(C, N),
         Shows(D, WithNode(N, key, value))
  PROVE  D = [k \in DOMAIN C \cup {key} |-> IF k = key THEN value ELSE C[k]]
<1> DEFINE M == WithNode(N, key, value)
           E == [k \in DOMAIN C \cup {key} |-> IF k = key THEN value ELSE C[k]]
<1>1. DOMAIN C = NodeKeys(N)
  BY DEF Shows
<1>2. Map!Node(key, value).key = key /\ Map!Node(key, value).value = value
  BY DEF Map!Node
<1>3. NodeKeys(M) = NodeKeys(N) \cup {key}
  BY <1>2 DEF NodeKeys, WithNode
<1>4. Shows(E, M)
  <2>1. DOMAIN E = NodeKeys(M)
    BY <1>1, <1>3
  <2>2. \A x \in M : E[x.key] = x.value
    <3> TAKE x \in M
    <3>1. CASE x.key = key
      <4>1. x = Map!Node(key, value)
        BY <3>1 DEF WithNode
      <4> QED
        BY <1>2, <3>1, <4>1
    <3>2. CASE x.key # key
      <4>1. x \in N
        BY <1>2, <3>2 DEF WithNode
      <4>2. C[x.key] = x.value /\ x.key \in DOMAIN C
        BY <1>1, <4>1 DEF Shows, NodeKeys
      <4> QED
        BY <3>2, <4>2
    <3> QED
      BY <3>1, <3>2
  <2>3. E = [k \in DOMAIN E |-> E[k]]
    OBVIOUS
  <2> HIDE DEF E, M
  <2> QED
    BY <2>1, <2>2, <2>3 DEF Shows
<1> HIDE DEF E
<1>5. D = E
  BY <1>4, ShowsSame DEF M
<1> QED
  BY <1>5 DEF E

LEMMA ShowsRemove ==
  ASSUME NEW N, NEW key, NEW C, NEW D, Shows(C, N),
         Shows(D, {x \in N : x.key # key})
  PROVE  D = [k \in DOMAIN C \ {key} |-> C[k]]
<1> DEFINE M == {x \in N : x.key # key}
           E == [k \in DOMAIN C \ {key} |-> C[k]]
<1>1. DOMAIN C = NodeKeys(N)
  BY DEF Shows
<1>3. NodeKeys(M) = NodeKeys(N) \ {key}
  BY DEF NodeKeys
<1>4. Shows(E, M)
  <2>1. DOMAIN E = NodeKeys(M)
    BY <1>1, <1>3
  <2>2. \A x \in M : E[x.key] = x.value
    BY <1>1 DEF Shows, NodeKeys
  <2>3. E = [k \in DOMAIN E |-> E[k]]
    OBVIOUS
  <2> HIDE DEF E, M
  <2> QED
    BY <2>1, <2>2, <2>3 DEF Shows
<1> HIDE DEF E
<1>5. D = E
  BY <1>4, ShowsSame DEF M
<1> QED
  BY <1>5 DEF E

LEMMA MapInitImplements == Init => Abstract!Init
<1> SUFFICES ASSUME Init PROVE Content = [k \in {} |-> k]
  BY DEF Abstract!Init, Content
<1>1. Present = {}
  BY DEF Present, Init, Map!Has, Map!map_getref, Map!Empty
<1> QED
  BY <1>1 DEF Content

LEMMA MapStepImplements ==
  MapInv /\ MapInv' /\ [Next]_vars => [Abstract!Next]_Content
<1> SUFFICES ASSUME MapInv, MapInv', [Next]_vars PROVE [Abstract!Next]_Content
  OBVIOUS
<1>1. Shows(Content, Nodes(m.buckets))
  BY ContentIs
<1>2. Shows(Content', Nodes(m'.buckets))
  <2>1. (MapInv => Shows(Content, Nodes(m.buckets)))'
    BY ContentIs, PTL
  <2>2. (Shows(Content, Nodes(m.buckets)))' <=> Shows(Content', Nodes(m'.buckets))
    BY DEF Shows, Nodes, NodeKeys, NodeT
  <2> QED
    BY <2>1, <2>2
<1>3. PICK C, D, N, M : C = Content /\ D = Content' /\ N = Nodes(m.buckets) /\ M = Nodes(m'.buckets)
  OBVIOUS
<1>4. Shows(C, N) /\ Shows(D, M)
  BY <1>1, <1>2, <1>3
<1>5. ASSUME NEW key \in Keys, NEW value \in Values, Set(key, value) PROVE Abstract!Next
  <2>1. M = WithNode(N, key, value)
    BY <1>3, <1>5, SetStep
  <2>2. D = [k \in DOMAIN C \cup {key} |-> IF k = key THEN value ELSE C[k]]
    BY <1>4, <2>1, ShowsSet
  <2>3. Content' = [k \in DOMAIN Content \cup {key} |-> IF k = key THEN value ELSE Content[k]]
    BY <1>3, <2>2
  <2> QED
    BY <2>3 DEF Abstract!Next, Abstract!Set, Content
<1>6. ASSUME NEW key \in Keys, Delete(key) PROVE Abstract!Next
  <2>1. M = {x \in N : x.key # key}
    BY <1>3, <1>6, DeleteStep
  <2>2. D = [k \in DOMAIN C \ {key} |-> C[k]]
    BY <1>4, <2>1, ShowsRemove
  <2>3. Content' = [k \in DOMAIN Content \ {key} |-> Content[k]]
    BY <1>3, <2>2
  <2> QED
    BY <2>3 DEF Abstract!Next, Abstract!Remove, Content
<1>7. ASSUME M = N PROVE Content' = Content
  BY <1>3, <1>4, <1>7, ShowsSame
<1>8. ASSUME NEW key \in Keys, SetNoNode(key) \/ SetNoBuckets(key) PROVE Content' = Content
  BY <1>3, <1>7, <1>8, RefusedStep
<1>9. ASSUME map_iter \/ NextInChain \/ NextBucket \/ NextEnds \/ UNCHANGED vars
      PROVE  Content' = Content
  <2>1. m' = m
    BY <1>9 DEF map_iter, NextInChain, NextBucket, NextEnds, Visit, vars
  <2> QED
    BY <1>3, <1>7, <2>1
<1> QED
  BY <1>5, <1>6, <1>8, <1>9 DEF Next

(***************************************************************************)
(* Through every resize, failed allocation, replacement and removal, a     *)
(* lookup (map_getref) finds exactly the keys that were set and not        *)
(* removed, with their last values.                                        *)
(***************************************************************************)
THEOREM SpecImplementsMap == Spec => ImplementsMap
<1>1. MapInv /\ MapInv' /\ [Next]_vars => [Abstract!Next]_([k \in Present |-> Map!map_get_(m, k)])
  BY MapStepImplements DEF Content
<1> QED
  BY MapInitImplements, <1>1, MapInvariant, PTL DEF Spec, ImplementsMap, Abstract!Spec

---------------------------------------------------------------------------
(* The iteration *)

\* While no resize moves the nodes, what was visited is not ahead of the
\* iterator, and what was there all the time is visited or ahead.
IterOrder ==
  /\ ~iter.on => iter.node = "none" /\ visited = <<>>
  /\ calm => IsInjective(visited)
  /\ calm /\ iter.on =>
       /\ IF iter.node = "none" THEN iter.bucketidx = 0
          ELSE iter.bucketidx = Idx(hash, iter.node, Len(m.buckets))
       /\ \A k \in Range(visited) : /\ Idx(hash, k, Len(m.buckets)) <= iter.bucketidx
                                    /\ ~After(m.buckets, iter.node, k)
       /\ \A k \in stable : /\ k \in KeysOf(m.buckets)
                            /\ \/ k \in Range(visited)
                               \/ Idx(hash, k, Len(m.buckets)) > iter.bucketidx
                               \/ After(m.buckets, iter.node, k)

\* The first node of a bucket is before the others there.
LEMMA FirstOrder ==
  ASSUME NEW h, NEW B, Sound(h, B), NEW b \in 1..Len(B), B[b] # <<>>, NEW x, x = B[b][1]
  PROVE  /\ x \in Nodes(B) /\ Idx(h, x.key, Len(B)) = b
         /\ \A k \in KeysOf(B) : Idx(h, k, Len(B)) = b => k = x.key \/ After(B, x.key, k)
<1> DEFINE s == B[b]
<1>0. s \in Seq(NodeT) /\ s # <<>> /\ s[1] = x
  BY DEF Sound
<1>1. \A j \in 1..Len(s) : Before(s, x.key, s[j].key) => After(B, x.key, s[j].key)
  BY DEF After
<1>2. \A i \in 1..Len(s) : Idx(h, s[i].key, Len(B)) = b
  BY DEF Sound
<1>3. \A i \in 1..Len(s) : s[i] \in NodeT => s[i] \in Nodes(B)
  BY DEF Nodes
<1>4. ASSUME NEW k \in KeysOf(B), Idx(h, k, Len(B)) = b PROVE \E j \in 1..Len(s) : s[j].key = k
  <2>1. PICK y \in Nodes(B) : y.key = k
    BY DEF KeysOf
  <2>2. y \in NodeT
    BY DEF Nodes
  <2> QED
    BY <1>4, <2>1, <2>2, ChainNodes
<1> HIDE DEF s
<1>5. 1 \in 1..Len(s) /\ x \in NodeT
  BY <1>0
<1>6. ASSUME NEW k \in KeysOf(B), Idx(h, k, Len(B)) = b, k # x.key PROVE After(B, x.key, k)
  <2>1. PICK j \in 1..Len(s) : s[j].key = k
    BY <1>4, <1>6
  <2>2. j # 1
    BY <1>0, <1>6, <2>1
  <2>3. 1 < j
    BY <1>0, <2>2
  <2> QED
    BY <1>0, <1>1, <1>5, <2>1, <2>3 DEF Before
<1> QED
  BY <1>0, <1>2, <1>3, <1>5, <1>6

\* The client changes the map, and the iterator stays where it is.
LEMMA OrderKept ==
  ASSUME IterOrder, hash' = hash, UNCHANGED <<iter, visited>>, calm' => calm,
         calm' /\ iter.on =>
           /\ Len(m'.buckets) = Len(m.buckets)
           /\ stable' \subseteq stable /\ stable' \subseteq KeysOf(m'.buckets)
           /\ \A k : After(m'.buckets, iter.node, k) => After(m.buckets, iter.node, k)
           /\ \A k \in stable' : After(m.buckets, iter.node, k) => After(m'.buckets, iter.node, k)
  PROVE  IterOrder'
<1>1. ~iter'.on => iter'.node = "none" /\ visited' = <<>>
  BY DEF IterOrder
<1>2. calm' => IsInjective(visited')
  BY DEF IterOrder
<1>3. ASSUME calm', iter'.on
      PROVE  /\ IF iter'.node = "none" THEN iter'.bucketidx = 0
                ELSE iter'.bucketidx = Idx(hash', iter'.node, Len(m'.buckets))
             /\ \A k \in Range(visited') : /\ Idx(hash', k, Len(m'.buckets)) <= iter'.bucketidx
                                           /\ ~After(m'.buckets, iter'.node, k)
             /\ \A k \in stable' : /\ k \in KeysOf(m'.buckets)
                                   /\ \/ k \in Range(visited')
                                      \/ Idx(hash', k, Len(m'.buckets)) > iter'.bucketidx
                                      \/ After(m'.buckets, iter'.node, k)
  BY <1>3 DEF IterOrder
<1>4. (\A k : Idx(hash, k, Len(m.buckets))' = Idx(hash', k, Len(m'.buckets)))
  BY DEF Idx
<1> QED
  BY <1>1, <1>2, <1>3 DEF IterOrder, After, Before, KeysOf, Nodes, NodeT, Range, IsInjective, Idx

LEMMA IterInit == Init => IterOrder
BY DEF Init, IterOrder, Unused, IsInjective

\* An iterator that is given up has visited nothing.
LEMMA GivenUp == GiveUp => IterOrder'
BY DEF GiveUp, Unused, IterOrder, IsInjective

\* map_next has returned a node of bucket b.
LEMMA OrderVisited ==
  ASSUME MapInv, MapInv', IterOrder, iter.on, NEW b, NEW x \in Nodes(m.buckets), Visit(b, x),
         calm => /\ Idx(hash, x.key, Len(m.buckets)) = b
                 /\ iter.bucketidx <= b
                 /\ x.key \notin Range(visited)
                 /\ \A k \in Range(visited) : ~After(m.buckets, x.key, k)
                 /\ \A k \in stable : \/ k \in Range(visited) \/ k = x.key
                                      \/ Idx(hash, k, Len(m.buckets)) > b
                                      \/ After(m.buckets, x.key, k)
  PROVE  IterOrder'
<1> DEFINE n == Len(m.buckets)
<1>0. /\ UNCHANGED <<hash, m, count, stable, calm, drift>> /\ visited' = Append(visited, x.key)
      /\ iter' = [iter EXCEPT !.bucketidx = b, !.node = x.key]
  BY DEF Visit
<1>1. /\ iter \in [bucketidx : Nat, node : Keys \cup {"none"}, on : BOOLEAN]
      /\ visited \in Seq(Keys) /\ hash \in [Keys -> Nat] /\ Sound(hash, m.buckets)
  BY DEF MapInv, IterInv, MapOK
<1>2. iter'.bucketidx = b /\ iter'.node = x.key /\ iter'.on = iter.on
  BY <1>0, <1>1
<1>3. x \in NodeT /\ x.key \in Keys /\ x.key # "none"
  BY KeysAssumption DEF Nodes, NodeT
<1>4. Range(visited') = Range(visited) \cup {x.key}
  <2>1. visited' \in Seq(Keys) /\ Len(visited') = Len(visited) + 1 /\ Len(visited) \in Nat
    BY <1>0, <1>1, <1>3
  <2>2. /\ visited'[Len(visited) + 1] = x.key
        /\ \A i \in 1..Len(visited) : visited'[i] = visited[i]
    BY <1>0, <1>1, <1>3
  <2>3. DOMAIN visited = 1..Len(visited) /\ DOMAIN visited' = 1..(Len(visited) + 1)
    BY <1>1, <2>1
  <2>4. \A i \in 1..(Len(visited) + 1) : i \in 1..Len(visited) \/ i = Len(visited) + 1
    BY <2>1
  <2>5. Len(visited) + 1 \in 1..(Len(visited) + 1) /\ 1..Len(visited) \subseteq 1..(Len(visited) + 1)
    BY <2>1
  <2> QED
    BY <2>2, <2>3, <2>4, <2>5 DEF Range
<1>5. calm => IsInjective(visited')
  <2> SUFFICES ASSUME calm, NEW i \in DOMAIN visited', NEW j \in DOMAIN visited',
                      visited'[i] = visited'[j]
               PROVE  i = j
    BY DEF IsInjective
  <2>1. visited' \in Seq(Keys) /\ Len(visited') = Len(visited) + 1 /\ Len(visited) \in Nat
    BY <1>0, <1>1, <1>3
  <2>2. /\ visited'[Len(visited) + 1] = x.key
        /\ \A p \in 1..Len(visited) : visited'[p] = visited[p]
    BY <1>0, <1>1, <1>3
  <2>3. DOMAIN visited = 1..Len(visited) /\ DOMAIN visited' = 1..(Len(visited) + 1)
    BY <1>1, <2>1
  <2>4. \A p \in 1..Len(visited) : visited[p] # x.key
    BY <2>3 DEF Range
  <2>5. \A p, q \in 1..Len(visited) : visited[p] = visited[q] => p = q
    BY <2>3 DEF IterOrder, IsInjective
  <2>6. \A p \in 1..(Len(visited) + 1) : p \in 1..Len(visited) \/ p = Len(visited) + 1
    BY <2>1
  <2> QED
    BY <2>2, <2>3, <2>4, <2>5, <2>6
<1>6. ASSUME calm PROVE \A k \in Range(visited') : Idx(hash, k, n) <= b /\ ~After(m.buckets, x.key, k)
  <2> SUFFICES ASSUME NEW k \in Range(visited')
               PROVE  Idx(hash, k, n) <= b /\ ~After(m.buckets, x.key, k)
    OBVIOUS
  <2>1. b \in Nat
    <3>1. InChain(hash, m.buckets, n, x)
      <4>1. PICK B : B = m.buckets
        OBVIOUS
      <4>2. InChain(hash, B, Len(B), x)
        BY <1>1, <4>1, NodeAt
      <4> QED
        BY <4>1, <4>2
    <3>2. Idx(hash, x.key, n) \in 1..n
      BY <3>1 DEF InChain
    <3>3. Idx(hash, x.key, n) = b
      BY <1>6
    <3> QED
      BY <3>2, <3>3
  <2>2. CASE k = x.key
    <3>1. ~After(m.buckets, x.key, x.key)
      <4>1. PICK B, a : B = m.buckets /\ a = x.key
        OBVIOUS
      <4>2. ~After(B, a, a)
        <5> SUFFICES ASSUME After(B, a, a) PROVE FALSE
          OBVIOUS
        <5>1. /\ a \in KeysOf(B) /\ a \in KeysOf(B) /\ a # a
              /\ Idx(hash, a, Len(B)) = Idx(hash, a, Len(B))
          BY <1>1, <4>1, AfterIn
        <5> QED
          BY <5>1
      <4> QED
        BY <4>1, <4>2
    <3> QED
      BY <1>6, <2>1, <2>2, <3>1
  <2>3. CASE k # x.key
    <3>1. k \in Range(visited)
      BY <1>4, <2>3
    <3>2. Idx(hash, k, n) <= iter.bucketidx /\ iter.bucketidx <= b /\ ~After(m.buckets, x.key, k)
      BY <1>6, <3>1 DEF IterOrder
    <3>3. k \in Keys
      BY <1>1, <3>1 DEF Range
    <3>4. Idx(hash, k, n) \in Nat
      <4>1. PICK B : B = m.buckets
        OBVIOUS
      <4>2. Len(B) \in Nat \ {0}
        <5>1. B \in Seq(Seq(NodeT))
          BY <1>1, <4>1 DEF Sound
        <5>2. Len(B) \in Nat
          BY <5>1
        <5>3. Len(B) # 0
          <6>1. InChain(hash, B, Len(B), x)
            BY <1>1, <4>1, NodeAt
          <6>2. Idx(hash, x.key, Len(B)) \in 1..Len(B)
            BY <6>1 DEF InChain
          <6> QED
            BY <5>2, <6>2
        <5> QED
          BY <5>2, <5>3
      <4>3. Idx(hash, k, Len(B)) \in 1..Len(B)
        BY <1>1, <3>3, <4>2, IdxIn
      <4> QED
        BY <4>1, <4>3
    <3>5. iter.bucketidx \in Nat
      BY <1>1
    <3> QED
      BY <2>1, <3>2, <3>4, <3>5
  <2> QED
    BY <2>2, <2>3
<1>7. ASSUME calm
      PROVE  \A k \in stable : /\ k \in KeysOf(m.buckets)
                               /\ \/ k \in Range(visited')
                                  \/ Idx(hash, k, n) > b
                                  \/ After(m.buckets, x.key, k)
  BY <1>4, <1>7 DEF IterOrder
<1>8. calm => Idx(hash, x.key, n) = b
  OBVIOUS
<1> HIDE DEF n
<1>9. /\ calm' = calm /\ m' = m /\ hash' = hash /\ stable' = stable
  BY <1>0
<1>10. /\ ~iter'.on => iter'.node = "none" /\ visited' = <<>>
       /\ calm' => IsInjective(visited')
  BY <1>2, <1>5, <1>9
<1>11. ASSUME calm', iter'.on
       PROVE  /\ IF iter'.node = "none" THEN iter'.bucketidx = 0
                 ELSE iter'.bucketidx = Idx(hash', iter'.node, Len(m'.buckets))
              /\ \A k \in Range(visited') : /\ Idx(hash', k, Len(m'.buckets)) <= iter'.bucketidx
                                            /\ ~After(m'.buckets, iter'.node, k)
              /\ \A k \in stable' : /\ k \in KeysOf(m'.buckets)
                                    /\ \/ k \in Range(visited')
                                       \/ Idx(hash', k, Len(m'.buckets)) > iter'.bucketidx
                                       \/ After(m'.buckets, iter'.node, k)
  BY <1>2, <1>3, <1>6, <1>7, <1>8, <1>9, <1>11 DEF n
<1> QED
  BY <1>10, <1>11 DEF IterOrder, After, Before, KeysOf, Nodes, NodeT, Range, IsInjective, Idx

\* A step of map_next inside a chain.
LEMMA OrderInChain ==
  ASSUME MapInv, MapInv', IterOrder, NextInChain
  PROVE  IterOrder'
<1>1. PICK B, a, t, x, b : /\ B = m.buckets /\ a = iter.node /\ b = iter.bucketidx
                           /\ t = Behind /\ x = First(t)
  OBVIOUS
<1>2. iter.on /\ t # <<>> /\ Visit(b, x)
  BY <1>1 DEF NextInChain
<1>3. Rest(B, a, t)
  <2>1. Rest(B, a, Behind)
    BY <1>1, BehindOrder
  <2> QED
    BY <1>1, <2>1
<1>4. /\ x \in Nodes(B) /\ After(B, a, x.key)
      /\ \A k : After(B, a, k) => k = x.key \/ After(B, x.key, k)
  BY <1>1, <1>2, <1>3 DEF Rest, First
<1>5. Sound(hash, B) /\ b \in Nat
  BY <1>1 DEF MapInv, MapOK, IterInv
<1>6. /\ a \in KeysOf(B) /\ x.key \in KeysOf(B) /\ a # x.key
      /\ Idx(hash, a, Len(B)) = Idx(hash, x.key, Len(B))
  BY <1>4, <1>5, AfterIn
<1>7. a # "none"
  BY <1>6, KeysAssumption DEF KeysOf
<1>8. ASSUME calm
      PROVE  /\ Idx(hash, x.key, Len(B)) = b
             /\ b <= b
             /\ x.key \notin Range(visited)
             /\ \A k \in Range(visited) : ~After(B, x.key, k)
             /\ \A k \in stable : \/ k \in Range(visited) \/ k = x.key
                                  \/ Idx(hash, k, Len(B)) > b
                                  \/ After(B, x.key, k)
  <2>1. /\ b = Idx(hash, a, Len(B))
        /\ \A k \in Range(visited) : ~After(B, a, k)
        /\ \A k \in stable : \/ k \in Range(visited)
                             \/ Idx(hash, k, Len(B)) > b
                             \/ After(B, a, k)
    BY <1>1, <1>2, <1>7, <1>8 DEF IterOrder
  <2>2. \A k \in Range(visited) : ~After(B, x.key, k)
    <3> SUFFICES ASSUME NEW k \in Range(visited), After(B, x.key, k) PROVE FALSE
      OBVIOUS
    <3>1. After(B, a, k)
      BY <1>4, <1>5, AfterTrans
    <3> QED
      BY <2>1, <3>1
  <2>3. b <= b
    BY <1>5
  <2> QED
    BY <1>4, <1>6, <2>1, <2>2, <2>3
<1> QED
  BY <1>1, <1>2, <1>4, <1>8, OrderVisited

\* A step of map_next to the first node of a later bucket.
LEMMA OrderNextBucket ==
  ASSUME MapInv, MapInv', IterOrder, NextBucket
  PROVE  IterOrder'
<1>0. NonEmpty # {} /\ NonEmpty \subseteq Nat
  BY FirstIs DEF NextBucket
<1>1. PICK b \in NonEmpty : \A c \in NonEmpty : b <= c
  BY <1>0, LeastNat
<1>2. \A c \in NonEmpty : (\A d \in NonEmpty : c <= d) => c = b
  BY <1>0, <1>1
<1>3. PICK B, a, x, f, n : /\ B = m.buckets /\ a = iter.node /\ f = iter.bucketidx
                           /\ x = B[b][1] /\ n = Len(B)
  OBVIOUS
<1>4. iter.on /\ Behind = <<>> /\ Visit(b, x)
  <2>1. \E c \in NonEmpty : (\A d \in NonEmpty : c <= d) /\ Visit(c, First(m.buckets[c]))
    BY <1>1 DEF NextBucket
  <2>2. Visit(b, First(m.buckets[b]))
    BY <1>2, <2>1
  <2> QED
    BY <1>3, <2>2 DEF First, NextBucket
<1>5. Sound(hash, B) /\ f \in Nat /\ hash \in [Keys -> Nat] /\ n \in Nat
  <2>1. Sound(hash, B) /\ f \in Nat /\ hash \in [Keys -> Nat]
    BY <1>3 DEF MapInv, MapOK, IterInv
  <2>2. B \in Seq(Seq(NodeT))
    BY <2>1 DEF Sound
  <2>3. Len(B) \in Nat
    BY <2>2
  <2> QED
    BY <1>3, <2>1, <2>3
<1>6. /\ b \in 1..n /\ f < b /\ B[b] # <<>>
      /\ \A c \in 1..n : B[c] # <<>> /\ f < c => b <= c
  BY <1>1, <1>3, <1>5 DEF NonEmpty
<1>7. /\ x \in Nodes(B) /\ Idx(hash, x.key, n) = b
      /\ \A k \in KeysOf(B) : Idx(hash, k, n) = b => k = x.key \/ After(B, x.key, k)
  <2>1. /\ x \in Nodes(B) /\ Idx(hash, x.key, Len(B)) = b
        /\ \A k \in KeysOf(B) : Idx(hash, k, Len(B)) = b => k = x.key \/ After(B, x.key, k)
    BY <1>3, <1>5, <1>6, FirstOrder
  <2> QED
    BY <1>3, <2>1
<1>8. \A k : ~After(B, a, k)
  <2>1. Rest(B, a, Behind)
    BY <1>3, BehindOrder
  <2> QED
    BY <1>4, <2>1 DEF Rest
<1>9. ASSUME NEW k \in KeysOf(B) PROVE Idx(hash, k, n) \in 1..n /\ B[Idx(hash, k, n)] # <<>>
  <2>1. PICK y \in Nodes(B) : y.key = k
    BY DEF KeysOf
  <2>2. InChain(hash, B, Len(B), y)
    BY <1>5, <2>1, NodeAt
  <2> QED
    BY <1>3, <2>1, <2>2 DEF InChain
<1>10. ASSUME calm
       PROVE  /\ Idx(hash, x.key, n) = b
              /\ f <= b
              /\ x.key \notin Range(visited)
              /\ \A k \in Range(visited) : ~After(B, x.key, k)
              /\ \A k \in stable : \/ k \in Range(visited) \/ k = x.key
                                   \/ Idx(hash, k, n) > b
                                   \/ After(B, x.key, k)
  <2>1. /\ \A k \in Range(visited) : Idx(hash, k, n) <= f
        /\ \A k \in stable : /\ k \in KeysOf(B)
                             /\ \/ k \in Range(visited)
                                \/ Idx(hash, k, n) > f
                                \/ After(B, a, k)
    BY <1>3, <1>4, <1>10 DEF IterOrder
  <2>2. x.key \notin Range(visited)
    BY <1>5, <1>6, <1>7, <2>1
  <2>3. ASSUME NEW k \in Range(visited), After(B, x.key, k) PROVE FALSE
    <3>1. /\ x.key \in KeysOf(B) /\ k \in KeysOf(B) /\ x.key # k
          /\ Idx(hash, x.key, Len(B)) = Idx(hash, k, Len(B))
      BY <1>5, <2>3, AfterIn
    <3>2. b <= f
      BY <1>3, <1>7, <2>1, <3>1
    <3> QED
      BY <1>5, <1>6, <3>2
  <2>4. ASSUME NEW k \in stable
        PROVE  \/ k \in Range(visited) \/ k = x.key
               \/ Idx(hash, k, n) > b
               \/ After(B, x.key, k)
    <3>1. CASE k \in Range(visited)
      BY <3>1
    <3>2. CASE k \notin Range(visited)
      <4>1. k \in KeysOf(B) /\ Idx(hash, k, n) > f
        BY <1>8, <2>1, <2>4, <3>2
      <4>2. PICK c \in 1..n : c = Idx(hash, k, n) /\ B[c] # <<>>
        BY <1>9, <4>1
      <4>3. b <= c
        BY <1>5, <1>6, <4>1, <4>2
      <4>4. c = b \/ c > b
        BY <1>5, <1>6, <4>3
      <4> QED
        BY <1>7, <4>1, <4>2, <4>4
    <3> QED
      BY <3>1, <3>2
  <2>5. f <= b
    BY <1>5, <1>6
  <2> QED
    BY <1>7, <2>1, <2>2, <2>3, <2>4, <2>5
<1> QED
  BY <1>3, <1>4, <1>7, <1>10, OrderVisited

LEMMA IterNext == MapInv /\ MapInv' /\ IterOrder /\ [Next]_vars => IterOrder'
<1> SUFFICES ASSUME MapInv, MapInv', IterOrder, [Next]_vars PROVE IterOrder'
  OBVIOUS
<1>0. /\ hash \in [Keys -> Nat] /\ MapOK(hash, m) /\ MapOK(hash', m') /\ IterInv
      /\ Sound(hash, m.buckets) /\ Sound(hash', m'.buckets)
  BY DEF MapInv, MapOK
<1>1. ASSUME NEW key \in Keys, NEW value \in Values, Set(key, value) PROVE IterOrder'
  <2>1. /\ MapOK(hash, m') /\ CountInv'
        /\ Nodes(m'.buckets) = WithNode(Nodes(m.buckets), key, value)
        /\ Map!Has(m, key) \/ ~Map!Grows(m) =>
             /\ Len(m'.buckets) = Len(m.buckets)
             /\ SameOrderIn(m'.buckets, m.buckets)
    BY <1>1, SetStep
  <2>2. /\ hash' = hash /\ UNCHANGED <<iter, visited>> /\ stable' = stable
        /\ calm' = (calm /\ (iter.on => Map!Has(m, key) \/ ~Map!Grows(m)))
    BY <1>1 DEF Set
  <2>3. calm' => calm
    BY <2>2
  <2>4. ASSUME calm', iter.on
        PROVE  /\ Len(m'.buckets) = Len(m.buckets)
               /\ stable' \subseteq stable /\ stable' \subseteq KeysOf(m'.buckets)
               /\ \A k : After(m'.buckets, iter.node, k) => After(m.buckets, iter.node, k)
               /\ \A k \in stable' : After(m.buckets, iter.node, k) => After(m'.buckets, iter.node, k)
    <3>1. calm /\ Len(m'.buckets) = Len(m.buckets) /\ SameOrderIn(m'.buckets, m.buckets)
      BY <2>1, <2>2, <2>4
    <3>2. stable' \subseteq KeysOf(m'.buckets)
      <4> SUFFICES ASSUME NEW k \in stable PROVE k \in KeysOf(m'.buckets)
        BY <2>2
      <4>1. k \in KeysOf(m.buckets)
        BY <2>4, <3>1 DEF IterOrder
      <4>2. PICK x \in Nodes(m.buckets) : x.key = k /\ k \in Keys
        BY <4>1 DEF KeysOf
      <4>3. CASE k = key
        <5>1. Map!Node(key, value) \in Nodes(m'.buckets) /\ Map!Node(key, value).key = key
          BY <2>1 DEF WithNode, Map!Node
        <5> QED
          BY <4>2, <4>3, <5>1 DEF KeysOf
      <4>4. CASE k # key
        <5>1. x \in Nodes(m'.buckets)
          BY <2>1, <4>2, <4>4 DEF WithNode
        <5> QED
          BY <4>2, <5>1 DEF KeysOf
      <4> QED
        BY <4>3, <4>4
    <3>3. \A k : After(m'.buckets, iter.node, k) <=> After(m.buckets, iter.node, k)
      <4>1. CASE iter.node = "none"
        BY <1>0, <2>2, <4>1, NotAfter
      <4>2. CASE iter.node # "none"
        <5>1. iter.node \in KeysOf(m.buckets)
          BY <1>0, <4>2 DEF IterInv
        <5> QED
          BY <3>1, <5>1 DEF SameOrderIn
      <4> QED
        BY <4>1, <4>2
    <3> QED
      BY <2>2, <3>1, <3>2, <3>3
  <2> QED
    BY <2>2, <2>3, <2>4, OrderKept
<1>2. ASSUME NEW key \in Keys, SetNoNode(key) \/ SetNoBuckets(key) PROVE IterOrder'
  <2>1. /\ MapOK(hash, m') /\ CountInv' /\ Len(m'.buckets) = Len(m.buckets)
        /\ Nodes(m'.buckets) = Nodes(m.buckets)
        /\ SameOrder(m'.buckets, m.buckets)
    BY <1>2, RefusedStep
  <2>2. hash' = hash /\ UNCHANGED <<iter, visited>> /\ stable' = stable /\ calm' = calm
    BY <1>2 DEF SetNoNode, SetNoBuckets, ivars
  <2>3. calm' => calm
    BY <2>2
  <2>4. ASSUME calm', iter.on
        PROVE  /\ Len(m'.buckets) = Len(m.buckets)
               /\ stable' \subseteq stable /\ stable' \subseteq KeysOf(m'.buckets)
               /\ \A k : After(m'.buckets, iter.node, k) => After(m.buckets, iter.node, k)
               /\ \A k \in stable' : After(m.buckets, iter.node, k) => After(m'.buckets, iter.node, k)
    <3>1. KeysOf(m'.buckets) = KeysOf(m.buckets)
      BY <2>1 DEF KeysOf
    <3>2. stable \subseteq KeysOf(m.buckets)
      BY <2>2, <2>4 DEF IterOrder
    <3> QED
      BY <2>1, <2>2, <3>1, <3>2 DEF SameOrder
  <2> QED
    BY <2>2, <2>3, <2>4, OrderKept
<1>3. ASSUME NEW key \in Keys, Delete(key) PROVE IterOrder'
  <2>1. /\ MapOK(hash, m') /\ CountInv'
        /\ Nodes(m'.buckets) = {x \in Nodes(m.buckets) : x.key # key}
        /\ Len(m'.buckets) = Len(m.buckets)
        /\ OrderWithout(m'.buckets, m.buckets, key)
    BY <1>3, DeleteStep
  <2>2. CASE GiveUp
    BY <2>2, GivenUp
  <2>3. CASE iter.node # key /\ stable' = stable \ {key} /\ UNCHANGED <<iter, visited, calm>>
    <3>1. hash' = hash /\ UNCHANGED <<iter, visited>> /\ (calm' => calm)
      BY <1>3, <2>3 DEF Delete
    <3>2. ASSUME calm', iter.on
          PROVE  /\ Len(m'.buckets) = Len(m.buckets)
                 /\ stable' \subseteq stable /\ stable' \subseteq KeysOf(m'.buckets)
                 /\ \A k : After(m'.buckets, iter.node, k) => After(m.buckets, iter.node, k)
                 /\ \A k \in stable' : After(m.buckets, iter.node, k) => After(m'.buckets, iter.node, k)
      <4>1. ASSUME NEW k \in stable' PROVE k \in KeysOf(m'.buckets)
        <5>1. k \in KeysOf(m.buckets) /\ k # key
          BY <2>3, <3>1, <3>2, <4>1 DEF IterOrder
        <5>2. PICK x \in Nodes(m.buckets) : x.key = k /\ k \in Keys
          BY <5>1 DEF KeysOf
        <5>3. x \in Nodes(m'.buckets)
          BY <2>1, <5>1, <5>2
        <5> QED
          BY <5>2, <5>3 DEF KeysOf
      <4>2. stable' \subseteq stable /\ \A k \in stable' : k # key
        BY <2>3
      <4> QED
        BY <2>1, <2>3, <4>1, <4>2 DEF OrderWithout
    <3> QED
      BY <3>1, <3>2, OrderKept
  <2> QED
    BY <1>3, <2>2, <2>3 DEF Delete
<1>4. CASE map_iter
  <2>1. /\ iter' = [bucketidx |-> 0, node |-> "none", on |-> TRUE]
        /\ visited' = <<>> /\ stable' = KeysOf(m.buckets) /\ m' = m /\ hash' = hash
    BY <1>4, PresentIs DEF map_iter, Unused
  <2>2. /\ iter'.bucketidx = 0 /\ iter'.node = "none" /\ iter'.on
        /\ Range(visited') = {} /\ IsInjective(visited')
    BY <2>1 DEF Range, IsInjective
  <2>3. \A k \in KeysOf(m.buckets) : Idx(hash, k, Len(m.buckets)) > 0
    <3>1. PICK B : B = m.buckets
      OBVIOUS
    <3>2. ASSUME NEW k \in KeysOf(B) PROVE Idx(hash, k, Len(B)) > 0
      <4>1. PICK x \in Nodes(B) : x.key = k
        BY DEF KeysOf
      <4>2. InChain(hash, B, Len(B), x)
        BY <1>0, <3>1, NodeAt
      <4>3. Idx(hash, k, Len(B)) \in 1..Len(B)
        BY <4>1, <4>2 DEF InChain
      <4> QED
        BY <4>3
    <3> QED
      BY <3>1, <3>2
  <2>4. \A k \in stable' : k \in KeysOf(m'.buckets) /\ Idx(hash', k, Len(m'.buckets)) > iter'.bucketidx
    BY <2>1, <2>2, <2>3
  <2> QED
    BY <2>1, <2>2, <2>4 DEF IterOrder, After, Before, KeysOf, Nodes, NodeT, Range, IsInjective, Idx
<1>5. CASE NextInChain
  BY <1>5, OrderInChain
<1>6. CASE NextBucket
  BY <1>6, OrderNextBucket
<1>7. CASE NextEnds
  BY <1>7, GivenUp DEF NextEnds
<1>8. CASE UNCHANGED vars
  BY <1>8 DEF vars, ivars, IterOrder, After, Before, KeysOf, Nodes, NodeT, Range, IsInjective, Idx
<1> QED
  BY <1>1, <1>2, <1>3, <1>4, <1>5, <1>6, <1>7, <1>8 DEF Next

LEMMA MapIterOrder == Spec => [](MapInv /\ IterOrder)
<1>1. MapInv /\ IterOrder /\ [Next]_vars => MapInv' /\ IterOrder'
  BY MapNext, IterNext
<1> QED
  BY <1>1, MapInit, IterInit, PTL DEF Spec

LEMMA IterStep ==
  ASSUME MapInv, IterOrder, IterOrder', [Next]_vars
  PROVE  [calm => /\ NextEnds => stable \subseteq Range(visited)
                  /\ IsInjective(visited')]_vars
<1> SUFFICES ASSUME calm PROVE (NextEnds => stable \subseteq Range(visited)) /\ IsInjective(visited')
  OBVIOUS
<1>1. ASSUME NextEnds, NEW k \in stable PROVE k \in Range(visited)
  <2>1. iter.on /\ Behind = <<>> /\ NonEmpty = {}
    BY <1>1 DEF NextEnds
  <2>2. PICK B, a, f, n : B = m.buckets /\ a = iter.node /\ f = iter.bucketidx /\ n = Len(B)
    OBVIOUS
  <2>3. k \in KeysOf(B) /\ (k \in Range(visited) \/ Idx(hash, k, n) > f \/ After(B, a, k))
    BY <1>1, <2>1, <2>2 DEF IterOrder
  <2>4. ~After(B, a, k)
    <3>1. Rest(B, a, Behind)
      BY <2>2, BehindOrder
    <3> QED
      BY <2>1, <3>1 DEF Rest
  <2>5. ~(Idx(hash, k, n) > f)
    <3>1. Sound(hash, B) /\ f \in Nat
      BY <2>2 DEF MapInv, MapOK, IterInv
    <3>2. PICK y \in Nodes(B) : y.key = k
      BY <2>3 DEF KeysOf
    <3>3. InChain(hash, B, Len(B), y)
      BY <3>1, <3>2, NodeAt
    <3>4. PICK c : c = Idx(hash, k, n)
      OBVIOUS
    <3>5. c \in 1..n /\ B[c] # <<>>
      BY <2>2, <3>2, <3>3, <3>4 DEF InChain
    <3>6. \A d \in (f + 1)..n : B[d] = <<>>
      BY <2>1, <2>2 DEF NonEmpty
    <3>7. ~(c > f)
      BY <3>1, <3>5, <3>6
    <3> QED
      BY <3>4, <3>7
  <2> QED
    BY <2>3, <2>4, <2>5
<1>2. IsInjective(visited')
  <2>1. CASE calm'
    BY <2>1 DEF IterOrder
  <2>2. CASE ~calm'
    <3>1. visited' = visited
      BY <2>2 DEF Next, vars, ivars, Set, SetNoNode, SetNoBuckets, Delete, GiveUp, map_iter,
               NextInChain, NextBucket, Visit, NextEnds
    <3> QED
      BY <3>1 DEF IterOrder
  <2> QED
    BY <2>1, <2>2
<1> QED
  BY <1>1, <1>2

(***************************************************************************)
(* An iteration without a resize returns no key twice and has returned     *)
(* every key that stayed when map_next ends, however keys are set,         *)
(* replaced and removed in between: IterOrder says what of the chains the  *)
(* iterator has passed.                                                    *)
(***************************************************************************)
THEOREM SpecIterationComplete == Spec => IterationComplete
<1>1. MapInv /\ IterOrder /\ IterOrder' /\ [Next]_vars
      => [calm => /\ NextEnds => stable \subseteq Range(visited)
                  /\ IsInjective(visited')]_vars
  BY IterStep
<1> QED
  BY <1>1, MapIterOrder, PTL DEF Spec, IterationComplete
=============================================================================
