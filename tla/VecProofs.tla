------------------------------ MODULE VecProofs ----------------------------
(***************************************************************************)
(* Proofs about the vectors and the allocation tracker behind them, for    *)
(* any vectors, elements, addresses, sizes and bounds: each operation of   *)
(* dmt.h keeps all nodes in one list, linked both ways, and within its     *)
(* limits vec.h keeps the contents of every vector, stays inside its       *)
(* storage, and uses no more memory than the vectors have room for.        *)
(***************************************************************************)
EXTENDS Vec, WellFoundedInduction, SequenceTheorems, FiniteSetTheorems, TLAPS

---------------------------------------------------------------------------
(* Numbers and sequences *)

LessThan == {pair \in Nat \X Nat : pair[1] < pair[2]}

(***************************************************************************)
(* Every set of natural numbers that is not empty has a least element.     *)
(* Applied to the set of counterexamples, this is induction.               *)
(***************************************************************************)
LEMMA LeastNat ==
  ASSUME NEW T, T \subseteq Nat, T # {}
  PROVE  \E x \in T : \A y \in T : x <= y
<1>1. IsWellFoundedOn(LessThan, Nat)
  BY NatLessThanWellFounded DEF OpToRel, LessThan
<1>2. PICK x \in T : \A y \in T : <<y, x>> \notin LessThan
  BY <1>1, WFMin, Zenon
<1>3. \A y \in T : ~(y < x)
  BY <1>2 DEF LessThan
<1> QED
  BY <1>3

\* A part of a sequence.
LEMMA Segment ==
  ASSUME NEW T, NEW s \in Seq(T), NEW a \in Nat, NEW b \in Nat, a <= b, b <= Len(s)
  PROVE  /\ SubSeq(s, a + 1, b) \in Seq(T)
         /\ Len(SubSeq(s, a + 1, b)) = b - a
         /\ \A i \in 1..(b - a) : SubSeq(s, a + 1, b)[i] = s[a + i]
<1>1. \A i \in (a + 1)..b : s[i] \in T
  OBVIOUS
<1>2. b - (a + 1) + 1 = b - a /\ \A i \in 1..(b - a) : (a + 1) + i - 1 = a + i
  OBVIOUS
<1> QED
  BY <1>1, <1>2, SubSeqProperties

\* The first elements of a sequence.
LEMMA Prefix ==
  ASSUME NEW T, NEW s \in Seq(T), NEW b \in Nat, b <= Len(s)
  PROVE  /\ SubSeq(s, 1, b) \in Seq(T)
         /\ Len(SubSeq(s, 1, b)) = b
         /\ \A i \in 1..b : SubSeq(s, 1, b)[i] = s[i]
BY Segment, 0 + 1 = 1, b - 0 = b, \A i \in 1..b : 0 + i = i

---------------------------------------------------------------------------
(* The list of dmt.h *)

Links == Addr \cup {NULL}

NodeType == [prev : Links, next : Links, size : Nat]

(***************************************************************************)
(* ord[1], ..., ord[n] are the nodes of ns, each once, in the order of the *)
(* links, and h is the first.                                              *)
(***************************************************************************)
Ordered(ns, h, ord, n) ==
  /\ ord \in [1..n -> DOMAIN ns]
  /\ \A i, j \in 1..n : ord[i] = ord[j] => i = j
  /\ \A a \in DOMAIN ns : \E i \in 1..n : ord[i] = a
  /\ h = IF n = 0 THEN NULL ELSE ord[1]
  /\ \A i \in 1..n : ns[ord[i]].next = IF i = n THEN NULL ELSE ord[i + 1]
  /\ \A i \in 1..n : ns[ord[i]].prev = IF i = 1 THEN NULL ELSE ord[i - 1]

\* The nodes are in one list.
Chain(ns, h) ==
  /\ DOMAIN ns \subseteq Addr
  /\ ns \in [DOMAIN ns -> NodeType]
  /\ \E n \in Nat : \E ord \in [1..n -> DOMAIN ns] : Ordered(ns, h, ord, n)

---------------------------------------------------------------------------
(* The operations *)

\* _dmt_alloc puts the new node in front.
LEMMA AllocKeeps ==
  ASSUME Chain(nodes, dmt_head), NEW node \in Free, NEW size \in Nat, dmt_alloc(node, size)
  PROVE  Chain(nodes', dmt_head') /\ DOMAIN nodes' = DOMAIN nodes \cup {node}
<1>1. PICK n \in Nat : \E ord \in [1..n -> DOMAIN nodes] : Ordered(nodes, dmt_head, ord, n)
  BY DEF Chain
<1>2. PICK ord \in [1..n -> DOMAIN nodes] : Ordered(nodes, dmt_head, ord, n)
  BY <1>1
<1> DEFINE D == DOMAIN nodes
           new == [i \in 1..(n + 1) |-> IF i = 1 THEN node ELSE ord[i - 1]]
<1>3. node \in Addr /\ node \notin D /\ D \subseteq Addr /\ NULL \notin Addr
  BY AddrAssumption DEF Free, Chain
<1>4. nodes \in [D -> NodeType]
  BY DEF Chain
<1>5. /\ DOMAIN nodes' = D \cup {node}
      /\ nodes'[node] = Node(NULL, dmt_head, size)
      /\ \A a \in D : nodes'[a] = IF a = dmt_head THEN [nodes[a] EXCEPT !.prev = node] ELSE nodes[a]
      /\ dmt_head' = node
      /\ nodes' = [a \in D \cup {node} |-> nodes'[a]]
  BY <1>3 DEF dmt_alloc
<1>6. dmt_head \in Links
  BY <1>2, <1>3 DEF Ordered, Links
<1>7. nodes' \in [D \cup {node} -> NodeType]
  <2>1. nodes'[node] \in NodeType
    BY <1>5, <1>6 DEF Node, NodeType, Links
  <2>2. \A a \in D : nodes'[a] \in NodeType
    <3> SUFFICES ASSUME NEW a \in D PROVE nodes'[a] \in NodeType
      OBVIOUS
    <3>1. nodes[a] \in NodeType /\ node \in Links
      BY <1>3, <1>4 DEF Links
    <3>2. [nodes[a] EXCEPT !.prev = node] \in NodeType
      BY <3>1 DEF NodeType
    <3> QED
      BY <1>5, <3>1, <3>2
  <2> HIDE DEF D
  <2> QED
    BY <1>5, <2>1, <2>2
<1>8. \A a \in D : nodes'[a].next = nodes[a].next
                   /\ nodes'[a].prev = IF a = dmt_head THEN node ELSE nodes[a].prev
  BY <1>4, <1>5 DEF NodeType
<1>9. nodes'[node].prev = NULL /\ nodes'[node].next = dmt_head
  BY <1>5 DEF Node
<1>10. /\ new \in [1..(n + 1) -> D \cup {node}]
       /\ new[1] = node
       /\ \A i \in 2..(n + 1) : new[i] = ord[i - 1] /\ i - 1 \in 1..n /\ new[i] \in D
  OBVIOUS
<1>11. Ordered(nodes', dmt_head', new, n + 1)
  <2> HIDE DEF new, D
  <2> USE DEF Ordered
  <2>1. \A i, j \in 1..(n + 1) : new[i] = new[j] => i = j
    BY <1>2, <1>3, <1>10
  <2>2. \A a \in D \cup {node} : \E i \in 1..(n + 1) : new[i] = a
    <3> SUFFICES ASSUME NEW a \in D PROVE \E i \in 1..(n + 1) : new[i] = a
      BY <1>10
    <3>1. PICK i \in 1..n : ord[i] = a
      BY <1>2 DEF D
    <3>2. i + 1 \in 2..(n + 1) /\ new[i + 1] = a
      BY <1>10, <3>1
    <3> QED
      BY <3>2
  <2>3. \A i \in 1..(n + 1) : nodes'[new[i]].next = IF i = n + 1 THEN NULL ELSE new[i + 1]
    <3>1. nodes'[new[1]].next = IF 1 = n + 1 THEN NULL ELSE new[2]
      BY <1>2, <1>9, <1>10
    <3>2. \A i \in 2..(n + 1) : nodes'[new[i]].next = IF i = n + 1 THEN NULL ELSE new[i + 1]
      BY <1>2, <1>8, <1>10
    <3> QED
      BY <3>1, <3>2
  <2>4. \A i \in 1..(n + 1) : nodes'[new[i]].prev = IF i = 1 THEN NULL ELSE new[i - 1]
    <3>1. \A i \in 2..(n + 1) : new[i] = dmt_head <=> i = 2
      BY <1>2, <1>10
    <3>2. n >= 1 => nodes'[new[2]].prev = new[1]
      BY <1>8, <1>10, <3>1
    <3>3. ASSUME NEW i \in 3..(n + 1) PROVE nodes'[new[i]].prev = new[i - 1]
      <4>1. i - 1 \in 2..(n + 1) /\ i - 1 \in 1..n /\ i - 1 # 1 /\ (i - 1) - 1 \in 1..n
        OBVIOUS
      <4>2. new[i] = ord[i - 1] /\ new[i] \in D /\ new[i] # dmt_head /\ new[i - 1] = ord[(i - 1) - 1]
        BY <1>10, <3>1, <4>1
      <4>3. nodes[ord[i - 1]].prev = ord[(i - 1) - 1]
        BY <1>2, <4>1
      <4> QED
        BY <1>8, <4>2, <4>3
    <3>4. ASSUME NEW i \in 1..(n + 1)
          PROVE  nodes'[new[i]].prev = IF i = 1 THEN NULL ELSE new[i - 1]
      <4>1. i = 1 \/ (i = 2 /\ n >= 1) \/ i \in 3..(n + 1)
        OBVIOUS
      <4> QED
        BY <1>9, <1>10, <3>2, <3>3, <4>1
    <3> QED
      BY <3>4
  <2> QED
    BY <1>5, <1>10, <2>1, <2>2, <2>3, <2>4
<1> HIDE DEF new
<1>12. D \cup {node} \subseteq Addr
  BY <1>3
<1> QED
  BY <1>5, <1>7, <1>10, <1>11, <1>12 DEF Chain

\* Where a neighbour of the j-th node is.
LEMMA Neighbours ==
  ASSUME NEW n \in Nat, NEW ord, Ordered(nodes, dmt_head, ord, n), DOMAIN nodes \subseteq Addr,
         NEW i \in 1..n, NEW j \in 1..n
  PROVE  /\ ord[i] = nodes[ord[j]].prev <=> i = j - 1
         /\ ord[i] = nodes[ord[j]].next <=> i = j + 1
         /\ ord[i] = dmt_head <=> i = 1
<1>1. ord[i] # NULL /\ n # 0
  BY AddrAssumption DEF Ordered
<1>2. \A k \in 1..n : ord[i] = ord[k] <=> i = k
  BY DEF Ordered
<1>3. ord[i] = nodes[ord[j]].prev <=> i = j - 1
  <2>1. CASE j = 1
    BY <1>1, <2>1 DEF Ordered
  <2>2. CASE j # 1
    <3>1. j - 1 \in 1..n /\ nodes[ord[j]].prev = ord[j - 1]
      BY <2>2 DEF Ordered
    <3> QED
      BY <1>2, <3>1
  <2> QED
    BY <2>1, <2>2
<1>4. ord[i] = nodes[ord[j]].next <=> i = j + 1
  <2>1. CASE j = n
    BY <1>1, <2>1 DEF Ordered
  <2>2. CASE j # n
    <3>1. j + 1 \in 1..n /\ nodes[ord[j]].next = ord[j + 1]
      BY <2>2 DEF Ordered
    <3> QED
      BY <1>2, <3>1
  <2> QED
    BY <2>1, <2>2
<1>5. ord[i] = dmt_head <=> i = 1
  BY <1>1, <1>2 DEF Ordered
<1> QED
  BY <1>3, <1>4, <1>5

\* _dmt_realloc puts the moved node in the place of the old one.
LEMMA ReallocKeeps ==
  ASSUME Chain(nodes, dmt_head), NEW old \in DOMAIN nodes, NEW node \in Free \cup {old},
         NEW size \in Nat, dmt_realloc(old, node, size)
  PROVE  /\ Chain(nodes', dmt_head')
         /\ DOMAIN nodes' = (DOMAIN nodes \ {old}) \cup {node}
<1>1. PICK n \in Nat : \E ord \in [1..n -> DOMAIN nodes] : Ordered(nodes, dmt_head, ord, n)
  BY DEF Chain
<1>2. PICK ord \in [1..n -> DOMAIN nodes] : Ordered(nodes, dmt_head, ord, n)
  BY <1>1
<1>3. PICK j \in 1..n : ord[j] = old
  BY <1>2 DEF Ordered
<1> DEFINE D   == DOMAIN nodes
           E   == (D \ {old}) \cup {node}
           new == [i \in 1..n |-> IF i = j THEN node ELSE ord[i]]
<1>4. D \subseteq Addr /\ node \in Addr /\ NULL \notin Addr /\ (node \in D => node = old)
  BY AddrAssumption DEF Free, Chain
<1>5. \A a \in D : nodes[a] \in NodeType
  BY DEF Chain
<1>6. /\ DOMAIN nodes' = E
      /\ nodes'[node] = [nodes[old] EXCEPT !.size = size]
      /\ \A a \in D \ {old} :
           nodes'[a] = [nodes[a] EXCEPT !.next = IF a = nodes[old].prev THEN node ELSE @,
                                        !.prev = IF a = nodes[old].next THEN node ELSE @]
      /\ dmt_head' = IF dmt_head = old THEN node ELSE dmt_head
      /\ nodes' = [a \in E |-> nodes'[a]]
  BY <1>4 DEF dmt_realloc
<1>7. /\ nodes'[node] \in NodeType
      /\ nodes'[node].prev = nodes[old].prev
      /\ nodes'[node].next = nodes[old].next
  <2>1. nodes[old] \in NodeType
    BY <1>5
  <2>2. [nodes[old] EXCEPT !.size = size] \in NodeType
    BY <2>1 DEF NodeType
  <2> QED
    BY <1>6, <2>1, <2>2 DEF NodeType
<1>8. ASSUME NEW a \in D \ {old}
      PROVE  /\ nodes'[a] \in NodeType
             /\ nodes'[a].next = IF a = nodes[old].prev THEN node ELSE nodes[a].next
             /\ nodes'[a].prev = IF a = nodes[old].next THEN node ELSE nodes[a].prev
  <2> DEFINE next == IF a = nodes[old].prev THEN node ELSE nodes[a].next
             prev == IF a = nodes[old].next THEN node ELSE nodes[a].prev
  <2>1. nodes[a] \in NodeType /\ node \in Links
    BY <1>4, <1>5 DEF Links
  <2>2. next \in Links /\ prev \in Links
    BY <2>1 DEF NodeType
  <2>3. nodes'[a] = [nodes[a] EXCEPT !.next = next, !.prev = prev]
    BY <1>6
  <2> HIDE DEF next, prev
  <2>4. nodes'[a] \in NodeType /\ nodes'[a].next = next /\ nodes'[a].prev = prev
    BY <2>1, <2>2, <2>3 DEF NodeType
  <2> QED
    BY <2>4 DEF next, prev
<1>9. nodes' \in [E -> NodeType]
  <2> HIDE DEF D
  <2>1. \A a \in E : nodes'[a] \in NodeType
    BY <1>7, <1>8
  <2> HIDE DEF E
  <2> QED
    BY <1>6, <2>1
<1>10. \A i \in 1..n : ord[i] \in D /\ (i # j => ord[i] # old /\ ord[i] # node)
  BY <1>2, <1>3, <1>4 DEF Ordered
<1>11. /\ new \in [1..n -> E]
       /\ new[j] = node
       /\ \A i \in 1..n : i # j => new[i] = ord[i]
  BY <1>10
<1>12. Ordered(nodes', dmt_head', new, n)
  <2> HIDE DEF new, D
  <2>1. \A i, k \in 1..n : new[i] = new[k] => i = k
    BY <1>2, <1>10, <1>11 DEF Ordered
  <2>2. ASSUME NEW a \in E PROVE \E i \in 1..n : new[i] = a
    <3>1. CASE a = node
      BY <1>11, <3>1
    <3>2. CASE a # node
      <4>1. PICK i \in 1..n : ord[i] = a
        BY <1>2, <3>2 DEF Ordered, D
      <4> QED
        BY <1>3, <1>11, <3>2, <4>1
    <3> QED
      BY <3>1, <3>2
  <2>3. n # 0 /\ dmt_head' = new[1]
    <3>1. dmt_head = ord[1] /\ 1 \in 1..n /\ (old = dmt_head <=> j = 1)
      BY <1>2, <1>3, <1>4, Neighbours DEF Ordered, D
    <3>2. dmt_head' = IF dmt_head = old THEN node ELSE dmt_head
      BY <1>6
    <3>3. n # 0
      OBVIOUS
    <3>4. new[1] = IF j = 1 THEN node ELSE ord[1]
      BY <1>11, <3>1
    <3> HIDE DEF E
    <3> QED
      BY <3>1, <3>2, <3>3, <3>4
  <2>4. ASSUME NEW i \in 1..n PROVE nodes'[new[i]].next = IF i = n THEN NULL ELSE new[i + 1]
    <3>1. nodes[ord[i]].next = IF i = n THEN NULL ELSE ord[i + 1]
      BY <1>2 DEF Ordered
    <3>2. ord[i] = nodes[old].prev <=> i = j - 1
      BY <1>2, <1>3, <1>4, Neighbours DEF D
    <3>3. CASE i = j
      <4>1. i # n => i + 1 \in 1..n /\ i + 1 # j
        BY <3>3
      <4> QED
        BY <1>3, <1>7, <1>11, <3>1, <3>3, <4>1
    <3>4. CASE i # j
      <4>1. nodes'[new[i]].next = IF i = j - 1 THEN node ELSE nodes[ord[i]].next
        BY <1>8, <1>10, <1>11, <3>2, <3>4
      <4>2. i # n => i + 1 \in 1..n
        OBVIOUS
      <4>3. i = j - 1 => i # n /\ i + 1 = j
        OBVIOUS
      <4> QED
        BY <1>11, <3>1, <4>1, <4>2, <4>3
    <3> QED
      BY <3>3, <3>4
  <2>5. ASSUME NEW i \in 1..n PROVE nodes'[new[i]].prev = IF i = 1 THEN NULL ELSE new[i - 1]
    <3>1. nodes[ord[i]].prev = IF i = 1 THEN NULL ELSE ord[i - 1]
      BY <1>2 DEF Ordered
    <3>2. ord[i] = nodes[old].next <=> i = j + 1
      BY <1>2, <1>3, <1>4, Neighbours DEF D
    <3>3. CASE i = j
      <4>1. i # 1 => i - 1 \in 1..n /\ i - 1 # j
        BY <3>3
      <4> QED
        BY <1>3, <1>7, <1>11, <3>1, <3>3, <4>1
    <3>4. CASE i # j
      <4>1. nodes'[new[i]].prev = IF i = j + 1 THEN node ELSE nodes[ord[i]].prev
        BY <1>8, <1>10, <1>11, <3>2, <3>4
      <4>2. i # 1 => i - 1 \in 1..n
        OBVIOUS
      <4>3. i = j + 1 => i # 1 /\ i - 1 = j
        OBVIOUS
      <4> QED
        BY <1>11, <3>1, <4>1, <4>2, <4>3
    <3> QED
      BY <3>3, <3>4
  <2> HIDE DEF E
  <2> QED
    BY <1>6, <1>11, <2>1, <2>2, <2>3, <2>4, <2>5 DEF Ordered
<1>13. E \subseteq Addr
  BY <1>4
<1> HIDE DEF new
<1> QED
  BY <1>6, <1>9, <1>11, <1>12, <1>13 DEF Chain

\* _dmt_free takes the node out and closes the gap.
LEMMA FreeKeeps ==
  ASSUME Chain(nodes, dmt_head), NEW node \in DOMAIN nodes, dmt_free(node)
  PROVE  Chain(nodes', dmt_head') /\ DOMAIN nodes' = DOMAIN nodes \ {node}
<1>1. PICK n \in Nat : \E ord \in [1..n -> DOMAIN nodes] : Ordered(nodes, dmt_head, ord, n)
  BY DEF Chain
<1>2. PICK ord \in [1..n -> DOMAIN nodes] : Ordered(nodes, dmt_head, ord, n)
  BY <1>1
<1>3. PICK j \in 1..n : ord[j] = node
  BY <1>2 DEF Ordered
<1> DEFINE D     == DOMAIN nodes
           E     == D \ {node}
           m     == n - 1
           at(i) == IF i < j THEN i ELSE i + 1
           new   == [i \in 1..m |-> ord[at(i)]]
<1>4. D \subseteq Addr /\ NULL \notin Addr
  BY AddrAssumption DEF Chain
<1>5. \A a \in D : nodes[a] \in NodeType
  BY DEF Chain
<1>6. /\ DOMAIN nodes' = E
      /\ \A a \in E :
           nodes'[a] = [nodes[a] EXCEPT
                          !.next = IF a = nodes[node].prev THEN nodes[node].next ELSE @,
                          !.prev = IF a = nodes[node].next THEN nodes[node].prev ELSE @]
      /\ dmt_head' = IF node = dmt_head THEN nodes[node].next ELSE dmt_head
      /\ nodes' = [a \in E |-> nodes'[a]]
  BY DEF dmt_free
<1>7. ASSUME NEW a \in E
      PROVE  /\ nodes'[a] \in NodeType
             /\ nodes'[a].next = IF a = nodes[node].prev THEN nodes[node].next ELSE nodes[a].next
             /\ nodes'[a].prev = IF a = nodes[node].next THEN nodes[node].prev ELSE nodes[a].prev
  <2>1. nodes[a] \in NodeType /\ nodes[node] \in NodeType
    BY <1>5
  <2> QED
    BY <1>6, <2>1, ZenonT(30) DEF NodeType
<1>8. nodes' \in [E -> NodeType]
  <2> HIDE DEF E
  <2> QED
    BY <1>6, <1>7
<1>9. \A i \in 1..n : ord[i] \in D /\ (i # j => ord[i] \in E)
  BY <1>2, <1>3 DEF Ordered
<1>10. /\ m \in Nat
       /\ \A i \in 1..m : at(i) \in 1..n /\ at(i) # j
       /\ \A i \in 1..m : i # m <=> at(i) # (IF j = n THEN n - 1 ELSE n)
       /\ \A i, k \in 1..m : at(i) = at(k) => i = k
       /\ \A k \in 1..n : k # j => \E i \in 1..m : at(i) = k
       /\ \A i \in 1..m : i # m => at(i + 1) = IF at(i) = j - 1 THEN j + 1 ELSE at(i) + 1
       /\ \A i \in 1..m : i # 1 => at(i - 1) = IF at(i) = j + 1 THEN j - 1 ELSE at(i) - 1
       /\ m # 0 => at(1) = IF j = 1 THEN 2 ELSE 1
  <2>1. ASSUME NEW k \in 1..n, k # j PROVE \E i \in 1..m : at(i) = k
    <3>1. CASE k < j
      BY <3>1
    <3>2. CASE k > j
      <4>1. k - 1 \in 1..m /\ at(k - 1) = k
        BY <3>2
      <4> QED
        BY <4>1
    <3> QED
      BY <2>1, <3>1, <3>2
  <2> QED
    BY <2>1
<1>11. /\ new \in [1..m -> E]
       /\ \A i \in 1..m : new[i] = ord[at(i)]
  BY <1>9, <1>10
<1>12. Ordered(nodes', dmt_head', new, m)
  <2> HIDE DEF new, D, at
  <2>1. \A i, k \in 1..m : new[i] = new[k] => i = k
    BY <1>2, <1>10, <1>11 DEF Ordered
  <2>2. ASSUME NEW a \in E PROVE \E i \in 1..m : new[i] = a
    <3>1. PICK k \in 1..n : ord[k] = a
      BY <1>2 DEF Ordered, D
    <3>2. k # j
      BY <1>3, <3>1
    <3> QED
      BY <1>10, <1>11, <3>1, <3>2
  <2>3. dmt_head' = IF m = 0 THEN NULL ELSE new[1]
    <3>1. dmt_head = ord[1] /\ 1 \in 1..n /\ (node = dmt_head <=> j = 1)
      BY <1>2, <1>3, <1>4, Neighbours DEF Ordered, D
    <3>2. nodes[node].next = IF j = n THEN NULL ELSE ord[j + 1]
      BY <1>2, <1>3 DEF Ordered
    <3>3. m # 0 => 1 \in 1..m /\ new[1] = ord[IF j = 1 THEN 2 ELSE 1]
      BY <1>10, <1>11
    <3>4. (m = 0 <=> n = 1) /\ (j = 1 /\ j = n => m = 0) /\ (m = 0 => j = 1 /\ j = n)
      OBVIOUS
    <3>5. j = 1 => j + 1 = 2
      OBVIOUS
    <3> HIDE DEF m
    <3> QED
      BY <1>6, <3>1, <3>2, <3>3, <3>4, <3>5
  <2>4. ASSUME NEW i \in 1..m PROVE nodes'[new[i]].next = IF i = m THEN NULL ELSE new[i + 1]
    <3>1. at(i) \in 1..n /\ at(i) # j /\ new[i] = ord[at(i)]
      BY <1>10, <1>11
    <3>2. nodes[ord[at(i)]].next = IF at(i) = n THEN NULL ELSE ord[at(i) + 1]
      BY <1>2, <3>1 DEF Ordered
    <3>3. nodes[node].next = IF j = n THEN NULL ELSE ord[j + 1]
      BY <1>2, <1>3 DEF Ordered
    <3>4. ord[at(i)] = nodes[node].prev <=> at(i) = j - 1
      BY <1>2, <1>3, <1>4, <3>1, Neighbours DEF D
    <3>5. nodes'[new[i]].next =
            IF at(i) = j - 1 THEN IF j = n THEN NULL ELSE ord[j + 1]
            ELSE IF at(i) = n THEN NULL ELSE ord[at(i) + 1]
      BY <1>7, <1>9, <3>1, <3>2, <3>3, <3>4
    <3>6. i = m <=> (at(i) = n \/ (at(i) = j - 1 /\ j = n))
      BY <1>10, <3>1
    <3>7. i # m => /\ i + 1 \in 1..m
                   /\ new[i + 1] = ord[IF at(i) = j - 1 THEN j + 1 ELSE at(i) + 1]
      BY <1>10, <1>11, SMTT(30)
    <3>8. at(i) = n => at(i) # j - 1
      OBVIOUS
    <3> HIDE DEF m
    <3> QED
      BY <3>5, <3>6, <3>7, <3>8
  <2>5. ASSUME NEW i \in 1..m PROVE nodes'[new[i]].prev = IF i = 1 THEN NULL ELSE new[i - 1]
    <3>1. at(i) \in 1..n /\ at(i) # j /\ new[i] = ord[at(i)]
      BY <1>10, <1>11
    <3>2. nodes[ord[at(i)]].prev = IF at(i) = 1 THEN NULL ELSE ord[at(i) - 1]
      BY <1>2, <3>1 DEF Ordered
    <3>3. nodes[node].prev = IF j = 1 THEN NULL ELSE ord[j - 1]
      BY <1>2, <1>3 DEF Ordered
    <3>4. ord[at(i)] = nodes[node].next <=> at(i) = j + 1
      BY <1>2, <1>3, <1>4, <3>1, Neighbours DEF D
    <3>5. nodes'[new[i]].prev =
            IF at(i) = j + 1 THEN IF j = 1 THEN NULL ELSE ord[j - 1]
            ELSE IF at(i) = 1 THEN NULL ELSE ord[at(i) - 1]
      BY <1>7, <1>9, <3>1, <3>2, <3>3, <3>4
    <3>6. i = 1 <=> (at(i) = 1 \/ (at(i) = j + 1 /\ j = 1))
      BY DEF at
    <3>7. i # 1 => /\ i - 1 \in 1..m
                   /\ new[i - 1] = ord[IF at(i) = j + 1 THEN j - 1 ELSE at(i) - 1]
      BY <1>10, <1>11, SMTT(30)
    <3>8. at(i) = 1 => at(i) # j + 1
      OBVIOUS
    <3> HIDE DEF m
    <3> QED
      BY <3>5, <3>6, <3>7, <3>8
  <2> HIDE DEF E
  <2> QED
    BY <1>6, <1>11, <2>1, <2>2, <2>3, <2>4, <2>5 DEF Ordered
<1>13. E \subseteq Addr
  BY <1>4
<1> HIDE DEF new
<1> QED
  BY <1>6, <1>8, <1>10, <1>11, <1>12, <1>13 DEF Chain

---------------------------------------------------------------------------
(* The walk *)

\* The k-th step of the walk is at the k-th node, and then at NULL.
LEMMA WalkIs ==
  ASSUME NEW n \in Nat, NEW ord, Ordered(nodes, dmt_head, ord, n),
         DOMAIN nodes \subseteq Addr, Cardinality(DOMAIN nodes) = n
  PROVE  Walk = [k \in 0..n |-> IF k < n THEN ord[k + 1] ELSE NULL]
<1> DEFINE w       == [k \in 0..n |-> IF k < n THEN ord[k + 1] ELSE NULL]
           step(f) == [k \in 0..n |->
                         IF k = 0 THEN dmt_head
                         ELSE IF f[k - 1] \in DOMAIN nodes THEN nodes[f[k - 1]].next ELSE NULL]
<1>1. Walk = CHOOSE f : f = step(f)
  BY DEF Walk
<1>2. w = step(w)
  <2>1. ASSUME NEW k \in 0..n PROVE w[k] = step(w)[k]
    <3>1. CASE k = 0
      BY <3>1 DEF Ordered
    <3>2. CASE k # 0
      <4>1. k - 1 \in 0..n /\ k - 1 < n /\ k \in 1..n /\ (k - 1) + 1 = k
        BY <3>2
      <4>2. w[k - 1] = ord[k] /\ ord[k] \in DOMAIN nodes
        BY <4>1 DEF Ordered
      <4>3. nodes[ord[k]].next = IF k = n THEN NULL ELSE ord[k + 1]
        BY <4>1 DEF Ordered
      <4> QED
        BY <3>2, <4>1, <4>2, <4>3
    <3> QED
      BY <3>1, <3>2
  <2> QED
    BY <2>1
<1>3. ASSUME NEW f, f = step(f) PROVE f = w
  <2>1. f = [k \in 0..n |-> f[k]] /\ w = [k \in 0..n |-> w[k]]
    BY <1>3
  <2> DEFINE T == {k \in 0..n : f[k] # w[k]}
  <2>2. T = {}
    <3> SUFFICES ASSUME T # {} PROVE FALSE
      OBVIOUS
    <3>1. PICK k \in T : \A y \in T : k <= y
      <4>1. T \subseteq Nat
        OBVIOUS
      <4> HIDE DEF T
      <4> QED
        BY <4>1, LeastNat
    <3>2. k # 0
      <4>1. f[0] = step(f)[0] /\ w[0] = step(w)[0]
        BY <1>2, <1>3
      <4> HIDE DEF w
      <4> QED
        BY <4>1
    <3>3. k \in 0..n /\ k - 1 \in 0..n /\ f[k] # w[k] /\ f[k - 1] = w[k - 1]
      <4> HIDE DEF w, step
      <4> QED
        BY <3>1, <3>2
    <3>4. f[k] = step(f)[k] /\ w[k] = step(w)[k]
      BY <1>2, <1>3
    <3> HIDE DEF w
    <3> QED
      BY <3>2, <3>3, <3>4
  <2> HIDE DEF w, step
  <2> QED
    BY <2>1, <2>2
<1> HIDE DEF w, step
<1>4. Walk = w
  BY <1>1, <1>2, <1>3, Zenon
<1> QED
  BY <1>4 DEF w

(***************************************************************************)
(* What `ListSound' says of the list of dmt.h holds whenever the nodes are *)
(* in one list.                                                            *)
(***************************************************************************)
LEMMA ChainSound ==
  ASSUME Chain(nodes, dmt_head)
  PROVE  ListSound /\ Listed = DOMAIN nodes
<1>1. PICK n \in Nat : \E ord \in [1..n -> DOMAIN nodes] : Ordered(nodes, dmt_head, ord, n)
  BY DEF Chain
<1>2. PICK ord \in [1..n -> DOMAIN nodes] : Ordered(nodes, dmt_head, ord, n)
  BY <1>1
<1>3. DOMAIN nodes \subseteq Addr /\ NULL \notin Addr
  BY AddrAssumption DEF Chain
<1>4. Cardinality(DOMAIN nodes) = n
  <2>1. ord \in Bijection(1..n, DOMAIN nodes)
    BY <1>2 DEF Ordered, Bijection, Injection, Surjection, IsInjective
  <2> QED
    BY <2>1, FS_CountingElements DEF ExistsBijection
<1>5. Walk = [k \in 0..n |-> IF k < n THEN ord[k + 1] ELSE NULL]
  BY <1>2, <1>3, <1>4, WalkIs
<1>6. /\ DOMAIN Walk = 0..n
      /\ \A k \in 0..n : Walk[k] = IF k < n THEN ord[k + 1] ELSE NULL
  BY <1>5
<1>7. Listed = DOMAIN nodes
  <2>1. ASSUME NEW a \in DOMAIN nodes PROVE \E k \in 0..n : Walk[k] = a
    <3>1. PICK i \in 1..n : ord[i] = a
      BY <1>2 DEF Ordered
    <3>2. i - 1 \in 0..n /\ i - 1 < n /\ (i - 1) + 1 = i
      OBVIOUS
    <3> QED
      BY <1>6, <3>1, <3>2
  <2>2. ASSUME NEW k \in 0..n, Walk[k] # NULL PROVE Walk[k] \in DOMAIN nodes
    <3>1. k < n /\ k + 1 \in 1..n
      BY <1>6, <2>2
    <3> QED
      BY <1>2, <1>6, <3>1 DEF Ordered
  <2>3. Listed = {Walk[k] : k \in 0..n} \ {NULL}
    BY <1>6 DEF Listed
  <2>4. \A a \in Listed : a \in DOMAIN nodes
    BY <2>2, <2>3
  <2>5. \A a \in DOMAIN nodes : a \in Listed
    BY <1>3, <2>1, <2>3
  <2> QED
    BY <2>4, <2>5
<1>8. Walk[n] = NULL
  BY <1>6
<1>9. ASSUME NEW a \in DOMAIN nodes
      PROVE  /\ nodes[a].next # NULL => nodes[nodes[a].next].prev = a
             /\ nodes[a].prev = NULL <=> a = dmt_head
  <2>1. PICK i \in 1..n : ord[i] = a
    BY <1>2 DEF Ordered
  <2>2. nodes[a].next = IF i = n THEN NULL ELSE ord[i + 1]
    BY <1>2, <2>1 DEF Ordered
  <2>3. i # n => nodes[ord[i + 1]].prev = a
    <3> SUFFICES ASSUME i # n PROVE nodes[ord[i + 1]].prev = a
      OBVIOUS
    <3>1. i + 1 \in 1..n /\ i + 1 # 1 /\ (i + 1) - 1 = i
      OBVIOUS
    <3> QED
      BY <1>2, <2>1, <3>1 DEF Ordered
  <2>4. a = dmt_head <=> i = 1
    BY <1>2, <1>3, <2>1, Neighbours
  <2>5. nodes[a].prev = IF i = 1 THEN NULL ELSE ord[i - 1]
    BY <1>2, <2>1 DEF Ordered
  <2>6. i # 1 => ord[i - 1] \in DOMAIN nodes
    <3> SUFFICES ASSUME i # 1 PROVE ord[i - 1] \in DOMAIN nodes
      OBVIOUS
    <3>1. i - 1 \in 1..n
      OBVIOUS
    <3> QED
      BY <1>2, <3>1 DEF Ordered
  <2> QED
    BY <1>3, <2>2, <2>3, <2>4, <2>5, <2>6
<1> QED
  BY <1>4, <1>7, <1>8, <1>9 DEF ListSound

Cell == Value \cup {Junk}

---------------------------------------------------------------------------
(* Sequences *)

LEMMA PutType ==
  ASSUME NEW T, NEW cells \in Seq(T), NEW at \in Nat, NEW s, Len(s) \in Nat,
         \A i \in 1..Len(cells) : at < i /\ i <= at + Len(s) => s[i - at] \in T
  PROVE  /\ Put(cells, at, s) \in Seq(T)
         /\ Len(Put(cells, at, s)) = Len(cells)
         /\ \A i \in 1..Len(cells) :
              Put(cells, at, s)[i] = IF at < i /\ i <= at + Len(s) THEN s[i - at] ELSE cells[i]
<1> DEFINE e(i) == IF at < i /\ i <= at + Len(s) THEN s[i - at] ELSE cells[i]
<1>1. Put(cells, at, s) = [i \in 1..Len(cells) |-> e(i)]
  BY DEF Put
<1>2. Len(cells) \in Nat /\ \A i \in 1..Len(cells) : e(i) \in T
  OBVIOUS
<1> HIDE DEF e
<1>3. [i \in 1..Len(cells) |-> e(i)] \in Seq(T)
  BY <1>2, IsASeq
<1>4. Len(Put(cells, at, s)) = Len(cells)
  BY <1>1, <1>2, <1>3
<1>5. \A i \in 1..Len(cells) : Put(cells, at, s)[i] = e(i)
  BY <1>1
<1> QED
  BY <1>1, <1>3, <1>4, <1>5 DEF e

\* What is put into a sequence is there, and the rest stays.
LEMMA PutIs ==
  ASSUME NEW T, NEW cells \in Seq(T), NEW at \in Nat, NEW s \in Seq(T)
  PROVE  /\ Put(cells, at, s) \in Seq(T)
         /\ Len(Put(cells, at, s)) = Len(cells)
         /\ \A i \in 1..Len(cells) :
              Put(cells, at, s)[i] = IF at < i /\ i <= at + Len(s) THEN s[i - at] ELSE cells[i]
<1>1. Len(s) \in Nat /\ \A i \in 1..Len(cells) : at < i /\ i <= at + Len(s) => i - at \in 1..Len(s)
  OBVIOUS
<1>2. \A i \in 1..Len(cells) : at < i /\ i <= at + Len(s) => s[i - at] \in T
  BY <1>1
<1> QED
  BY <1>1, <1>2, PutType

\* The len elements behind the first off.
Part(cells, off, len) == SubSeq(cells, off + 1, off + len)

\* The elements of a vector at off, once it was written.
LEMMA WriteBack ==
  ASSUME NEW T, NEW cells \in Seq(T), NEW off \in Nat, NEW s \in Seq(T), NEW len \in Nat,
         off + Len(s) <= Len(cells), len <= Len(s)
  PROVE  Part(Put(cells, off, s), off, len) = Part(s, 0, len)
<1> DEFINE c == Put(cells, off, s)
<1>1. /\ c \in Seq(T) /\ Len(c) = Len(cells)
      /\ \A i \in 1..Len(cells) : c[i] = IF off < i /\ i <= off + Len(s) THEN s[i - off] ELSE cells[i]
  BY PutIs
<1> HIDE DEF c
<1>2. off + len \in Nat /\ off <= off + len /\ off + len <= Len(c) /\ (off + len) - off = len
  BY <1>1
<1>3. /\ SubSeq(c, off + 1, off + len) \in Seq(T)
      /\ Len(SubSeq(c, off + 1, off + len)) = len
      /\ \A i \in 1..len : SubSeq(c, off + 1, off + len)[i] = c[off + i]
  BY <1>1, <1>2, Segment
<1>4. /\ SubSeq(s, 1, len) \in Seq(T)
      /\ Len(SubSeq(s, 1, len)) = len
      /\ \A i \in 1..len : SubSeq(s, 1, len)[i] = s[i]
  BY Segment, 0 \in Nat, 0 + 1 = 1, len - 0 = len, \A i \in 1..len : 0 + i = i
<1>5. \A i \in 1..len : c[off + i] = s[i]
  <2> TAKE i \in 1..len
  <2>1. off + i \in 1..Len(cells) /\ off < off + i /\ off + i <= off + Len(s) /\ (off + i) - off = i
    OBVIOUS
  <2> QED
    BY <1>1, <2>1
<1>6. SubSeq(c, off + 1, off + len) = SubSeq(s, 1, len)
  BY <1>3, <1>4, <1>5, SeqEqual
<1>7. 0 + 1 = 1 /\ 0 + len = len
  OBVIOUS
<1> QED
  BY <1>6, <1>7 DEF c, Part

\* Element by element, three sequences in a row.
LEMMA Concat3 ==
  ASSUME NEW T, NEW a \in Seq(T), NEW b \in Seq(T), NEW c \in Seq(T)
  PROVE  /\ a \o b \o c \in Seq(T)
         /\ Len(a \o b \o c) = Len(a) + Len(b) + Len(c)
         /\ \A i \in 1..(Len(a) + Len(b) + Len(c)) :
              (a \o b \o c)[i] = IF i <= Len(a) THEN a[i]
                                 ELSE IF i <= Len(a) + Len(b) THEN b[i - Len(a)]
                                 ELSE c[i - (Len(a) + Len(b))]
<1> DEFINE ab == a \o b
<1>1. /\ ab \in Seq(T) /\ Len(ab) = Len(a) + Len(b)
      /\ \A i \in 1..(Len(a) + Len(b)) : ab[i] = IF i <= Len(a) THEN a[i] ELSE b[i - Len(a)]
  BY ConcatProperties
<1> HIDE DEF ab
<1>2. /\ ab \o c \in Seq(T) /\ Len(ab \o c) = Len(ab) + Len(c)
      /\ \A i \in 1..(Len(ab) + Len(c)) : (ab \o c)[i] = IF i <= Len(ab) THEN ab[i] ELSE c[i - Len(ab)]
  <2>1. ab \in Seq(T)
    BY <1>1
  <2> QED
    BY <2>1, ConcatProperties
<1>3. Len(a) \in Nat /\ Len(b) \in Nat /\ Len(c) \in Nat
  OBVIOUS
<1>4. \A i \in 1..(Len(a) + Len(b) + Len(c)) :
              (ab \o c)[i] = IF i <= Len(a) THEN a[i]
                             ELSE IF i <= Len(a) + Len(b) THEN b[i - Len(a)]
                             ELSE c[i - (Len(a) + Len(b))]
  <2> TAKE i \in 1..(Len(a) + Len(b) + Len(c))
  <2>1. CASE i <= Len(a) + Len(b)
    BY <1>1, <1>2, <1>3, <2>1
  <2>2. CASE ~(i <= Len(a) + Len(b))
    BY <1>1, <1>2, <1>3, <2>2
  <2> QED
    BY <2>1, <2>2
<1> QED
  BY <1>1, <1>2, <1>4 DEF ab

\* Behind the end of a sequence there is nothing.
LEMMA Behind ==
  ASSUME NEW s, NEW a \in Int
  PROVE  SubSeq(s, a + 1, a) = <<>>
BY SubSeqEmpty

\* Part of the elements of a vector, as cells.
LEMMA PartOfPart ==
  ASSUME NEW T, NEW cells \in Seq(T), NEW off \in Nat, NEW len \in Nat, off + len <= Len(cells),
         NEW a \in Nat, NEW k \in Nat, a + k <= len
  PROVE  Part(Part(cells, off, len), a, k) = Part(cells, off + a, k)
<1> DEFINE E == SubSeq(cells, off + 1, off + len)
           X == SubSeq(E, a + 1, a + k)
           Y == SubSeq(cells, (off + a) + 1, (off + a) + k)
<1>1. off + len \in Nat /\ off <= off + len /\ (off + len) - off = len
  OBVIOUS
<1>2. E \in Seq(T) /\ Len(E) = len /\ \A i \in 1..len : E[i] = cells[off + i]
  BY <1>1, Segment
<1> HIDE DEF E
<1>3. a + k \in Nat /\ a <= a + k /\ (a + k) - a = k /\ a + k <= Len(E)
  BY <1>2
<1>4. X \in Seq(T) /\ Len(X) = k /\ \A i \in 1..k : X[i] = E[a + i]
  BY <1>2, <1>3, Segment
<1>5. (off + a) \in Nat /\ (off + a) + k \in Nat /\ off + a <= (off + a) + k
      /\ ((off + a) + k) - (off + a) = k /\ (off + a) + k <= Len(cells)
  OBVIOUS
<1>6. Y \in Seq(T) /\ Len(Y) = k /\ \A i \in 1..k : Y[i] = cells[(off + a) + i]
  BY <1>5, Segment
<1> HIDE DEF X, Y
<1>7. \A i \in 1..k : a + i \in 1..len /\ off + (a + i) = (off + a) + i
  OBVIOUS
<1>8. \A i \in 1..k : X[i] = Y[i]
  BY <1>2, <1>4, <1>6, <1>7
<1>9. X = Y
  BY <1>4, <1>6, <1>8, SeqEqual
<1> QED
  BY <1>9 DEF X, Y, E, Part

---------------------------------------------------------------------------
(* What the calls leave in a vector *)

\* E with s inserted at idx.
Inserted(E, idx, s) == SubSeq(E, 1, idx) \o s \o SubSeq(E, idx + 1, Len(E))

\* Room for s is made at idx, as vec_insert_ makes it.
LEMMA InsertExact ==
  ASSUME NEW T, NEW cells \in Seq(T), NEW off \in Nat, NEW len \in Nat, NEW idx \in Nat,
         NEW s \in Seq(T), idx <= len, off + len + Len(s) <= Len(cells)
  PROVE  Part(Put(cells, off + idx, s \o SubSeq(cells, off + idx + 1, off + len)), off, len + Len(s))
           = Inserted(Part(cells, off, len), idx, s)
<1> DEFINE E    == SubSeq(cells, off + 1, off + len)
           tail == SubSeq(cells, off + idx + 1, off + len)
           t    == s \o tail
           c    == Put(cells, off + idx, t)
           k    == Len(s)
           X    == SubSeq(E, 1, idx)
           Z    == SubSeq(E, idx + 1, Len(E))
           new  == SubSeq(c, off + 1, off + (len + k))
<1>1. k \in Nat /\ Len(cells) \in Nat /\ off + len \in Nat /\ off + len <= Len(cells)
      /\ off <= off + len /\ (off + len) - off = len
      /\ off + idx \in Nat /\ off + idx <= off + len /\ (off + len) - (off + idx) = len - idx
  OBVIOUS
<1>2. E \in Seq(T) /\ Len(E) = len /\ \A i \in 1..len : E[i] = cells[off + i]
  BY <1>1, Segment
<1>3. /\ tail \in Seq(T) /\ Len(tail) = len - idx
      /\ \A i \in 1..(len - idx) : tail[i] = cells[(off + idx) + i]
  BY <1>1, Segment
<1> HIDE DEF E, tail
<1>4. /\ t \in Seq(T) /\ Len(t) = k + (len - idx)
      /\ \A i \in 1..(k + (len - idx)) : t[i] = IF i <= k THEN s[i] ELSE tail[i - k]
  <2>1. tail \in Seq(T)
    BY <1>3
  <2>2. /\ t \in Seq(T) /\ Len(t) = Len(s) + Len(tail)
        /\ \A i \in 1..(Len(s) + Len(tail)) : t[i] = IF i <= Len(s) THEN s[i] ELSE tail[i - Len(s)]
    BY <2>1, ConcatProperties
  <2> QED
    BY <1>3, <2>2
<1> HIDE DEF t
<1>5. /\ c \in Seq(T) /\ Len(c) = Len(cells)
      /\ \A i \in 1..Len(cells) :
           c[i] = IF off + idx < i /\ i <= (off + idx) + (k + (len - idx))
                  THEN t[i - (off + idx)] ELSE cells[i]
  BY <1>1, <1>4, PutIs
<1> HIDE DEF c
<1>6. new \in Seq(T) /\ Len(new) = len + k /\ \A i \in 1..(len + k) : new[i] = c[off + i]
  <2>1. off + (len + k) \in Nat /\ off <= off + (len + k) /\ off + (len + k) <= Len(c)
        /\ (off + (len + k)) - off = len + k
    BY <1>1, <1>5, SMTT(30)
  <2> QED
    BY <1>5, <2>1, Segment
<1>7. X \in Seq(T) /\ Len(X) = idx /\ \A i \in 1..idx : X[i] = E[i]
  BY <1>2, Prefix
<1>8. Z \in Seq(T) /\ Len(Z) = len - idx /\ \A i \in 1..(len - idx) : Z[i] = E[idx + i]
  BY <1>2, Segment
<1> HIDE DEF new, X, Z
<1> DEFINE r == X \o s \o Z
<1>9. /\ r \in Seq(T) /\ Len(r) = idx + k + (len - idx)
      /\ \A i \in 1..(idx + k + (len - idx)) :
           r[i] = IF i <= idx THEN X[i] ELSE IF i <= idx + k THEN s[i - idx] ELSE Z[i - (idx + k)]
  <2>1. X \in Seq(T) /\ Z \in Seq(T)
    BY <1>7, <1>8
  <2>2. /\ r \in Seq(T)
        /\ Len(r) = Len(X) + Len(s) + Len(Z)
        /\ \A i \in 1..(Len(X) + Len(s) + Len(Z)) :
              r[i] = IF i <= Len(X) THEN X[i]
                     ELSE IF i <= Len(X) + Len(s) THEN s[i - Len(X)]
                     ELSE Z[i - (Len(X) + Len(s))]
    BY <2>1, Concat3
  <2> QED
    BY <1>7, <1>8, <2>2
<1> HIDE DEF r, k
<1>10. ASSUME NEW i \in 1..(len + k) PROVE new[i] = r[i]
  <2>1. /\ off + i \in 1..Len(cells) /\ i \in 1..(idx + k + (len - idx))
        /\ off + i <= (off + idx) + (k + (len - idx))
        /\ off + idx < off + i <=> idx < i
        /\ (off + i) - (off + idx) = i - idx
    BY <1>1 DEF k
  <2>2. new[i] = IF idx < i THEN t[i - idx] ELSE cells[off + i]
    BY <1>5, <1>6, <2>1
  <2>3. CASE i <= idx
    <3>1. i \in 1..idx /\ i \in 1..len /\ ~(idx < i)
      BY <2>3
    <3>2. new[i] = E[i]
      BY <1>2, <2>2, <3>1
    <3>3. r[i] = E[i]
      BY <1>7, <1>9, <2>1, <2>3, <3>1
    <3> QED
      BY <3>2, <3>3
  <2>4. CASE idx < i /\ i <= idx + k
    <3>1. i - idx \in 1..(k + (len - idx)) /\ i - idx <= k /\ ~(i <= idx)
      BY <1>1, <2>4
    <3>2. new[i] = s[i - idx]
      BY <1>4, <2>2, <2>4, <3>1
    <3>3. r[i] = s[i - idx]
      BY <1>9, <2>1, <2>4, <3>1
    <3> QED
      BY <3>2, <3>3
  <2>5. CASE idx + k < i
    <3>1. /\ i - idx \in 1..(k + (len - idx)) /\ ~(i - idx <= k) /\ (i - idx) - k \in 1..(len - idx)
          /\ (off + idx) + ((i - idx) - k) = off + (i - k) /\ i - k \in 1..len
          /\ i - (idx + k) \in 1..(len - idx) /\ idx + (i - (idx + k)) = i - k
          /\ idx < i /\ ~(i <= idx) /\ ~(i <= idx + k)
      BY <1>1, <2>5
    <3>2. new[i] = cells[off + (i - k)]
      BY <1>3, <1>4, <2>2, <3>1
    <3>3. r[i] = E[i - k]
      BY <1>8, <1>9, <2>1, <3>1
    <3> QED
      BY <1>2, <3>1, <3>2, <3>3
  <2> QED
    BY <1>1, <2>3, <2>4, <2>5
<1>11. len + k = idx + k + (len - idx)
  BY <1>1
<1>12. new = r
  BY <1>6, <1>9, <1>10, <1>11, SeqEqual
<1> QED
  BY <1>12 DEF new, r, X, Z, c, t, E, tail, k, Part, Inserted

\* Elements are taken out, as vec_splice_ does it.
LEMMA SpliceExact ==
  ASSUME NEW T, NEW s \in Seq(T), NEW start \in Nat, NEW count \in Nat, start + count <= Len(s)
  PROVE  /\ vec_splice(s, start, count) \in Seq(T)
         /\ Len(vec_splice(s, start, count)) = Len(s)
         /\ SubSeq(vec_splice(s, start, count), 1, Len(s) - count)
              = SubSeq(s, 1, start) \o SubSeq(s, start + count + 1, Len(s))
<1> DEFINE L == Len(s)
           m == L - (start + count)
           X == SubSeq(s, 1, start)
           Z == SubSeq(s, start + count + 1, L)
           p == Put(s, start, Z)
           n == SubSeq(p, 1, L - count)
           r == X \o Z
<1>1. L \in Nat /\ m \in Nat /\ L - count \in Nat /\ L - count <= L /\ L - count = start + m
      /\ start + count \in Nat
  OBVIOUS
<1>2. Z \in Seq(T) /\ Len(Z) = m /\ \A i \in 1..m : Z[i] = s[(start + count) + i]
  <2>1. start + count <= Len(s) /\ start + count \in Nat /\ Len(s) \in Nat /\ Len(s) <= Len(s)
    BY <1>1
  <2> QED
    BY <2>1, Segment
<1>3. X \in Seq(T) /\ Len(X) = start /\ \A i \in 1..start : X[i] = s[i]
  BY <1>1, Prefix
<1> HIDE DEF X, Z
<1>4. /\ p \in Seq(T) /\ Len(p) = L
      /\ \A i \in 1..L : p[i] = IF start < i /\ i <= start + m THEN Z[i - start] ELSE s[i]
  <2>1. Z \in Seq(T)
    BY <1>2
  <2>2. /\ p \in Seq(T) /\ Len(p) = Len(s)
        /\ \A i \in 1..Len(s) : p[i] = IF start < i /\ i <= start + Len(Z) THEN Z[i - start] ELSE s[i]
    BY <2>1, PutIs
  <2> QED
    BY <1>2, <2>2
<1> HIDE DEF p
<1>5. n \in Seq(T) /\ Len(n) = L - count /\ \A i \in 1..(L - count) : n[i] = p[i]
  BY <1>1, <1>4, Prefix
<1>6. /\ r \in Seq(T) /\ Len(r) = start + m
      /\ \A i \in 1..(start + m) : r[i] = IF i <= start THEN X[i] ELSE Z[i - start]
  <2>1. X \in Seq(T) /\ Z \in Seq(T)
    BY <1>2, <1>3
  <2>2. /\ r \in Seq(T) /\ Len(r) = Len(X) + Len(Z)
        /\ \A i \in 1..(Len(X) + Len(Z)) : r[i] = IF i <= Len(X) THEN X[i] ELSE Z[i - Len(X)]
    BY <2>1, ConcatProperties
  <2> QED
    BY <1>2, <1>3, <2>2
<1> HIDE DEF n, r
<1>7. ASSUME NEW i \in 1..(L - count) PROVE n[i] = r[i]
  <2>1. i \in 1..L /\ i \in 1..(start + m)
    BY <1>1
  <2>2. CASE i <= start
    <3>1. i \in 1..start /\ ~(start < i)
      BY <2>2
    <3> HIDE DEF L, m
    <3> QED
      BY <1>3, <1>4, <1>5, <1>6, <2>1, <3>1, SMTT(30)
  <2>3. CASE start < i
    <3>1. i <= start + m /\ ~(i <= start)
      BY <1>1, <2>3
    <3> HIDE DEF L, m
    <3> QED
      BY <1>4, <1>5, <1>6, <2>1, <2>3, <3>1
  <2> QED
    BY <2>2, <2>3
<1>8. n = r
  BY <1>1, <1>5, <1>6, <1>7, SeqEqual
<1> QED
  BY <1>4, <1>8 DEF n, r, p, X, Z, vec_splice

LEMMA MinOfTwo ==
  ASSUME NEW a \in Int, NEW b \in Int
  PROVE  Min({a, b}) = IF a <= b THEN a ELSE b
BY DEF Min

\* s without count elements at start, whose place the last count elements take.
SwapSpliced(s, start, count) ==
  SubSeq(s, 1, start)
    \o SubSeq(s, Len(s) - Min({count, Len(s) - start - count}) + 1, Len(s))
    \o SubSeq(s, start + count + 1, Len(s) - count)

\* The end of a vector moves into the gap, as vec_swapsplice_ does it.
LEMMA SwapSpliceExact ==
  ASSUME NEW T, NEW s \in Seq(T), NEW start \in Nat, NEW count \in Nat, start + count <= Len(s),
         ~(0 < Len(s) - start - count /\ Len(s) - start - count < count)
  PROVE  /\ vec_swapsplice(s, start, count) \in Seq(T)
         /\ Len(vec_swapsplice(s, start, count)) = Len(s)
         /\ SubSeq(vec_swapsplice(s, start, count), 1, Len(s) - count) = SwapSpliced(s, start, count)
<1> DEFINE L    == Len(s)
           tail == L - start - count
           m    == IF tail = 0 THEN 0 ELSE count
           q    == L - count
           moved == SubSeq(s, q + 1, L)
           w    == Put(s, start, moved)
           n    == SubSeq(w, 1, q)
           X    == SubSeq(s, 1, start)
           Y    == SubSeq(s, L - m + 1, L)
           Z    == SubSeq(s, start + count + 1, q)
           r    == X \o Y \o Z
           z    == tail - m
<1>1. /\ L \in Nat /\ tail \in Nat /\ q \in Nat /\ q <= L /\ L - q = count /\ m \in Nat /\ m <= tail
      /\ L - m \in Nat /\ L - m <= L /\ L - (L - m) = m
      /\ start + count \in Nat /\ start <= L /\ start + count <= L
      /\ z \in Nat /\ q = start + m + z
  OBVIOUS
<1>2. Min({count, tail}) = m
  BY <1>1, MinOfTwo
<1>3. moved \in Seq(T) /\ Len(moved) = count /\ \A i \in 1..count : moved[i] = s[q + i]
  BY <1>1, Segment
<1>4. X \in Seq(T) /\ Len(X) = start /\ \A i \in 1..start : X[i] = s[i]
  BY <1>1, Prefix
<1>5. Y \in Seq(T) /\ Len(Y) = m /\ \A i \in 1..m : Y[i] = s[(L - m) + i]
  <2>1. L - m \in Nat /\ L \in Nat /\ L - m <= L /\ L <= Len(s)
    BY <1>1
  <2>2. /\ Y \in Seq(T) /\ Len(Y) = L - (L - m)
        /\ \A i \in 1..(L - (L - m)) : Y[i] = s[(L - m) + i]
    <3> HIDE DEF m, L
    <3> QED
      BY <2>1, Segment
  <2> QED
    BY <1>1, <2>2
<1>6. Z \in Seq(T) /\ Len(Z) = z /\ \A i \in 1..z : Z[i] = s[(start + count) + i]
  <2>1. CASE z = 0
    <3>1. q <= start + count /\ q < start + count + 1
      BY <1>1, <2>1
    <3>2. Z = <<>>
      BY <1>1, <3>1, SubSeqEmpty
    <3> HIDE DEF Z, z
    <3> QED
      BY <2>1, <3>2
  <2>2. CASE z # 0
    <3>1. tail # 0 /\ tail >= count
      BY <1>1, <2>2
    <3>2. start + count <= q /\ q - (start + count) = z
      BY <1>1, <3>1
    <3>3. /\ Z \in Seq(T) /\ Len(Z) = q - (start + count)
          /\ \A i \in 1..(q - (start + count)) : Z[i] = s[(start + count) + i]
      BY <1>1, <3>2, Segment
    <3> QED
      BY <3>2, <3>3, SMTT(30)
  <2> QED
    BY <2>1, <2>2
<1> HIDE DEF moved, X, Y, Z
<1>7. /\ w \in Seq(T) /\ Len(w) = L
      /\ \A i \in 1..L : w[i] = IF start < i /\ i <= start + count THEN moved[i - start] ELSE s[i]
  <2>1. moved \in Seq(T)
    BY <1>3
  <2>2. /\ w \in Seq(T) /\ Len(w) = Len(s)
        /\ \A i \in 1..Len(s) :
             w[i] = IF start < i /\ i <= start + Len(moved) THEN moved[i - start] ELSE s[i]
    BY <2>1, PutIs
  <2> QED
    BY <1>3, <2>2
<1> HIDE DEF w
<1>8. n \in Seq(T) /\ Len(n) = q /\ \A i \in 1..q : n[i] = w[i]
  <2>1. w \in Seq(T) /\ q \in Nat /\ q <= Len(w)
    BY <1>1, <1>7
  <2> HIDE DEF q
  <2> QED
    BY <2>1, Prefix
<1>9. /\ r \in Seq(T) /\ Len(r) = start + m + z
      /\ \A i \in 1..(start + m + z) :
           r[i] = IF i <= start THEN X[i]
                  ELSE IF i <= start + m THEN Y[i - start] ELSE Z[i - (start + m)]
  <2>1. X \in Seq(T) /\ Y \in Seq(T) /\ Z \in Seq(T)
    BY <1>4, <1>5, <1>6
  <2>2. /\ r \in Seq(T)
        /\ Len(r) = Len(X) + Len(Y) + Len(Z)
        /\ \A i \in 1..(Len(X) + Len(Y) + Len(Z)) :
              r[i] = IF i <= Len(X) THEN X[i]
                     ELSE IF i <= Len(X) + Len(Y) THEN Y[i - Len(X)]
                     ELSE Z[i - (Len(X) + Len(Y))]
    BY <2>1, Concat3
  <2> HIDE DEF r, z, m
  <2> QED
    BY <1>4, <1>5, <1>6, <2>2
<1> HIDE DEF n, r
<1>10. ASSUME NEW i \in 1..q PROVE n[i] = r[i]
  <2>1. i \in 1..L /\ i \in 1..(start + m + z)
    BY <1>1
  <2>2. n[i] = IF start < i /\ i <= start + count THEN moved[i - start] ELSE s[i]
    BY <1>7, <1>8, <2>1
  <2>3. CASE i <= start
    <3>1. i \in 1..start /\ ~(start < i)
      BY <2>3
    <3>2. r[i] = s[i]
      BY <1>4, <1>9, <2>1, <2>3, <3>1
    <3> QED
      BY <2>2, <3>1, <3>2
  <2>4. CASE start < i /\ i <= start + m
    <3>1. tail # 0 /\ m = count
      BY <2>4
    <3>2. i - start \in 1..count /\ i - start \in 1..m /\ i <= start + count /\ ~(i <= start)
      BY <2>4, <3>1
    <3>3. n[i] = s[q + (i - start)]
      BY <1>3, <2>2, <2>4, <3>2
    <3>4. r[i] = s[(L - m) + (i - start)]
      BY <1>5, <1>9, <2>1, <2>4, <3>2
    <3>5. q = L - m
      BY <3>1
    <3> QED
      BY <3>3, <3>4, <3>5
  <2>5. CASE start + m < i
    <3>1. z # 0 /\ m = count /\ ~(i <= start) /\ ~(i <= start + m)
      BY <1>1, <2>5
    <3>2. i - (start + m) \in 1..z /\ (start + count) + (i - (start + m)) = i /\ ~(i <= start + count)
      BY <1>1, <2>5, <3>1
    <3>3. r[i] = s[(start + count) + (i - (start + m))]
      BY <1>6, <1>9, <2>1, <3>1, <3>2
    <3> QED
      BY <2>2, <3>2, <3>3
  <2> QED
    BY <1>1, <2>3, <2>4, <2>5
<1>11. n = r
  <2>1. Len(n) = Len(r) /\ \A i \in 1..Len(n) : n[i] = r[i]
    BY <1>1, <1>8, <1>9, <1>10
  <2> QED
    BY <1>8, <1>9, <2>1, SeqEqual
<1>12. w = vec_swapsplice(s, start, count)
  BY DEF w, moved, vec_swapsplice
<1> QED
  BY <1>2, <1>7, <1>11, <1>12 DEF n, r, X, Y, Z, SwapSpliced

LEMMA SwapExact ==
  ASSUME NEW T, NEW s \in Seq(T), NEW i \in 1..Len(s), NEW j \in 1..Len(s)
  PROVE  LET w == [s EXCEPT ![i] = s[j], ![j] = s[i]]
         IN  /\ w \in Seq(T)
             /\ Len(w) = Len(s)
             /\ SubSeq(w, 1, Len(s)) = [k \in 1..Len(s) |-> s[IF k = i THEN j ELSE IF k = j THEN i ELSE k]]
<1> DEFINE w == [s EXCEPT ![i] = s[j], ![j] = s[i]]
<1>1. Len(s) \in Nat /\ s[i] \in T /\ s[j] \in T
  OBVIOUS
<1>2. w \in Seq(T) /\ Len(w) = Len(s)
  OBVIOUS
<1>3. SubSeq(w, 1, Len(s)) = w
  BY <1>2, SubSeqFull
<1>4. w = [k \in 1..Len(s) |-> w[k]]
  BY <1>1
<1>5. \A k \in 1..Len(s) : w[k] = s[IF k = i THEN j ELSE IF k = j THEN i ELSE k]
  OBVIOUS
<1> HIDE DEF w
<1>6. w = [k \in 1..Len(s) |-> s[IF k = i THEN j ELSE IF k = j THEN i ELSE k]]
  BY <1>4, <1>5
<1> QED
  BY <1>2, <1>3, <1>6 DEF w

LEMMA ReverseExact ==
  ASSUME NEW T, NEW s \in Seq(T)
  PROVE  LET half == Len(s) \div 2
             w    == [k \in 1..Len(s) |->
                        IF k <= half \/ k > Len(s) - half THEN s[Len(s) + 1 - k] ELSE s[k]]
         IN  w \in Seq(T) /\ Len(w) = Len(s) /\ SubSeq(w, 1, Len(s)) = Reverse(s)
<1> DEFINE L    == Len(s)
           half == L \div 2
           e(k) == IF k <= half \/ k > L - half THEN s[L + 1 - k] ELSE s[k]
           w    == [k \in 1..L |-> e(k)]
<1>1. L \in Nat /\ half \in Nat /\ (L = 2 * half \/ L = 2 * half + 1)
  OBVIOUS
<1> HIDE DEF half
<1>2. \A k \in 1..L : L + 1 - k \in 1..L /\ (L - k) + 1 = L + 1 - k
  OBVIOUS
<1>3. \A k \in 1..L : e(k) = s[(L - k) + 1]
  <2> TAKE k \in 1..L
  <2>1. CASE k <= half \/ k > L - half
    BY <1>2, <2>1
  <2>2. CASE ~(k <= half \/ k > L - half)
    <3>1. (L - k) + 1 = k
      BY <1>1, <2>2
    <3> QED
      BY <2>2, <3>1
  <2> QED
    BY <2>1, <2>2
<1>4. \A k \in 1..L : e(k) \in T
  BY <1>2, <1>3
<1> HIDE DEF e
<1>5. w \in Seq(T)
  BY <1>1, <1>4, IsASeq
<1>6. Len(w) = L
  BY <1>1, <1>5
<1>7. SubSeq(w, 1, L) = w
  BY <1>5, <1>6, SubSeqFull
<1>8. w = Reverse(s)
  BY <1>3 DEF Reverse
<1> QED
  BY <1>5, <1>6, <1>7, <1>8 DEF w, e, half

\* vec_find finds a place.
LEMMA FindIs ==
  ASSUME NEW T, NEW s \in Seq(T), NEW x, vec_find(s, x) # -1
  PROVE  vec_find(s, x) \in Nat /\ vec_find(s, x) + 1 <= Len(s)
<1> DEFINE at == {i \in 1..Len(s) : s[i] = x}
<1>1. Len(s) \in Nat /\ at \subseteq 1..Len(s) /\ at \subseteq Nat
  OBVIOUS
<1>2. at # {} /\ vec_find(s, x) = Min(at) - 1
  BY DEF vec_find
<1> HIDE DEF at
<1>3. Min(at) \in at
  <2>1. PICK a \in at : \A y \in at : a <= y
    BY <1>1, <1>2, LeastNat
  <2> QED
    BY <2>1 DEF Min
<1>4. PICK a \in 1..Len(s) : Min(at) = a
  BY <1>1, <1>3
<1>5. a - 1 \in Nat /\ (a - 1) + 1 <= Len(s)
  BY <1>1
<1> QED
  BY <1>2, <1>4, <1>5

---------------------------------------------------------------------------
(* Storage *)

\* A block of n elements has room for n.
LEMMA WholeElements ==
  ASSUME NEW n \in Nat, NEW m \in Nat, m > 0
  PROVE  (n * m) \div m = n
OBVIOUS

---------------------------------------------------------------------------
(* The inductive invariant *)

StructType == [borrowed : BOOLEAN, length : 0..MaxLen, capacity : Nat,
               data : Addr \cup {NULL, Pool}, off : 0..MaxLen]

(***************************************************************************)
(* The struct r is a vector of the elements s: its capacity is there, in a *)
(* block or in the pool, and what it owns begins where a block begins.     *)
(***************************************************************************)
Sound(r, s, m) ==
  IF r.data = NULL THEN r = Zero /\ s = <<>>
  ELSE /\ r.data \in DOMAIN m \ {Own}
       /\ r.length <= r.capacity
       /\ r.off + r.capacity <= Len(m[r.data])
       /\ r.off = 0 \/ r.off + r.capacity <= MaxLen
       /\ ~r.borrowed => r.data # Pool /\ r.off = 0
       /\ s = SubSeq(m[r.data], r.off + 1, r.off + r.length)

\* The storage.
MInv ==
  /\ Chain(nodes, dmt_head)
  /\ Own \in DOMAIN nodes
  /\ mem \in [DOMAIN nodes \cup {Pool} -> Seq(Cell)]
  /\ Len(mem[Pool]) = PoolLen
  /\ memsz \in MemSizes
  /\ fault \in BOOLEAN /\ aborted \in BOOLEAN

\* The vectors.
SInv ==
  /\ vec \in [Vecs -> StructType]
  /\ seq \in [Vecs -> Seq(Value)]
  /\ beyond \subseteq Vecs
  /\ \A v \in Vecs \ beyond : Sound(vec[v], seq[v], mem)

\* No two vectors own the same block, which both would free.
OwnedOnce ==
  \A u, v \in Vecs \ beyond :
    u # v /\ vec[u].data = vec[v].data /\ vec[v].data # NULL => vec[u].borrowed \/ vec[v].borrowed

VInv == MInv /\ SInv /\ OwnedOnce /\ SafeWithinLimits

LEMMA MInvDmtTypeOK == MInv => DmtTypeOK
<1> SUFFICES ASSUME MInv PROVE DmtTypeOK
  OBVIOUS
<1>1. \A a \in DOMAIN nodes : nodes[a] \in NodeType
  BY DEF MInv, Chain
<1>2. \A a \in DOMAIN nodes : /\ nodes[a].prev \in Addr \cup {NULL}
                              /\ nodes[a].next \in Addr \cup {NULL}
                              /\ nodes[a].size \in Nat
  BY <1>1 DEF NodeType, Links
<1>3. DOMAIN nodes \subseteq Addr /\ aborted \in BOOLEAN
  BY DEF MInv, Chain
<1>4. dmt_head \in Addr \cup {NULL}
  <2>1. PICK n \in Nat : \E ord \in [1..n -> DOMAIN nodes] : Ordered(nodes, dmt_head, ord, n)
    BY DEF MInv, Chain
  <2>2. PICK ord \in [1..n -> DOMAIN nodes] : Ordered(nodes, dmt_head, ord, n)
    BY <2>1
  <2> QED
    BY <1>3, <2>2 DEF Ordered
<1> QED
  BY <1>2, <1>3, <1>4 DEF DmtTypeOK

\* VEC_ALLOC gives a block of its own and leaves the others alone.
LEMMA Allocated ==
  ASSUME MInv, NEW p \in (DOMAIN nodes \ {Own}) \cup {NULL}, NEW q \in Results(p), NEW size \in Nat,
         NEW cells \in Seq(Cell), VEC_ALLOC(p, q, size), mem' = Blocks(q, cells), memsz' = memsz,
         fault' \in BOOLEAN
  PROVE  /\ MInv' /\ aborted' = aborted
         /\ q \in DOMAIN mem' \ {Own} /\ q \in Addr /\ q # Pool /\ q # NULL /\ mem'[q] = cells
         /\ q \notin DOMAIN mem \ {p}
         /\ \A a \in DOMAIN mem \ {p} : a \in DOMAIN mem' /\ mem'[a] = mem[a]
<1>1. /\ DOMAIN nodes \subseteq Addr /\ Own \in DOMAIN nodes /\ Pool \notin Addr /\ NULL \notin Addr
      /\ Pool # NULL
  BY AddrAssumption, VecAssumption DEF MInv, Chain
<1>2. Chain(nodes, dmt_head) /\ DOMAIN mem = DOMAIN nodes \cup {Pool}
      /\ (\A a \in DOMAIN nodes \cup {Pool} : mem[a] \in Seq(Cell)) /\ Len(mem[Pool]) = PoolLen
      /\ memsz \in MemSizes /\ aborted \in BOOLEAN
  BY DEF MInv
<1>3. /\ Chain(nodes', dmt_head')
      /\ DOMAIN nodes' = (DOMAIN nodes \ {p}) \cup {q}
      /\ aborted' = aborted
  <2>1. CASE p = NULL
    <3>1. q \in Free /\ dmt_alloc(q, size)
      BY <2>1 DEF Results, VEC_ALLOC
    <3>2. Chain(nodes', dmt_head') /\ DOMAIN nodes' = DOMAIN nodes \cup {q}
      BY <1>2, <3>1, AllocKeeps
    <3>3. aborted' = aborted
      BY <3>1 DEF dmt_alloc
    <3> QED
      BY <1>1, <2>1, <3>2, <3>3
  <2>2. CASE p # NULL
    <3>1. p \in DOMAIN nodes /\ q \in Free \cup {p}
      BY <2>2 DEF Results
    <3>2. dmt_has_node(p)
      BY <1>2, <3>1, ChainSound DEF dmt_has_node
    <3>3. dmt_realloc(p, q, size)
      BY <2>2, <3>2 DEF VEC_ALLOC
    <3>4. Chain(nodes', dmt_head') /\ DOMAIN nodes' = (DOMAIN nodes \ {p}) \cup {q}
      BY <1>2, <3>1, <3>3, ReallocKeeps
    <3>5. aborted' = aborted
      BY <3>3 DEF dmt_realloc
    <3> QED
      BY <3>4, <3>5
  <2> QED
    BY <2>1, <2>2
<1>4. /\ q \in Addr /\ q # Pool /\ q # NULL /\ q # Own
      /\ q \notin DOMAIN mem \ {p}
  BY <1>1, <1>2 DEF Results, Free
<1>5. mem' = [a \in DOMAIN nodes' \cup {Pool} |-> IF a = q THEN cells ELSE mem[a]]
  BY DEF Blocks
<1>6. /\ DOMAIN mem' = DOMAIN nodes' \cup {Pool} /\ q \in DOMAIN mem' /\ mem'[q] = cells
      /\ \A a \in DOMAIN mem \ {p} : a \in DOMAIN mem' /\ mem'[a] = mem[a]
  BY <1>2, <1>3, <1>4, <1>5
<1>7. \A a \in DOMAIN nodes' \cup {Pool} : (IF a = q THEN cells ELSE mem[a]) \in Seq(Cell)
  BY <1>2, <1>3
<1>8. mem' \in [DOMAIN nodes' \cup {Pool} -> Seq(Cell)]
  BY <1>5, <1>7
<1>9. Len(mem'[Pool]) = PoolLen
  BY <1>1, <1>2, <1>6
<1>10. Own \in DOMAIN nodes'
  BY <1>1, <1>3
<1>11. MInv'
  BY <1>2, <1>3, <1>8, <1>9, <1>10 DEF MInv
<1> QED
  BY <1>3, <1>4, <1>6, <1>11

\* VEC_FREE of a block leaves the others alone.
LEMMA Freed ==
  ASSUME MInv, NEW p \in DOMAIN nodes \ {Own}, VEC_FREE(p, 0), mem' = Blocks(NULL, <<>>),
         UNCHANGED <<memsz, fault>>
  PROVE  /\ MInv' /\ aborted' = aborted
         /\ \A a \in DOMAIN mem \ {p} : a \in DOMAIN mem' /\ mem'[a] = mem[a]
<1>1. /\ DOMAIN nodes \subseteq Addr /\ Own \in DOMAIN nodes /\ Pool \notin Addr /\ NULL \notin Addr
      /\ Pool # NULL
  BY AddrAssumption, VecAssumption DEF MInv, Chain
<1>2. Chain(nodes, dmt_head) /\ DOMAIN mem = DOMAIN nodes \cup {Pool}
      /\ (\A a \in DOMAIN nodes \cup {Pool} : mem[a] \in Seq(Cell)) /\ Len(mem[Pool]) = PoolLen
      /\ memsz \in MemSizes /\ aborted \in BOOLEAN /\ fault \in BOOLEAN
  BY DEF MInv
<1>3. dmt_free(p)
  <2>1. dmt_has_node(p) /\ p # NULL
    BY <1>1, <1>2, ChainSound DEF dmt_has_node
  <2> QED
    BY <2>1 DEF VEC_FREE
<1>4. Chain(nodes', dmt_head') /\ DOMAIN nodes' = DOMAIN nodes \ {p}
  BY <1>2, <1>3, FreeKeeps
<1>5. aborted' = aborted
  BY <1>3 DEF dmt_free
<1>6. mem' = [a \in DOMAIN nodes' \cup {Pool} |-> mem[a]]
  BY <1>1, <1>4 DEF Blocks
<1>7. mem' \in [DOMAIN nodes' \cup {Pool} -> Seq(Cell)]
  BY <1>2, <1>4, <1>6
<1>8. \A a \in DOMAIN mem \ {p} : a \in DOMAIN mem' /\ mem'[a] = mem[a]
  BY <1>2, <1>4, <1>6
<1>9. Len(mem'[Pool]) = PoolLen
  BY <1>2, <1>6
<1>10. MInv'
  BY <1>1, <1>2, <1>4, <1>5, <1>7, <1>9 DEF MInv
<1> QED
  BY <1>5, <1>8, <1>10

\* If the allocations stay, so do the blocks.
LEMMA Kept ==
  ASSUME MInv, nodes' = nodes, mem' = Blocks(NULL, <<>>)
  PROVE  mem' = mem
<1>1. /\ \A a \in DOMAIN nodes \cup {Pool} : a # NULL
      /\ nodes' = nodes
      /\ mem \in [DOMAIN nodes \cup {Pool} -> Seq(Cell)]
  BY AddrAssumption, VecAssumption DEF MInv, Chain, dmtvars
<1>2. mem' = [a \in DOMAIN nodes \cup {Pool} |-> mem[a]]
  BY <1>1 DEF Blocks
<1> QED
  BY <1>1, <1>2

\* Elements are written to a block.
LEMMA Written ==
  ASSUME MInv, NEW b \in DOMAIN mem, NEW cells \in Seq(Cell), Len(cells) = Len(mem[b]),
         mem' = [mem EXCEPT ![b] = cells], UNCHANGED <<dmtvars, memsz>>, fault' \in BOOLEAN
  PROVE  /\ MInv' /\ aborted' = aborted
         /\ DOMAIN mem' = DOMAIN mem /\ mem'[b] = cells
         /\ \A a \in DOMAIN mem \ {b} : mem'[a] = mem[a]
<1>1. mem \in [DOMAIN nodes \cup {Pool} -> Seq(Cell)] /\ Len(mem[Pool]) = PoolLen
  BY DEF MInv
<1>2. mem' \in [DOMAIN nodes \cup {Pool} -> Seq(Cell)]
  BY <1>1
<1>3. DOMAIN mem' = DOMAIN mem /\ mem'[b] = cells /\ \A a \in DOMAIN mem \ {b} : mem'[a] = mem[a]
  BY <1>1
<1>4. Len(mem'[Pool]) = PoolLen
  BY <1>1, <1>3
<1>5. MInv'
  BY <1>2, <1>4 DEF MInv, dmtvars
<1> QED
  BY <1>3, <1>5 DEF dmtvars

---------------------------------------------------------------------------
(* The vectors *)

\* What the invariant says of one vector.
LEMMA OneVector ==
  ASSUME MInv, SInv, NEW v \in Vecs, v \notin beyond
  PROVE  /\ vec[v] \in StructType
         /\ vec[v].borrowed \in BOOLEAN /\ vec[v].length \in 0..MaxLen /\ vec[v].capacity \in Nat
         /\ vec[v].off \in 0..MaxLen /\ vec[v].data \in Addr \cup {NULL, Pool} /\ MaxLen \in Nat
         /\ seq[v] \in Seq(Value) /\ Elements(v) = seq[v] /\ Len(seq[v]) = vec[v].length
         /\ vec[v].length <= vec[v].capacity
         /\ vec[v].data = NULL => vec[v] = Zero /\ seq[v] = <<>> /\ vec[v].capacity = 0
         /\ vec[v].data # NULL =>
              /\ vec[v].data \in DOMAIN mem \ {Own}
              /\ vec[v].off + vec[v].capacity <= Len(mem[vec[v].data])
              /\ vec[v].off = 0 \/ vec[v].off + vec[v].capacity <= MaxLen
              /\ ~vec[v].borrowed => vec[v].data \in DOMAIN nodes /\ vec[v].off = 0
              /\ mem[vec[v].data] \in Seq(Cell)
              /\ seq[v] = SubSeq(mem[vec[v].data], vec[v].off + 1, vec[v].off + vec[v].length)
<1> DEFINE r == vec[v]
<1>1. r \in StructType /\ seq[v] \in Seq(Value) /\ Sound(r, seq[v], mem)
  BY DEF SInv
<1>2. MaxLen \in Nat /\ Pool \notin Addr
  BY VecAssumption
<1>3. /\ r.borrowed \in BOOLEAN /\ r.length \in 0..MaxLen /\ r.capacity \in Nat
      /\ r.off \in 0..MaxLen /\ r.data \in Addr \cup {NULL, Pool}
  BY <1>1 DEF StructType
<1>4. mem \in [DOMAIN nodes \cup {Pool} -> Seq(Cell)]
  BY DEF MInv
<1>5. CASE r.data = NULL
  <2>1. r = Zero /\ seq[v] = <<>>
    BY <1>1, <1>5 DEF Sound
  <2>2. r.length = 0 /\ r.capacity = 0
    BY <2>1 DEF Zero, Struct
  <2>3. Elements(v) = <<>>
    BY <1>5 DEF Elements
  <2> QED
    BY <1>1, <1>2, <1>3, <1>5, <2>1, <2>2, <2>3
<1>6. CASE r.data # NULL
  <2>1. /\ r.data \in DOMAIN mem \ {Own}
        /\ r.length <= r.capacity
        /\ r.off + r.capacity <= Len(mem[r.data])
        /\ r.off = 0 \/ r.off + r.capacity <= MaxLen
        /\ ~r.borrowed => r.data # Pool /\ r.off = 0
        /\ seq[v] = SubSeq(mem[r.data], r.off + 1, r.off + r.length)
    BY <1>1, <1>6 DEF Sound
  <2>2. mem[r.data] \in Seq(Cell)
    BY <1>4, <2>1
  <2>3. ~r.borrowed => r.data \in DOMAIN nodes
    BY <1>4, <2>1
  <2>4. Elements(v) = seq[v]
    BY <1>6, <2>1 DEF Elements
  <2>5. Len(seq[v]) = r.length
    <3> DEFINE cells == mem[r.data]
    <3>1. /\ r.off \in Nat /\ r.length \in Nat /\ r.off + r.length \in Nat
          /\ r.off <= r.off + r.length /\ (r.off + r.length) - r.off = r.length
      BY <1>3
    <3>2. cells \in Seq(Cell) /\ r.off + r.length <= Len(cells)
      BY <1>3, <2>1, <2>2
    <3> HIDE DEF cells
    <3>3. Len(SubSeq(cells, r.off + 1, r.off + r.length)) = r.length
      BY <3>1, <3>2, Segment
    <3> QED
      BY <2>1, <3>3 DEF cells
  <2> QED
    BY <1>1, <1>2, <1>3, <1>6, <2>1, <2>2, <2>3, <2>4, <2>5
<1> QED
  BY <1>5, <1>6

(***************************************************************************)
(* A call on v makes r of it, with the elements s.  The other vectors that *)
(* are still within the limits find their storage as it was.               *)
(***************************************************************************)
LEMMA Frame ==
  ASSUME SInv, OwnedOnce, NEW v \in Vecs, NEW r \in StructType, NEW s \in Seq(Value),
         vec' = [vec EXCEPT ![v] = r], seq' = [seq EXCEPT ![v] = s],
         beyond \subseteq beyond', beyond' \subseteq Vecs,
         \A u \in Vecs \ beyond' : u # v /\ vec[u].data # NULL =>
           vec[u].data \in DOMAIN mem' /\ mem'[vec[u].data] = mem[vec[u].data],
         v \notin beyond' => Sound(r, s, mem'),
         v \notin beyond' /\ ~r.borrowed /\ r.data # NULL =>
           \A u \in Vecs \ beyond' : u # v => vec[u].data # r.data \/ vec[u].borrowed
  PROVE  SInv' /\ OwnedOnce'
<1>1. /\ vec' \in [Vecs -> StructType] /\ seq' \in [Vecs -> Seq(Value)]
      /\ vec'[v] = r /\ seq'[v] = s
      /\ \A u \in Vecs : u # v => vec'[u] = vec[u] /\ seq'[u] = seq[u]
  BY DEF SInv
<1>2. ASSUME NEW u \in Vecs \ beyond' PROVE Sound(vec'[u], seq'[u], mem')
  <2>1. CASE u = v
    BY <1>1, <2>1
  <2>2. CASE u # v
    <3>1. Sound(vec[u], seq[u], mem)
      BY DEF SInv
    <3>2. vec[u].data # NULL => vec[u].data \in DOMAIN mem' /\ mem'[vec[u].data] = mem[vec[u].data]
      BY <2>2
    <3>3. Sound(vec[u], seq[u], mem')
      BY <3>1, <3>2 DEF Sound
    <3> QED
      BY <1>1, <2>2, <3>3
  <2> QED
    BY <2>1, <2>2
<1>3. SInv'
  BY <1>1, <1>2 DEF SInv
<1>4. ASSUME NEW x \in Vecs \ beyond', NEW y \in Vecs \ beyond',
             x # y, vec'[x].data = vec'[y].data, vec'[y].data # NULL
      PROVE  vec'[x].borrowed \/ vec'[y].borrowed
  <2>1. CASE x = v
    BY <1>1, <1>4, <2>1
  <2>2. CASE y = v
    BY <1>1, <1>4, <2>2
  <2>3. CASE x # v /\ y # v
    BY <1>1, <1>4, <2>3 DEF OwnedOnce
  <2> QED
    BY <2>1, <2>2, <2>3
<1>5. OwnedOnce'
  BY <1>4 DEF OwnedOnce
<1> QED
  BY <1>3, <1>5

LEMMA Quotient ==
  ASSUME NEW p \in Nat, NEW m \in Nat, m > 0
  PROVE  /\ p \div m \in Nat
         /\ p \div m <= p
         /\ m = 1 => p \div m = p
         /\ p = 0 => p \div m = 0
<1>1. p \div m \in Nat
  OBVIOUS
<1>2. p \div m <= p
  <2> DEFINE q == p \div m
  <2>1. q \in Nat /\ m * q <= p
    BY <1>1
  <2> HIDE DEF q
  <2>2. q <= m * q
    BY <2>1
  <2>3. q <= p
    BY <2>1, <2>2
  <2> QED
    BY <2>3 DEF q
<1> QED
  BY <1>1, <1>2

\* The storage that vec_expand_ and vec_reserve_ make.
LEMMA MovedIs ==
  ASSUME MInv, SInv, NEW v \in Vecs, v \notin beyond, NEW n \in Nat, NEW unit \in Nat
  PROVE  /\ Moved(v, n, unit) \in Seq(Cell)
         /\ n > 0 /\ unit = memsz /\ vec[v].length <= n /\ ~CutCopy(v, n) =>
              Len(Moved(v, n, unit)) = n /\ SubSeq(Moved(v, n, unit), 1, vec[v].length) = seq[v]
<1> DEFINE r   == vec[v]
           old == IF r.data = NULL THEN <<>>
                  ELSE IF r.borrowed THEN SubSeq(Elements(v), 1, r.length \div memsz)
                  ELSE mem[r.data]
           k   == (n * unit) \div memsz
           e(i) == IF i <= Len(old) THEN old[i] ELSE Junk
           new == [i \in 1..k |-> e(i)]
<1>1. Moved(v, n, unit) = new
  BY DEF Moved
<1>2. memsz \in Nat /\ memsz > 0 /\ n * unit \in Nat
  BY VecAssumption DEF MInv
<1>3. k \in Nat
  BY <1>2, Quotient
<1>4. /\ r.borrowed \in BOOLEAN /\ r.length \in Nat /\ r.off \in Nat /\ r.capacity \in Nat
      /\ seq[v] \in Seq(Value) /\ Elements(v) = seq[v] /\ Len(seq[v]) = r.length
      /\ r.length <= r.capacity
      /\ r.data = NULL => r.capacity = 0
      /\ r.data # NULL =>
           /\ r.off + r.capacity <= Len(mem[r.data])
           /\ ~r.borrowed => r.off = 0
           /\ mem[r.data] \in Seq(Cell)
           /\ seq[v] = SubSeq(mem[r.data], r.off + 1, r.off + r.length)
  BY OneVector
<1>5. r.length \div memsz \in Nat /\ r.length \div memsz <= r.length
      /\ (memsz = 1 \/ r.length = 0 => r.length \div memsz = r.length)
  BY <1>2, <1>4, Quotient
<1>6. seq[v] \in Seq(Cell)
  BY <1>4, SeqMonotonic DEF Cell
<1>7. old \in Seq(Cell)
  <2>1. SubSeq(Elements(v), 1, r.length \div memsz) \in Seq(Cell)
    <3> DEFINE b == r.length \div memsz
    <3>1. b \in Nat /\ b <= Len(seq[v])
      BY <1>4, <1>5
    <3> HIDE DEF b
    <3>2. SubSeq(seq[v], 1, b) \in Seq(Cell)
      BY <1>6, <3>1, Prefix
    <3> QED
      BY <1>4, <3>2 DEF b
  <2>2. <<>> \in Seq(Cell)
    OBVIOUS
  <2> QED
    BY <1>4, <2>1, <2>2
<1>8. \A i \in 1..k : e(i) \in Cell
  <2> HIDE DEF old, k
  <2> TAKE i \in 1..k
  <2>1. CASE i <= Len(old)
    <3>1. i \in 1..Len(old)
      BY <1>3, <1>7, <2>1
    <3> QED
      BY <1>7, <2>1, <3>1
  <2>2. CASE ~(i <= Len(old))
    BY <2>2 DEF Cell
  <2> QED
    BY <2>1, <2>2
<1> HIDE DEF e, k
<1>9. new \in Seq(Cell) /\ Len(new) = k /\ \A i \in 1..k : new[i] = e(i)
  <2>1. new \in Seq(Cell)
    BY <1>3, <1>8, IsASeq
  <2> QED
    BY <1>3, <2>1
<1> HIDE DEF new
<1>10. ASSUME n > 0, unit = memsz, r.length <= n, ~CutCopy(v, n)
       PROVE  Len(new) = n /\ SubSeq(new, 1, r.length) = seq[v]
  <2>1. k = n
    BY <1>2, <1>10, WholeElements DEF k
  <2>2. \A i \in 1..r.length : i <= Len(old) /\ old[i] = seq[v][i]
    <3>1. CASE r.data = NULL
      BY <1>4, <3>1
    <3>2. CASE r.data # NULL /\ r.borrowed
      <4>1. r.length \div memsz = r.length
        <5>1. r.length = 0 \/ memsz = 1
          BY <1>2, <1>4, <1>10, <3>2 DEF CutCopy
        <5> QED
          BY <1>5, <5>1
      <4>2. old = SubSeq(seq[v], 1, Len(seq[v]))
        BY <1>4, <3>2, <4>1
      <4>3. old = seq[v]
        BY <1>4, <4>2, SubSeqFull
      <4> HIDE DEF old
      <4> QED
        BY <1>4, <4>3
    <3>3. CASE r.data # NULL /\ ~r.borrowed
      <4>1. old = mem[r.data] /\ r.off = 0
        BY <1>4, <3>3
      <4>2. old \in Seq(Cell) /\ r.length <= Len(old) /\ seq[v] = SubSeq(old, 1, r.length)
        BY <1>4, <3>3, <4>1
      <4> HIDE DEF old
      <4>3. \A i \in 1..r.length : SubSeq(old, 1, r.length)[i] = old[i]
        BY <1>4, <4>2, Prefix
      <4> QED
        BY <1>4, <4>2, <4>3
    <3> QED
      BY <1>4, <3>1, <3>2, <3>3
  <2> HIDE DEF old
  <2>3. \A i \in 1..r.length : new[i] = seq[v][i]
    <3>1. \A i \in 1..r.length : i \in 1..k
      BY <1>4, <1>10, <2>1
    <3> QED
      BY <1>9, <2>2, <3>1 DEF e
  <2>4. /\ SubSeq(new, 1, r.length) \in Seq(Cell)
        /\ Len(SubSeq(new, 1, r.length)) = r.length
        /\ \A i \in 1..r.length : SubSeq(new, 1, r.length)[i] = new[i]
    <3>1. r.length <= Len(new)
      BY <1>4, <1>9, <1>10, <2>1
    <3> QED
      BY <1>4, <1>9, <3>1, Prefix
  <2>5. SubSeq(new, 1, r.length) = seq[v]
    <3> DEFINE a == SubSeq(new, 1, r.length)
    <3>1. a \in Seq(Cell) /\ Len(a) = Len(seq[v]) /\ \A i \in 1..Len(a) : a[i] = seq[v][i]
      BY <1>4, <2>3, <2>4
    <3> HIDE DEF a
    <3>2. a = seq[v]
      BY <1>6, <3>1, SeqEqual
    <3> QED
      BY <3>2 DEF a
  <2> QED
    BY <1>9, <2>1, <2>5
<1> QED
  BY <1>1, <1>9, <1>10

\* Insert writes cells only, also beyond the limits.
LEMMA InsertType ==
  ASSUME NEW v, vec[v].length \in Nat, NEW cells \in Seq(Cell), NEW off \in Nat, NEW idx \in Nat,
         idx <= vec[v].length, NEW s \in Seq(Cell)
  PROVE  /\ Insert(v, cells, off, idx, s) \in Seq(Cell)
         /\ Len(Insert(v, cells, off, idx, s)) = Len(cells)
<1> DEFINE len  == vec[v].length
           m    == off + idx
           tail == SubSeq(cells, m + 1, off + len)
           T    == Cell \cup {cells[i] : i \in (m + 1)..(off + len)}
           t    == s \o tail
<1>1. m \in Nat /\ off + len \in Nat /\ m <= off + len /\ Len(s) \in Nat /\ Len(cells) \in Nat
  OBVIOUS
<1>2. /\ tail \in Seq(T) /\ Len(tail) = (off + len) - m
      /\ \A i \in 1..((off + len) - m) : tail[i] = cells[m + i]
  <2>1. \A i \in (m + 1)..(off + len) : cells[i] \in T
    OBVIOUS
  <2>2. m + 1 \in Int /\ off + len \in Int
        /\ Len(tail) = (IF m + 1 <= off + len THEN (off + len) - (m + 1) + 1 ELSE 0)
             => Len(tail) = (off + len) - m
    BY <1>1, SMTT(30)
  <2> HIDE DEF T
  <2>3. /\ tail \in Seq(T)
        /\ Len(tail) = IF m + 1 <= off + len THEN (off + len) - (m + 1) + 1 ELSE 0
        /\ \A i \in 1..((off + len) - (m + 1) + 1) : tail[i] = cells[(m + 1) + i - 1]
    BY <2>1, <2>2, SubSeqProperties, SMTT(30)
  <2>4. (off + len) - (m + 1) + 1 = (off + len) - m
        /\ \A i \in 1..((off + len) - m) : (m + 1) + i - 1 = m + i
    BY <1>1
  <2> QED
    BY <2>2, <2>3, <2>4, SMTT(30)
<1>3. s \in Seq(T)
  BY SeqMonotonic
<1> HIDE DEF T, tail
<1>4. /\ Len(t) = Len(s) + Len(tail)
      /\ \A i \in 1..(Len(s) + Len(tail)) : t[i] = IF i <= Len(s) THEN s[i] ELSE tail[i - Len(s)]
  BY <1>2, <1>3, ConcatProperties
<1> HIDE DEF t
<1>5. ASSUME NEW i \in 1..Len(cells), m < i, i <= m + Len(t)
      PROVE  t[i - m] \in Cell
  <2>1. Len(tail) = (off + len) - m
    BY <1>2
  <2>2. i - m \in 1..(Len(s) + Len(tail))
    BY <1>1, <1>4, <1>5, <2>1
  <2>3. CASE i - m <= Len(s)
    <3>1. i - m \in 1..Len(s)
      BY <2>2, <2>3
    <3> QED
      BY <1>4, <2>2, <2>3, <3>1
  <2>4. CASE ~(i - m <= Len(s))
    <3>1. (i - m) - Len(s) \in 1..((off + len) - m) /\ m + ((i - m) - Len(s)) \in 1..Len(cells)
      BY <1>1, <2>1, <2>2, <2>4, SMTT(30)
    <3>2. t[i - m] = cells[m + ((i - m) - Len(s))]
      BY <1>2, <1>4, <2>2, <2>4, <3>1
    <3> QED
      BY <3>1, <3>2
  <2> QED
    BY <2>3, <2>4
<1>6. Len(t) \in Nat
  BY <1>1, <1>2, <1>4
<1>7. Put(cells, m, t) \in Seq(Cell) /\ Len(Put(cells, m, t)) = Len(cells)
  <2> HIDE DEF m
  <2>1. /\ m \in Nat /\ cells \in Seq(Cell) /\ Len(t) \in Nat
        /\ \A i \in 1..Len(cells) : m < i /\ i <= m + Len(t) => t[i - m] \in Cell
    BY <1>1, <1>5, <1>6
  <2>2. \A at \in Nat : (\A i \in 1..Len(cells) : at < i /\ i <= at + Len(t) => t[i - at] \in Cell)
          => /\ Put(cells, at, t) \in Seq(Cell)
             /\ Len(Put(cells, at, t)) = Len(cells)
    <3> TAKE at \in Nat
    <3> HAVE \A i \in 1..Len(cells) : at < i /\ i <= at + Len(t) => t[i - at] \in Cell
    <3>1. /\ Put(cells, at, t) \in Seq(Cell)
          /\ Len(Put(cells, at, t)) = Len(cells)
          /\ \A i \in 1..Len(cells) :
               Put(cells, at, t)[i] = IF at < i /\ i <= at + Len(t) THEN t[i - at] ELSE cells[i]
      BY <2>1, PutType, SMTT(30)
    <3> QED
      BY <3>1
  <2> QED
    BY <2>1, <2>2, Zenon
<1> QED
  BY <1>7 DEF t, tail, Insert

\* What Insert leaves in a vector.
LEMMA InsertElements ==
  ASSUME NEW v, vec[v].length \in Nat, NEW cells \in Seq(Cell), NEW off \in Nat, NEW idx \in Nat,
         idx <= vec[v].length, NEW s \in Seq(Cell), off + vec[v].length + Len(s) <= Len(cells)
  PROVE  Part(Insert(v, cells, off, idx, s), off, vec[v].length + Len(s))
           = Inserted(Part(cells, off, vec[v].length), idx, s)
<1> DEFINE len == vec[v].length
<1>1. len \in Nat /\ idx <= len /\ off + len + Len(s) <= Len(cells)
  OBVIOUS
<1>2. Insert(v, cells, off, idx, s) = Put(cells, off + idx, s \o SubSeq(cells, off + idx + 1, off + len))
  BY DEF Insert
<1> HIDE DEF len
<1>3. Part(Put(cells, off + idx, s \o SubSeq(cells, off + idx + 1, off + len)), off, len + Len(s))
        = Inserted(Part(cells, off, len), idx, s)
  BY <1>1, InsertExact
<1> QED
  BY <1>2, <1>3 DEF len

(***************************************************************************)
(* Functions that add elements.  Within the limits the storage they ask    *)
(* for has room for all.                                                   *)
(***************************************************************************)
LEMMA AddKeeps ==
  ASSUME VInv, NEW v \in Vecs, NEW n \in Nat, NEW unit \in Nat, NEW idx \in Nat,
         idx <= vec[v].length, NEW s \in Seq(Value), NEW limit \in BOOLEAN,
         Add(v, n, unit, idx, s, limit),
         n = 0 => vec[v].capacity # 0,
         n = 0 /\ ~limit => vec[v].length + Len(s) <= vec[v].capacity,
         n > 0 /\ ~limit => unit = memsz /\ vec[v].length + Len(s) <= n
  PROVE  VInv'
<1> DEFINE r   == vec[v]
           len == r.length + Len(s)
           E   == seq[v]
           new == Inserted(E, idx, s)
<1>1. MInv /\ SInv /\ OwnedOnce
  BY DEF VInv
<1>2. v \in Vecs /\ v \notin beyond /\ fault = FALSE /\ aborted = FALSE /\ len <= MaxLen
  BY <1>1 DEF Add, Usable, MInv
<1>3. /\ r.borrowed \in BOOLEAN /\ r.length \in Nat /\ r.capacity \in Nat
      /\ r.off \in 0..MaxLen /\ r.off \in Nat /\ MaxLen \in Nat
      /\ r.data \in Addr \cup {NULL, Pool}
      /\ E \in Seq(Value) /\ Len(E) = r.length
      /\ r.length <= r.capacity
      /\ r.data = NULL => r.capacity = 0
      /\ r.data # NULL =>
           /\ r.data \in DOMAIN mem \ {Own}
           /\ r.off + r.capacity <= Len(mem[r.data])
           /\ r.off = 0 \/ r.off + r.capacity <= MaxLen
           /\ ~r.borrowed => r.data \in DOMAIN nodes /\ r.off = 0
           /\ mem[r.data] \in Seq(Cell)
           /\ E = SubSeq(mem[r.data], r.off + 1, r.off + r.length)
  <2>1. r.length \in 0..MaxLen /\ r.off \in 0..MaxLen /\ MaxLen \in Nat
    BY <1>1, <1>2, OneVector
  <2>2. r.length \in Nat /\ r.off \in Nat
    BY <2>1
  <2> QED
    BY <1>1, <1>2, <2>1, <2>2, OneVector
<1>4. s \in Seq(Cell) /\ Len(s) \in Nat /\ len \in Nat /\ len \in 0..MaxLen
  <2>1. s \in Seq(Cell)
    BY SeqMonotonic DEF Cell
  <2> QED
    BY <1>2, <1>3, <2>1
<1>5. new \in Seq(Value)
  <2>1. SubSeq(E, 1, idx) \in Seq(Value)
    BY <1>3, Prefix
  <2>2. SubSeq(E, idx + 1, Len(E)) \in Seq(Value)
    <3>1. E \in Seq(Value) /\ idx <= Len(E) /\ Len(E) \in Nat /\ Len(E) <= Len(E)
      BY <1>3
    <3> HIDE DEF E
    <3> QED
      BY <3>1, Segment
  <2> QED
    BY <2>1, <2>2, Concat3 DEF Inserted
<1>6. seq' = [seq EXCEPT ![v] = new]
  <2>1. seq' = [seq EXCEPT ![v] = SubSeq(@, 1, idx) \o s \o SubSeq(@, idx + 1, Len(@))]
    BY DEF Add
  <2> QED
    BY <2>1 DEF Inserted
<1>7. /\ beyond' = beyond \cup (IF limit \/ CutCopy(v, n) THEN {v} ELSE {})
                         \cup (IF n > 0 /\ r.borrowed THEN {} ELSE Sharing(v))
      /\ memsz' = memsz
  BY DEF Add
<1>8. /\ beyond \subseteq beyond' /\ beyond' \subseteq Vecs
      /\ v \notin beyond' => ~limit /\ ~CutCopy(v, n)
      /\ limit => v \in beyond'
      /\ ~(n > 0 /\ r.borrowed) =>
           \A u \in Vecs \ beyond' : u # v /\ r.data # NULL => vec[u].data # r.data
  <2>1. beyond \subseteq Vecs
    BY <1>1 DEF SInv
  <2> QED
    BY <1>7, <2>1 DEF Sharing
<1> HIDE DEF new
<1>9. ASSUME NEW u \in Vecs \ beyond', u # v, vec[u].data # NULL
      PROVE  vec[u].data \in DOMAIN mem
  BY <1>1, <1>8, <1>9, OneVector
<1>10. CASE n = 0
  <2> DEFINE cells == mem[r.data]
             ins   == Insert(v, cells, r.off, idx, s)
             r2    == [r EXCEPT !.length = len]
  <2>1. /\ r.data # NULL /\ r.data \in DOMAIN mem \ {Own} /\ cells \in Seq(Cell)
        /\ E = SubSeq(cells, r.off + 1, r.off + r.length)
        /\ r.off + r.capacity <= Len(cells)
    BY <1>3, <1>10
  <2>2. /\ vec' = [vec EXCEPT ![v].length = len]
        /\ mem' = [mem EXCEPT ![r.data] = ins]
        /\ fault' = (r.off + len > Len(cells))
        /\ UNCHANGED dmtvars
    <3>1. mem' = [mem EXCEPT ![r.data] = Insert(v, @, r.off, idx, s)]
      BY <1>10 DEF Add
    <3>2. ~(n > 0)
      BY <1>10
    <3>3. /\ vec' = [vec EXCEPT ![v].length = len]
          /\ fault' = (r.off + len > Len(cells))
          /\ UNCHANGED dmtvars
      BY <3>2, Zenon DEF Add
    <3> QED
      BY <2>1, <3>1, <3>3
  <2>3. ins \in Seq(Cell) /\ Len(ins) = Len(cells)
    <3>1. cells \in Seq(Cell) /\ r.off \in Nat /\ vec[v].length \in Nat /\ s \in Seq(Cell)
      BY <1>3, <1>4, <2>1
    <3> HIDE DEF cells
    <3> QED
      BY <3>1, InsertType
  <2>4. /\ r \in StructType
        /\ r2 \in StructType /\ r2.borrowed = r.borrowed /\ r2.length = len
        /\ r2.capacity = r.capacity /\ r2.data = r.data /\ r2.off = r.off
        /\ vec' = [vec EXCEPT ![v] = r2]
    <3>1. r \in StructType /\ vec \in [Vecs -> StructType]
      BY <1>1 DEF SInv
    <3>2. len \in 0..MaxLen
      BY <1>4
    <3> HIDE DEF len
    <3> QED
      BY <2>2, <3>1, <3>2 DEF StructType
  <2> HIDE DEF r2
  <2>5. fault' \in BOOLEAN
    BY <2>2
  <2> HIDE DEF ins
  <2>6. /\ MInv' /\ aborted' = aborted
        /\ DOMAIN mem' = DOMAIN mem /\ mem'[r.data] = ins
        /\ \A a \in DOMAIN mem \ {r.data} : mem'[a] = mem[a]
    <3>1. r.data \in DOMAIN mem /\ Len(ins) = Len(mem[r.data]) /\ ins \in Seq(Cell)
      BY <2>1, <2>3
    <3> QED
      BY <1>1, <1>7, <2>2, <2>5, <3>1, Written
  <2>7. ~limit => len <= r.capacity /\ r.off + len <= Len(cells) /\ fault' = FALSE
    <3>1. ~limit => len <= r.capacity
      BY <1>10
    <3>2. r.off + r.capacity <= Len(cells) /\ Len(cells) \in Nat
      BY <2>1
    <3>3. r.capacity \in Nat /\ len \in Nat /\ r.off \in Nat
      BY <1>3, <1>4
    <3>4. fault' = (r.off + len > Len(cells))
      BY <2>2
    <3> HIDE DEF r, len, cells
    <3>5. ~limit => r.off + len <= Len(cells)
      BY <3>1, <3>2, <3>3
    <3>6. ~limit => ~(r.off + len > Len(cells))
      BY <3>2, <3>3, <3>5
    <3> QED
      BY <3>1, <3>4, <3>5, <3>6
  <2>8. v \notin beyond' => Sound(r2, new, mem')
    <3> SUFFICES ASSUME v \notin beyond' PROVE Sound(r2, new, mem')
      OBVIOUS
    <3>1. len <= r.capacity /\ r.off + vec[v].length + Len(s) <= Len(cells)
      <4>1. len <= r.capacity /\ r.off + len <= Len(cells)
        BY <1>8, <2>7
      <4>2. r.off + vec[v].length + Len(s) = r.off + len
        BY <1>3, <1>4, SMTT(30)
      <4> QED
        BY <4>1, <4>2
    <3>2. SubSeq(ins, r.off + 1, r.off + len) = new
      <4>1. /\ cells \in Seq(Cell) /\ r.off \in Nat /\ vec[v].length \in Nat /\ s \in Seq(Cell)
            /\ E = Part(cells, r.off, vec[v].length)
        BY <1>3, <1>4, <2>1 DEF Part
      <4>2. Part(Insert(v, cells, r.off, idx, s), r.off, vec[v].length + Len(s)) = Inserted(E, idx, s)
        <5> HIDE DEF cells, E
        <5> QED
          BY <3>1, <4>1, InsertElements
      <4> QED
        BY <4>2 DEF new, ins, Part
    <3>3. r2.data \in DOMAIN mem' \ {Own} /\ r2.data # NULL
      BY <2>1, <2>4, <2>6
    <3>4. r2.length <= r2.capacity
      BY <2>4, <3>1
    <3>5. r2.off + r2.capacity <= Len(mem'[r2.data])
      BY <2>1, <2>3, <2>4, <2>6
    <3>6. r2.off = 0 \/ r2.off + r2.capacity <= MaxLen
      BY <1>3, <2>1, <2>4
    <3>7. ~r2.borrowed => r2.data # Pool /\ r2.off = 0
      <4>1. Pool \notin DOMAIN nodes
        BY <1>1, VecAssumption DEF MInv, Chain
      <4> QED
        BY <1>3, <2>1, <2>4, <4>1
    <3>8. new = SubSeq(mem'[r2.data], r2.off + 1, r2.off + r2.length)
      BY <2>4, <2>6, <3>2
    <3> QED
      BY <3>3, <3>4, <3>5, <3>6, <3>7, <3>8 DEF Sound
  <2>9. \A u \in Vecs \ beyond' : u # v => vec[u].data # r.data
    BY <1>8, <1>10, <2>1
  <2>10. \A u \in Vecs \ beyond' : u # v /\ vec[u].data # NULL =>
            vec[u].data \in DOMAIN mem' /\ mem'[vec[u].data] = mem[vec[u].data]
    BY <1>9, <2>6, <2>9
  <2>11. SInv' /\ OwnedOnce'
    BY <1>1, <1>5, <1>6, <1>8, <2>4, <2>8, <2>9, <2>10, Frame, ZenonT(30)
  <2>12. SafeWithinLimits'
    BY <1>2, <1>8, <2>6, <2>7 DEF SafeWithinLimits
  <2> QED
    BY <2>6, <2>11, <2>12 DEF VInv
<1>11. CASE n > 0
  <2> DEFINE p     == IF r.borrowed THEN NULL ELSE r.data
             cells == Moved(v, n, unit)
             ins   == Insert(v, cells, 0, idx, s)
  <2>1. PICK q \in Results(p) :
          /\ VEC_ALLOC(p, q, n * unit)
          /\ vec' = [vec EXCEPT ![v] = Struct(FALSE, len, n, q, 0)]
          /\ mem' = Blocks(q, ins)
          /\ fault' = (len > Len(cells))
    <3>1. n # 0
      BY <1>11
    <3> QED
      BY <3>1, Zenon DEF Add
  <2> DEFINE r2 == Struct(FALSE, len, n, q, 0)
  <2>2. p \in (DOMAIN nodes \ {Own}) \cup {NULL}
    BY <1>3
  <2>3. /\ cells \in Seq(Cell)
        /\ unit = memsz /\ r.length <= n /\ ~CutCopy(v, n) =>
             Len(cells) = n /\ SubSeq(cells, 1, r.length) = E
    BY <1>1, <1>2, <1>11, MovedIs
  <2> HIDE DEF cells
  <2>4. ins \in Seq(Cell) /\ Len(ins) = Len(cells)
    <3>1. cells \in Seq(Cell) /\ 0 \in Nat /\ vec[v].length \in Nat /\ s \in Seq(Cell)
      BY <1>3, <1>4, <2>3
    <3> QED
      BY <3>1, InsertType
  <2>5. n * unit \in Nat /\ fault' \in BOOLEAN
    BY <2>1
  <2> HIDE DEF ins
  <2>6. /\ MInv' /\ aborted' = aborted
        /\ q \in DOMAIN mem' \ {Own} /\ q \in Addr /\ q # Pool /\ q # NULL /\ mem'[q] = ins
        /\ q \notin DOMAIN mem \ {p}
        /\ \A a \in DOMAIN mem \ {p} : a \in DOMAIN mem' /\ mem'[a] = mem[a]
    <3> HIDE DEF p
    <3> QED
      BY <1>1, <1>7, <2>1, <2>2, <2>4, <2>5, Allocated
  <2>7. /\ r2 \in StructType /\ r2.borrowed = FALSE /\ r2.length = len
        /\ r2.capacity = n /\ r2.data = q /\ r2.off = 0
    <3>1. len \in 0..MaxLen /\ q \in Addr /\ 0 \in 0..MaxLen
      BY <1>3, <1>4, <2>6
    <3> HIDE DEF len
    <3> QED
      BY <3>1 DEF Struct, StructType
  <2> HIDE DEF r2
  <2>8. ~limit /\ ~CutCopy(v, n) => len <= Len(cells) /\ Len(cells) = n
    BY <1>3, <1>4, <1>11, <2>3
  <2>9. v \notin beyond' => Sound(r2, new, mem')
    <3> SUFFICES ASSUME v \notin beyond' PROVE Sound(r2, new, mem')
      OBVIOUS
    <3>1. len <= n /\ Len(cells) = n /\ SubSeq(cells, 1, r.length) = E
      BY <1>3, <1>4, <1>8, <1>11, <2>3, SMTT(30)
    <3>2. SubSeq(ins, 1, len) = new
      <4>1. 0 + 1 = 1 /\ 0 + r.length = r.length /\ 0 + len = len
            /\ 0 + r.length + Len(s) <= Len(cells)
        BY <1>3, <1>4, <3>1
      <4>2. /\ cells \in Seq(Cell) /\ 0 \in Nat /\ vec[v].length \in Nat /\ s \in Seq(Cell)
            /\ E = Part(cells, 0, vec[v].length)
        BY <1>3, <1>4, <2>3, <3>1, <4>1 DEF Part
      <4>3. Part(Insert(v, cells, 0, idx, s), 0, vec[v].length + Len(s)) = Inserted(E, idx, s)
        <5> HIDE DEF E
        <5> QED
          BY <4>1, <4>2, InsertElements, SMTT(30)
      <4>4. SubSeq(ins, 0 + 1, 0 + len) = new
        BY <4>3 DEF new, ins, Part
      <4> QED
        BY <4>1, <4>4
    <3>3. r2.off + 1 = 1 /\ r2.off + r2.length = len
      BY <1>4, <2>7
    <3>4. new = SubSeq(mem'[r2.data], r2.off + 1, r2.off + r2.length)
      BY <2>6, <2>7, <3>2, <3>3
    <3>5. r2.length <= r2.capacity /\ r2.off + r2.capacity <= Len(mem'[r2.data])
      BY <2>4, <2>6, <2>7, <3>1
    <3> QED
      BY <2>6, <2>7, <3>4, <3>5 DEF Sound
  <2>10. ASSUME NEW u \in Vecs \ beyond', u # v, vec[u].data # NULL
         PROVE  vec[u].data \in DOMAIN mem \ {p}
    <3>1. CASE r.borrowed
      BY <1>9, <2>10, <3>1
    <3>2. CASE ~r.borrowed
      <4>1. r.data = NULL \/ vec[u].data # r.data
        BY <1>8, <2>10, <3>2
      <4> QED
        BY <1>9, <2>10, <3>2, <4>1
    <3> QED
      BY <3>1, <3>2
  <2> HIDE DEF p
  <2>11. \A u \in Vecs \ beyond' : u # v /\ vec[u].data # NULL =>
           vec[u].data \in DOMAIN mem' /\ mem'[vec[u].data] = mem[vec[u].data]
    BY <2>6, <2>10
  <2>12. \A u \in Vecs \ beyond' : u # v => vec[u].data # r2.data
    BY <2>6, <2>7, <2>10
  <2>13. SInv' /\ OwnedOnce'
    <3>1. vec' = [vec EXCEPT ![v] = r2]
      BY <2>1 DEF r2
    <3> QED
      BY <1>1, <1>5, <1>6, <1>8, <2>7, <2>9, <2>11, <2>12, <3>1, Frame
  <2>14. SafeWithinLimits'
    <3>1. v \in beyond' \/ ~fault'
      <4> SUFFICES ASSUME v \notin beyond' PROVE ~fault'
        OBVIOUS
      <4> DEFINE over == len > Len(cells)
      <4>1. len <= Len(cells) /\ Len(cells) = n
        BY <1>8, <2>8
      <4>2. ~over
        <5> HIDE DEF len
        <5> QED
          BY <1>4, <4>1
      <4>3. fault' = over
        BY <2>1
      <4> HIDE DEF over
      <4> QED
        BY <4>2, <4>3, Zenon
    <3> QED
      BY <1>2, <2>6, <3>1 DEF SafeWithinLimits
  <2> QED
    BY <2>6, <2>13, <2>14 DEF VInv
<1> QED
  BY <1>10, <1>11

\* The vectors a call is made on.
LEMMA UsableIs ==
  ASSUME VInv, NEW v \in Vecs, Usable(v)
  PROVE  /\ v \notin beyond /\ fault = FALSE /\ aborted = FALSE
         /\ vec[v].length \in Nat /\ vec[v].capacity \in Nat /\ memsz \in Nat /\ memsz > 0
         /\ vec[v].length <= vec[v].capacity
         /\ seq[v] \in Seq(Value) /\ Len(seq[v]) = vec[v].length /\ Elements(v) = seq[v]
<1>1. MInv /\ SInv /\ v \notin beyond
  BY DEF VInv, Usable
<1>2. fault = FALSE /\ aborted = FALSE /\ memsz \in Nat /\ memsz > 0
  BY <1>1, VecAssumption DEF MInv, Usable
<1>3. vec[v].length \in 0..MaxLen /\ MaxLen \in Nat
  BY <1>1, OneVector
<1>4. vec[v].length \in Nat
  BY <1>3
<1> QED
  BY <1>1, <1>2, <1>4, OneVector

LEMMA PushKeeps ==
  ASSUME VInv, NEW v \in Vecs, NEW x \in Value, VecPush(v, x)
  PROVE  VInv'
<1> DEFINE n     == vec_expand(v)
           s     == <<x>>
           limit == FALSE
<1>1. Add(v, n, memsz, vec[v].length, s, limit)
  BY DEF VecPush
<1>2. Usable(v)
  BY <1>1 DEF Add
<1>3. vec[v].length \in Nat /\ vec[v].capacity \in Nat /\ memsz \in Nat
  BY <1>2, UsableIs
<1>4. s \in Seq(Value) /\ Len(s) = 1 /\ limit \in BOOLEAN /\ vec[v].length <= vec[v].length
  BY <1>3
<1>5. /\ n \in Nat
      /\ n = 0 => vec[v].length + 1 <= vec[v].capacity
      /\ n > 0 => vec[v].length + 1 <= n
  <2>1. vec[v].length <= vec[v].capacity
    BY <1>2, UsableIs
  <2> QED
    BY <1>3, <2>1 DEF vec_expand
<1>6. n = 0 => vec[v].capacity # 0
  BY <1>3, <1>5
<1> HIDE DEF n, s, limit
<1> QED
  BY <1>1, <1>3, <1>4, <1>5, <1>6, AddKeeps, ZenonT(30)

LEMMA PushArrKeeps ==
  ASSUME VInv, NEW v \in Vecs, NEW s \in Seq(Value), VecPushArr(v, s)
  PROVE  VInv'
<1>1. PICK n \in vec_reserve_po2(v, vec[v].length + Len(s)) :
        Add(v, n, memsz, vec[v].length, s, FALSE)
  BY DEF VecPushArr
<1>2. Usable(v) /\ (n > 0 \/ s # <<>>)
  BY <1>1 DEF Add
<1>3. vec[v].length \in Nat /\ vec[v].capacity \in Nat /\ memsz \in Nat /\ Len(s) \in Nat
  <2>1. vec[v].length \in Nat /\ vec[v].capacity \in Nat /\ memsz \in Nat
    BY <1>2, UsableIs
  <2> QED
    BY <2>1
<1> DEFINE m == vec[v].length + Len(s)
<1>4. m \in Nat
  BY <1>3
<1>5. /\ n \in Nat
      /\ n = 0 => m <= vec[v].capacity
      /\ n > 0 => m <= n
  <2>1. CASE m = 0
    BY <1>1, <1>3, <2>1 DEF vec_reserve_po2
  <2>2. CASE m # 0
    <3>1. PICK k \in m..(2 * m - 1) : n = vec_reserve(v, k)
      BY <1>1, <2>2 DEF vec_reserve_po2
    <3> HIDE DEF m
    <3> QED
      BY <1>3, <1>4, <3>1 DEF vec_reserve
  <2> QED
    BY <2>1, <2>2
<1>6. n = 0 => vec[v].capacity # 0
  <2>1. n = 0 => Len(s) > 0
    BY <1>2, <1>3
  <2> QED
    BY <1>3, <1>5, <2>1
<1> DEFINE limit == FALSE
<1>7. limit \in BOOLEAN /\ vec[v].length <= vec[v].length
  BY <1>3
<1>8. Add(v, n, memsz, vec[v].length, s, limit)
  BY <1>1
<1> HIDE DEF limit
<1> QED
  BY <1>3, <1>5, <1>6, <1>7, <1>8, AddKeeps

LEMMA ExtendKeeps ==
  ASSUME VInv, NEW v \in Vecs, NEW u \in Vecs, VecExtend(v, u)
  PROVE  VInv'
<1>1. Elements(u) \in Seq(Value)
  BY UsableIs DEF VecExtend
<1> QED
  BY <1>1, PushArrKeeps DEF VecExtend

LEMMA ReserveKeeps ==
  ASSUME VInv, NEW v \in Vecs, NEW m \in Nat, VecReserve(v, m)
  PROVE  VInv'
<1> DEFINE n     == vec_reserve(v, m)
           s     == <<>>
           limit == FALSE
<1>1. Add(v, n, memsz, vec[v].length, s, limit)
  BY DEF VecReserve
<1>2. Usable(v) /\ n > 0
  BY <1>1 DEF Add
<1>3. vec[v].length \in Nat /\ vec[v].capacity \in Nat /\ memsz \in Nat
      /\ vec[v].length <= vec[v].capacity
  BY <1>2, UsableIs
<1>4. s \in Seq(Value) /\ Len(s) = 0 /\ limit \in BOOLEAN /\ vec[v].length <= vec[v].length
  BY <1>3
<1>5. n \in Nat /\ n # 0 /\ vec[v].length + 0 <= n
  BY <1>2, <1>3 DEF vec_reserve
<1> HIDE DEF n, s, limit
<1> QED
  BY <1>1, <1>3, <1>4, <1>5, AddKeeps

LEMMA InsertKeeps ==
  ASSUME VInv, NEW v \in Vecs, NEW idx \in Nat, NEW s \in Seq(Value), VecInsert(v, idx, s)
  PROVE  VInv'
<1> DEFINE n     == vec_expand(v)
           unit  == memsz * Len(s)
           limit == Overrun(v, n, Len(s))
<1>1. Add(v, n, unit, idx, s, limit) /\ idx <= vec[v].length
  BY DEF VecInsert
<1>2. Usable(v)
  BY <1>1 DEF Add
<1>3. vec[v].length \in Nat /\ vec[v].capacity \in Nat /\ memsz \in Nat /\ Len(s) \in Nat
  <2>1. vec[v].length \in Nat /\ vec[v].capacity \in Nat /\ memsz \in Nat
    BY <1>2, UsableIs
  <2> QED
    BY <2>1
<1>4. /\ n \in Nat
      /\ n = 0 => vec[v].length + 1 <= vec[v].capacity
      /\ n > 0 => vec[v].length + 1 <= n
  <2>1. vec[v].length <= vec[v].capacity
    BY <1>2, UsableIs
  <2> QED
    BY <1>3, <2>1, SMTT(30) DEF vec_expand
<1>5. unit \in Nat /\ limit \in BOOLEAN
  BY <1>3 DEF Overrun
<1>6. n = 0 => vec[v].capacity # 0
  BY <1>3, <1>4
<1> HIDE DEF n
<1>7. n = 0 /\ ~limit => vec[v].length + Len(s) <= vec[v].capacity
  <2>1. SUFFICES ASSUME n = 0, ~limit PROVE vec[v].length + Len(s) <= vec[v].capacity
    OBVIOUS
  <2>2. Len(s) = 1 \/ ~(vec[v].length + Len(s) > vec[v].capacity)
    BY <2>1, Zenon DEF Overrun
  <2> HIDE DEF limit
  <2>3. CASE Len(s) = 1
    BY <1>3, <1>4, <2>1, <2>3
  <2>4. CASE ~(vec[v].length + Len(s) > vec[v].capacity)
    BY <1>3, <2>4
  <2> QED
    BY <2>2, <2>3, <2>4
<1>8. n > 0 /\ ~limit => unit = memsz /\ vec[v].length + Len(s) <= n
  <2>1. SUFFICES ASSUME n > 0, ~limit PROVE unit = memsz /\ vec[v].length + Len(s) <= n
    OBVIOUS
  <2>2. Len(s) = 1
    BY <2>1, Zenon DEF Overrun
  <2> QED
    BY <1>3, <1>4, <2>1, <2>2
<1> HIDE DEF unit, limit
<1> QED
  BY <1>1, <1>4, <1>5, <1>6, <1>7, <1>8, AddKeeps

---------------------------------------------------------------------------
(* Functions that rewrite the elements in place *)

LEMMA RewriteKeeps ==
  ASSUME VInv, NEW v \in Vecs, NEW s \in Seq(Value), Len(s) = Len(seq[v]),
         NEW len \in Nat, len <= Len(s), NEW expected \in Seq(Value), NEW limit \in BOOLEAN,
         Rewrite(v, s, len, expected, limit),
         ~limit => SubSeq(s, 1, len) = expected
  PROVE  VInv'
<1> DEFINE r     == vec[v]
           cells == mem[r.data]
           new   == Put(cells, r.off, s)
           r2    == [r EXCEPT !.length = len]
<1>1. MInv /\ SInv /\ OwnedOnce /\ Usable(v) /\ r.length > 0
  BY DEF VInv, Rewrite
<1>2. /\ v \notin beyond /\ fault = FALSE /\ aborted = FALSE
      /\ r.length \in Nat /\ Len(seq[v]) = r.length
  BY <1>1, UsableIs
<1>3. /\ r.length \in 0..MaxLen /\ r.capacity \in Nat /\ r.off \in 0..MaxLen /\ MaxLen \in Nat
      /\ r.length <= r.capacity
      /\ r.data = NULL => r.capacity = 0
      /\ r.data # NULL =>
           /\ r.data \in DOMAIN mem \ {Own}
           /\ r.off + r.capacity <= Len(cells)
           /\ r.off = 0 \/ r.off + r.capacity <= MaxLen
           /\ ~r.borrowed => r.data \in DOMAIN nodes /\ r.off = 0
           /\ cells \in Seq(Cell)
  BY <1>1, <1>2, OneVector
<1>4. /\ r.data # NULL /\ r.data \in DOMAIN mem \ {Own} /\ cells \in Seq(Cell)
      /\ r.off \in Nat /\ r.off + r.capacity <= Len(cells) /\ Len(cells) \in Nat
      /\ Len(s) <= r.capacity /\ r.off + Len(s) <= Len(cells)
  <2>1. r.data # NULL
    BY <1>1, <1>2, <1>3
  <2>2. r.data \in DOMAIN mem \ {Own} /\ cells \in Seq(Cell) /\ r.off + r.capacity <= Len(cells)
    BY <1>3, <2>1
  <2>3. Len(cells) \in Nat
    BY <2>2
  <2>4. Len(s) = r.length
    BY <1>2
  <2>5. r.off \in Nat /\ r.off + r.length <= Len(cells)
    <3>1. /\ r.length \in Nat /\ r.capacity \in Nat /\ r.off \in 0..MaxLen /\ MaxLen \in Nat
          /\ r.length <= r.capacity
      BY <1>2, <1>3
    <3>2. r.off \in Nat
      BY ONLY <3>1
    <3> HIDE DEF r, cells
    <3> QED
      BY ONLY <2>2, <2>3, <3>1, <3>2
  <2> QED
    BY <1>3, <2>1, <2>2, <2>3, <2>4, <2>5
<1>5. s \in Seq(Cell)
  BY SeqMonotonic DEF Cell
<1>6. new \in Seq(Cell) /\ Len(new) = Len(cells)
  BY <1>4, <1>5, PutIs
<1>7. /\ vec' = [vec EXCEPT ![v].length = len]
      /\ mem' = [mem EXCEPT ![r.data] = new]
      /\ seq' = [seq EXCEPT ![v] = expected]
      /\ beyond' = beyond \cup Sharing(v) \cup (IF limit THEN {v} ELSE {})
      /\ UNCHANGED <<dmtvars, memsz>> /\ fault' = fault
  BY <1>4 DEF Rewrite
<1> HIDE DEF new
<1>8. /\ MInv' /\ aborted' = aborted
      /\ DOMAIN mem' = DOMAIN mem /\ mem'[r.data] = new
      /\ \A a \in DOMAIN mem \ {r.data} : mem'[a] = mem[a]
  <2>1. r.data \in DOMAIN mem /\ fault' \in BOOLEAN
    BY <1>1, <1>4, <1>7 DEF MInv
  <2> QED
    BY <1>1, <1>6, <1>7, <2>1, Written
<1>9. /\ beyond \subseteq beyond' /\ beyond' \subseteq Vecs
      /\ v \notin beyond' => ~limit
      /\ \A u \in Vecs \ beyond' : u # v => vec[u].data # r.data
  <2>1. beyond \subseteq Vecs
    BY <1>1 DEF SInv
  <2> QED
    BY <1>4, <1>7, <2>1 DEF Sharing
<1>10. /\ r \in StructType
       /\ r2 \in StructType /\ r2.borrowed = r.borrowed /\ r2.length = len
       /\ r2.capacity = r.capacity /\ r2.data = r.data /\ r2.off = r.off
       /\ vec' = [vec EXCEPT ![v] = r2]
  <2>1. r \in StructType /\ vec \in [Vecs -> StructType]
    BY <1>1 DEF SInv
  <2>2. len \in 0..MaxLen
    BY <1>2, <1>3
  <2> QED
    BY <1>7, <2>1, <2>2 DEF StructType
<1> HIDE DEF r2
<1>11. v \notin beyond' => Sound(r2, expected, mem')
  <2> SUFFICES ASSUME v \notin beyond' PROVE Sound(r2, expected, mem')
    OBVIOUS
  <2>1. SubSeq(new, r.off + 1, r.off + len) = expected
    <3>1. SubSeq(new, r.off + 1, r.off + len) = SubSeq(s, 1, len)
      <4>1. Part(Put(cells, r.off, s), r.off, len) = Part(s, 0, len)
        <5> HIDE DEF cells
        <5> QED
          BY <1>4, <1>5, WriteBack
      <4>2. 0 + 1 = 1 /\ 0 + len = len
        OBVIOUS
      <4> QED
        BY <4>1, <4>2 DEF new, Part
    <3> QED
      BY <1>9, <3>1
  <2>2. ~r2.borrowed => r2.data # Pool /\ r2.off = 0
    <3>1. Pool \notin DOMAIN nodes
      BY <1>1, VecAssumption DEF MInv, Chain
    <3> QED
      BY <1>3, <1>4, <1>10, <3>1
  <2>3. r2.length <= r2.capacity
    BY <1>2, <1>3, <1>10
  <2>4. r2.off + r2.capacity <= Len(mem'[r2.data])
    BY <1>4, <1>6, <1>8, <1>10
  <2>5. r2.off = 0 \/ r2.off + r2.capacity <= MaxLen
    BY <1>3, <1>4, <1>10
  <2>6. r2.data \in DOMAIN mem' \ {Own} /\ r2.data # NULL
    BY <1>4, <1>8, <1>10
  <2>7. expected = SubSeq(mem'[r2.data], r2.off + 1, r2.off + r2.length)
    BY <1>8, <1>10, <2>1
  <2> QED
    BY <2>2, <2>3, <2>4, <2>5, <2>6, <2>7 DEF Sound
<1>12. \A u \in Vecs \ beyond' : u # v /\ vec[u].data # NULL =>
          vec[u].data \in DOMAIN mem' /\ mem'[vec[u].data] = mem[vec[u].data]
  <2> SUFFICES ASSUME NEW u \in Vecs \ beyond', u # v, vec[u].data # NULL
               PROVE  vec[u].data \in DOMAIN mem' /\ mem'[vec[u].data] = mem[vec[u].data]
    OBVIOUS
  <2>1. vec[u].data \in DOMAIN mem
    BY <1>1, <1>9, OneVector
  <2> QED
    BY <1>8, <1>9, <2>1
<1>13. SInv' /\ OwnedOnce'
  <2>1. \A u \in Vecs \ beyond' : u # v => vec[u].data # r2.data
    BY <1>9, <1>10
  <2>2. seq' = [seq EXCEPT ![v] = expected]
    BY <1>7
  <2> QED
    BY <1>1, <1>9, <1>10, <1>11, <1>12, <2>1, <2>2, Frame
<1>14. SafeWithinLimits'
  BY <1>2, <1>7, <1>8 DEF SafeWithinLimits
<1> QED
  BY <1>8, <1>13, <1>14 DEF VInv

LEMMA SpliceKeeps ==
  ASSUME VInv, NEW v \in Vecs, NEW start \in Nat, NEW count \in Nat, VecSplice(v, start, count)
  PROVE  VInv'
<1> DEFINE s        == seq[v]
           w        == vec_splice(s, start, count)
           len      == Len(s) - count
           limit    == FALSE
           expected == SubSeq(s, 1, start) \o SubSeq(s, start + count + 1, Len(s))
<1>1. Usable(v) /\ start + count <= Len(Elements(v))
  BY DEF VecSplice
<1>2. s \in Seq(Value) /\ Elements(v) = s
  BY <1>1, UsableIs
<1>3. Rewrite(v, w, len, expected, limit)
  BY <1>2 DEF VecSplice
<1>4. start + count <= Len(s) /\ Len(s) \in Nat
  BY <1>1, <1>2
<1>5. w \in Seq(Value) /\ Len(w) = Len(s) /\ SubSeq(w, 1, len) = expected
  <2> HIDE DEF s
  <2> QED
    BY <1>2, <1>4, SpliceExact, ZenonT(30)
<1>6. len \in Nat /\ len <= Len(w) /\ limit \in BOOLEAN
  BY <1>4, <1>5
<1>7. expected \in Seq(Value)
  <2> HIDE DEF w, len, expected
  <2>1. SubSeq(w, 1, len) \in Seq(Value)
    BY <1>5, <1>6, Prefix
  <2> QED
    BY <1>5, <2>1
<1> HIDE DEF w, len, limit, expected
<1> QED
  BY <1>3, <1>5, <1>6, <1>7, RewriteKeeps

LEMMA RemoveKeeps ==
  ASSUME VInv, NEW v \in Vecs, NEW x, VecRemove(v, x)
  PROVE  VInv'
<1>1. Elements(v) \in Seq(Value)
  BY UsableIs DEF VecRemove
<1>2. vec_find(Elements(v), x) \in Nat
  BY <1>1, FindIs DEF VecRemove
<1>3. VecSplice(v, vec_find(Elements(v), x), 1)
  BY DEF VecRemove
<1> QED
  BY <1>2, <1>3, SpliceKeeps

LEMMA SwapSpliceKeeps ==
  ASSUME VInv, NEW v \in Vecs, NEW start \in Nat, NEW count \in Nat, VecSwapSplice(v, start, count)
  PROVE  VInv'
<1> DEFINE s        == seq[v]
           w        == vec_swapsplice(s, start, count)
           len      == Len(s) - count
           tail     == Len(s) - start - count
           limit    == 0 < tail /\ tail < count
           X        == SubSeq(s, 1, start)
           Y        == SubSeq(s, Len(s) - Min({count, tail}) + 1, Len(s))
           Z        == SubSeq(s, start + count + 1, Len(s) - count)
           expected == X \o Y \o Z
<1>1. Usable(v) /\ Len(Elements(v)) - start - count >= 0
  BY DEF VecSwapSplice
<1>2. s \in Seq(Value) /\ Elements(v) = s
  BY <1>1, UsableIs
<1>3. Rewrite(v, w, len, expected, limit)
  BY <1>2 DEF VecSwapSplice
<1>4. start + count <= Len(s) /\ Len(s) \in Nat /\ tail \in Nat
  <2>1. Len(s) \in Nat
    BY <1>2
  <2> HIDE DEF s
  <2> QED
    BY <1>1, <1>2, <2>1
<1>5. ~limit => SubSeq(w, 1, len) = expected
  <2>1. ~limit => SubSeq(w, 1, len) = SwapSpliced(s, start, count)
    <3> HIDE DEF s
    <3> QED
      BY <1>2, <1>4, SwapSpliceExact
  <2> QED
    BY <2>1 DEF SwapSpliced
<1>6. w \in Seq(Value) /\ Len(w) = Len(s)
  <2> DEFINE q     == Len(s) - count
             moved == SubSeq(s, q + 1, Len(s))
  <2>1. q \in Nat /\ q <= Len(s) /\ Len(s) <= Len(s)
    BY <1>4
  <2>2. moved \in Seq(Value)
    <3> HIDE DEF q, s
    <3> QED
      BY <1>2, <1>4, <2>1, Segment
  <2> HIDE DEF moved
  <2>3. Put(s, start, moved) \in Seq(Value) /\ Len(Put(s, start, moved)) = Len(s)
    BY <1>2, <2>2, PutIs
  <2> QED
    BY <2>3 DEF moved, vec_swapsplice
<1>7. len \in Nat /\ len <= Len(w) /\ limit \in BOOLEAN
  <2>1. len \in Nat /\ len <= Len(s)
    BY <1>4
  <2> HIDE DEF w
  <2> QED
    BY <1>6, <2>1
<1>8. expected \in Seq(Value)
  <2>1. X \in Seq(Value)
    <3>1. start <= Len(s)
      BY <1>4
    <3> QED
      BY <1>2, <3>1, Prefix
  <2>2. Y \in Seq(Value)
    <3> DEFINE m == Min({count, tail})
               q == Len(s) - m
    <3>1. m \in Nat /\ m <= count
      <4>1. m = IF count <= tail THEN count ELSE tail
        BY <1>4, MinOfTwo
      <4> HIDE DEF m, tail
      <4> QED
        BY <1>4, <4>1
    <3>2. q \in Nat /\ q <= Len(s) /\ Len(s) <= Len(s)
      <4> HIDE DEF m, s, tail
      <4> QED
        BY <1>4, <3>1
    <3> HIDE DEF q, s
    <3>3. SubSeq(s, q + 1, Len(s)) \in Seq(Value)
      BY <1>2, <1>4, <3>2, Segment
    <3> QED
      BY <3>3 DEF q
  <2>3. Z \in Seq(Value)
    <3> DEFINE a == start + count
               b == Len(s) - count
    <3>1. a \in Nat /\ b \in Nat /\ b <= Len(s)
      BY <1>4
    <3>2. CASE a <= b
      <4> HIDE DEF a, b, s
      <4>1. SubSeq(s, a + 1, b) \in Seq(Value)
        BY <1>2, <3>1, <3>2, Segment
      <4> QED
        BY <4>1 DEF a, b
    <3>3. CASE ~(a <= b)
      <4>1. b < a + 1 /\ a + 1 \in Int /\ b \in Int
        BY <3>1, <3>3
      <4> HIDE DEF a, b, s
      <4>2. SubSeq(s, a + 1, b) = <<>>
        BY <4>1, SubSeqEmpty
      <4>3. Z = <<>>
        BY <4>2 DEF a, b
      <4> HIDE DEF Z
      <4> QED
        BY <4>3
    <3> QED
      BY <3>2, <3>3
  <2> HIDE DEF X, Y, Z
  <2> QED
    BY <2>1, <2>2, <2>3, Concat3
<1> HIDE DEF w, len, limit, expected
<1> QED
  BY <1>3, <1>5, <1>6, <1>7, <1>8, RewriteKeeps

LEMMA SwapKeeps ==
  ASSUME VInv, NEW v \in Vecs, NEW i, NEW j, VecSwap(v, i, j)
  PROVE  VInv'
<1> DEFINE s        == seq[v]
           w        == [s EXCEPT ![i] = s[j], ![j] = s[i]]
           len      == Len(s)
           limit    == FALSE
           expected == [k \in 1..Len(s) |-> s[IF k = i THEN j ELSE IF k = j THEN i ELSE k]]
<1>1. Usable(v)
  BY DEF VecSwap
<1>2. s \in Seq(Value) /\ Elements(v) = s
  BY <1>1, UsableIs
<1>3. Rewrite(v, w, len, expected, limit) /\ i \in 1..Len(s) /\ j \in 1..Len(s)
  BY <1>2 DEF VecSwap
<1>4. w \in Seq(Value) /\ Len(w) = Len(s) /\ SubSeq(w, 1, len) = expected
  <2> HIDE DEF s
  <2> QED
    BY <1>2, <1>3, SwapExact
<1> HIDE DEF w
<1>5. len \in Nat /\ len <= Len(w) /\ limit \in BOOLEAN
  BY <1>2, <1>4
<1> HIDE DEF len, limit, expected
<1>6. expected \in Seq(Value)
  <2>1. SubSeq(w, 1, len) \in Seq(Value)
    BY <1>4, <1>5, Prefix
  <2> QED
    BY <1>4, <2>1
<1> QED
  BY <1>3, <1>4, <1>5, <1>6, RewriteKeeps

LEMMA ReverseKeeps ==
  ASSUME VInv, NEW v \in Vecs, VecReverse(v)
  PROVE  VInv'
<1> DEFINE s        == seq[v]
           half     == Len(s) \div 2
           w        == [k \in 1..Len(s) |->
                          IF k <= half \/ k > Len(s) - half THEN s[Len(s) + 1 - k] ELSE s[k]]
           len      == Len(s)
           limit    == FALSE
           expected == Reverse(s)
<1>1. Usable(v)
  BY DEF VecReverse, Rewrite
<1>2. s \in Seq(Value) /\ Elements(v) = s
  BY <1>1, UsableIs
<1>3. Rewrite(v, w, len, expected, limit)
  BY <1>2 DEF VecReverse
<1>4. w \in Seq(Value) /\ Len(w) = Len(s) /\ SubSeq(w, 1, len) = expected
  <2> HIDE DEF s
  <2> QED
    BY <1>2, ReverseExact
<1> HIDE DEF w
<1>5. len \in Nat /\ len <= Len(w) /\ limit \in BOOLEAN
  BY <1>2, <1>4
<1> HIDE DEF len, limit, expected
<1>6. expected \in Seq(Value)
  <2>1. SubSeq(w, 1, len) \in Seq(Value)
    BY <1>4, <1>5, Prefix
  <2> QED
    BY <1>4, <2>1
<1> QED
  BY <1>3, <1>4, <1>5, <1>6, RewriteKeeps

---------------------------------------------------------------------------
(* Other functions *)

LEMMA TruncateKeeps ==
  ASSUME VInv, NEW v \in Vecs, NEW len \in Nat, VecTruncate(v, len)
  PROVE  VInv'
<1> DEFINE r   == vec[v]
           new == SubSeq(seq[v], 1, len)
           r2  == [r EXCEPT !.length = len]
<1>1. MInv /\ SInv /\ OwnedOnce /\ Usable(v) /\ len < r.length
  BY DEF VInv, VecTruncate
<1>2. /\ v \notin beyond
      /\ r.length \in Nat /\ Len(seq[v]) = r.length /\ seq[v] \in Seq(Value)
  BY <1>1, UsableIs
<1>3. /\ r.length \in 0..MaxLen /\ r.off \in 0..MaxLen /\ MaxLen \in Nat /\ r.capacity \in Nat
      /\ r.data = NULL => r.capacity = 0
      /\ r.length <= r.capacity
      /\ r.data # NULL =>
           /\ r.off + r.capacity <= Len(mem[r.data])
           /\ mem[r.data] \in Seq(Cell)
           /\ seq[v] = SubSeq(mem[r.data], r.off + 1, r.off + r.length)
  BY <1>1, <1>2, OneVector
<1>4. vec' = [vec EXCEPT ![v].length = len] /\ seq' = [seq EXCEPT ![v] = new]
      /\ UNCHANGED <<dmtvars, memsz, mem, fault, beyond>>
  BY DEF VecTruncate
<1>5. MInv'
  BY <1>1, <1>4 DEF MInv, dmtvars
<1>6. /\ r2 \in StructType /\ r2.borrowed = r.borrowed /\ r2.length = len
      /\ r2.capacity = r.capacity /\ r2.data = r.data /\ r2.off = r.off
      /\ vec' = [vec EXCEPT ![v] = r2]
  <2>1. r \in StructType /\ vec \in [Vecs -> StructType]
    BY <1>1 DEF SInv
  <2>2. len \in 0..MaxLen
    BY <1>1, <1>2, <1>3
  <2> QED
    BY <1>4, <2>1, <2>2 DEF StructType
<1>7. new \in Seq(Value)
  BY <1>1, <1>2, Prefix
<1>8. Sound(r2, new, mem')
  <2>1. Sound(r, seq[v], mem)
    BY <1>1, <1>2 DEF SInv
  <2>2. r.data # NULL
    BY <1>1, <1>2, <1>3
  <2>3. new = SubSeq(mem[r.data], r.off + 1, r.off + len)
    <3> DEFINE cells == mem[r.data]
               L     == r.length
    <3>1. cells \in Seq(Cell) /\ r.off + L <= Len(cells) /\ r.off \in Nat /\ L \in Nat /\ 0 + len <= L
          /\ seq[v] = Part(cells, r.off, L)
      <4>1. cells \in Seq(Cell) /\ r.off + r.capacity <= Len(cells) /\ seq[v] = Part(cells, r.off, L)
        BY <1>3, <2>2 DEF Part
      <4>2. Len(cells) \in Nat
        BY <4>1
      <4> HIDE DEF cells
      <4> QED
        BY <1>1, <1>2, <1>3, <4>1, <4>2, SMTT(30)
    <3> HIDE DEF cells, L
    <3>2. Part(seq[v], 0, len) = Part(cells, r.off + 0, len)
      BY <3>1, PartOfPart
    <3>3. 0 + 1 = 1 /\ 0 + len = len /\ r.off + 0 = r.off
      BY <3>1
    <3> QED
      BY <3>2, <3>3 DEF Part, cells
  <2>4. mem' = mem
    BY <1>4
  <2>5. len <= r.capacity
    BY <1>1, <1>2, <1>3
  <2> HIDE DEF r2, new
  <2> QED
    BY <1>6, <2>1, <2>2, <2>3, <2>4, <2>5 DEF Sound
<1> HIDE DEF r2, new
<1>9. SInv' /\ OwnedOnce'
  <2>1. /\ seq' = [seq EXCEPT ![v] = new] /\ beyond \subseteq beyond' /\ beyond' \subseteq Vecs
        /\ mem' = mem /\ beyond' = beyond
    BY <1>1, <1>4 DEF SInv
  <2>2. \A u \in Vecs \ beyond' : u # v /\ vec[u].data # NULL =>
          vec[u].data \in DOMAIN mem' /\ mem'[vec[u].data] = mem[vec[u].data]
    <3> TAKE u \in Vecs \ beyond'
    <3> HAVE u # v /\ vec[u].data # NULL
    <3>1. vec[u].data \in DOMAIN mem
      BY <1>1, <2>1, OneVector
    <3> QED
      BY <2>1, <3>1
  <2>3. v \notin beyond' /\ ~r2.borrowed /\ r2.data # NULL =>
          \A u \in Vecs \ beyond' : u # v => vec[u].data # r2.data \/ vec[u].borrowed
    BY <1>1, <1>6, <2>1 DEF OwnedOnce
  <2> QED
    BY <1>1, <1>6, <1>7, <1>8, <2>1, <2>2, <2>3, Frame
<1>10. SafeWithinLimits'
  BY <1>4 DEF SafeWithinLimits, VInv, dmtvars
<1> QED
  BY <1>5, <1>9, <1>10 DEF VInv

LEMMA BorrowedKeeps ==
  ASSUME VInv, NEW v \in Vecs, NEW capacity \in Nat, VecBorrowed(v, capacity)
  PROVE  VInv'
<1> DEFINE r2 == Struct(TRUE, 0, capacity, Pool, 0)
           s  == <<>>
<1>1. MInv /\ SInv /\ OwnedOnce
  BY DEF VInv
<1>2. /\ vec' = [vec EXCEPT ![v] = r2] /\ seq' = [seq EXCEPT ![v] = s]
      /\ beyond' = IF capacity > PoolLen THEN beyond \cup {v} ELSE beyond
      /\ UNCHANGED <<dmtvars, memsz, mem, fault>>
  BY DEF VecBorrowed, Become
<1>3. MInv'
  BY <1>1, <1>2 DEF MInv, dmtvars
<1>4. /\ r2 \in StructType /\ r2.borrowed = TRUE /\ r2.length = 0 /\ r2.capacity = capacity
      /\ r2.data = Pool /\ r2.off = 0
  BY VecAssumption DEF StructType, Struct
<1>5. s \in Seq(Value)
  OBVIOUS
<1>6. v \notin beyond' => Sound(r2, s, mem')
  <2> SUFFICES ASSUME v \notin beyond' PROVE Sound(r2, s, mem')
    OBVIOUS
  <2>1. capacity <= PoolLen /\ PoolLen \in Nat
    BY <1>2, VecAssumption
  <2>2. /\ Pool \in DOMAIN mem' /\ Len(mem'[Pool]) = PoolLen
    BY <1>1, <1>2 DEF MInv
  <2>3. Pool # Own /\ Pool # NULL
    BY AddrAssumption, VecAssumption
  <2>4. SubSeq(mem'[Pool], 0 + 1, 0) = s
    BY Behind
  <2>5. 0 + capacity <= PoolLen /\ 0 <= capacity /\ 0 + 0 = 0
    BY <2>1
  <2> HIDE DEF r2, s
  <2> QED
    BY <1>4, <2>2, <2>3, <2>4, <2>5 DEF Sound
<1> HIDE DEF r2, s
<1>7. SInv' /\ OwnedOnce'
  <2>1. /\ seq' = [seq EXCEPT ![v] = s] /\ beyond \subseteq beyond' /\ beyond' \subseteq Vecs
        /\ vec' = [vec EXCEPT ![v] = r2] /\ mem' = mem
    BY <1>1, <1>2 DEF SInv
  <2>2. \A u \in Vecs \ beyond' : u # v /\ vec[u].data # NULL =>
          vec[u].data \in DOMAIN mem' /\ mem'[vec[u].data] = mem[vec[u].data]
    <3> TAKE u \in Vecs \ beyond'
    <3> HAVE u # v /\ vec[u].data # NULL
    <3>1. vec[u].data \in DOMAIN mem
      BY <1>1, <2>1, OneVector
    <3> QED
      BY <2>1, <3>1
  <2> QED
    BY <1>1, <1>4, <1>5, <1>6, <2>1, <2>2, Frame
<1>8. SafeWithinLimits'
  BY <1>2 DEF SafeWithinLimits, VInv, dmtvars
<1> QED
  BY <1>3, <1>7, <1>8 DEF VInv

LEMMA SliceKeeps ==
  ASSUME VInv, NEW v \in Vecs, NEW u \in Vecs, NEW start \in Nat, NEW end \in Nat,
         VecSlice(v, u, start, end)
  PROVE  VInv'
<1> DEFINE r   == vec[u]
           len == end - start
           r2  == Struct(TRUE, len, len, r.data, r.off + start)
           s   == SubSeq(seq[u], start + 1, end)
<1>1. /\ MInv /\ SInv /\ OwnedOnce /\ Usable(u) /\ r.data # NULL
      /\ start <= end /\ end <= r.length
  BY DEF VInv, VecSlice
<1>2. /\ u \notin beyond
      /\ r.length \in Nat /\ Len(seq[u]) = r.length /\ seq[u] \in Seq(Value)
  BY <1>1, UsableIs
<1>3. /\ r.length \in 0..MaxLen /\ r.off \in 0..MaxLen /\ MaxLen \in Nat /\ r.capacity \in Nat
      /\ r.length <= r.capacity
      /\ r.data \in DOMAIN mem \ {Own} /\ r.data \in Addr \cup {NULL, Pool}
      /\ r.off + r.capacity <= Len(mem[r.data])
      /\ r.off = 0 \/ r.off + r.capacity <= MaxLen
      /\ mem[r.data] \in Seq(Cell)
      /\ seq[u] = SubSeq(mem[r.data], r.off + 1, r.off + r.length)
  BY <1>1, <1>2, OneVector
<1>4. /\ vec' = [vec EXCEPT ![v] = r2] /\ seq' = [seq EXCEPT ![v] = s]
      /\ UNCHANGED <<dmtvars, memsz, mem, fault, beyond>>
  BY DEF VecSlice, Become
<1>5. MInv'
  BY <1>1, <1>4 DEF MInv, dmtvars
<1>6. /\ len \in Nat /\ start + len = end /\ len \in 0..MaxLen
      /\ r.off + start \in 0..MaxLen /\ (r.off + start) + len <= MaxLen
      /\ r.off \in Nat /\ r.off + r.length <= Len(mem[r.data])
      /\ (r.off + start) + len <= Len(mem[r.data])
  <2>1. Len(mem[r.data]) \in Nat
    BY <1>3
  <2> DEFINE n == Len(mem[r.data])
  <2>2. r.off + r.capacity <= n /\ n \in Nat
    BY <1>3, <2>1
  <2> HIDE DEF n
  <2>3. /\ len \in Nat /\ start + len = end /\ len \in 0..MaxLen
        /\ r.off + start \in 0..MaxLen /\ (r.off + start) + len <= MaxLen
        /\ r.off \in Nat /\ r.off + r.length <= n
        /\ (r.off + start) + len <= n
    <3> DEFINE off == r.off
               L   == r.length
               cap == r.capacity
    <3>1. /\ off \in Nat /\ L \in Nat /\ cap \in Nat /\ MaxLen \in Nat /\ off <= MaxLen /\ L <= MaxLen
          /\ L <= cap /\ (off = 0 \/ off + cap <= MaxLen) /\ off + cap <= n
          /\ start <= end /\ end <= L
      BY <1>1, <1>2, <1>3, <2>2, SMTT(30)
    <3> HIDE DEF off, L, cap
    <3>2. len \in Nat /\ start + len = end /\ len \in 0..MaxLen
      BY <3>1
    <3>3. off + start \in 0..MaxLen /\ (off + start) + len <= MaxLen
      BY <3>1
    <3>4. off + L <= n /\ (off + start) + len <= n
      BY <2>2, <3>1
    <3> QED
      BY <3>1, <3>2, <3>3, <3>4 DEF off, L
  <2> QED
    BY <2>3 DEF n
<1>7. /\ r2 \in StructType /\ r2.borrowed = TRUE /\ r2.length = len /\ r2.capacity = len
      /\ r2.data = r.data /\ r2.off = r.off + start
  <2> HIDE DEF len
  <2> QED
    BY <1>3, <1>6 DEF StructType, Struct
<1>8. s \in Seq(Value)
  BY <1>1, <1>2, Segment
<1>9. Sound(r2, s, mem')
  <2>1. s = SubSeq(mem[r.data], (r.off + start) + 1, (r.off + start) + len)
    <3> DEFINE cells == mem[r.data]
               L     == r.length
    <3>1. cells \in Seq(Cell) /\ r.off + L <= Len(cells) /\ r.off \in Nat /\ L \in Nat
          /\ seq[u] = Part(cells, r.off, L)
      BY <1>2, <1>3, <1>6 DEF Part
    <3>2. start + len <= L /\ len \in Nat
      BY <1>1, <1>6
    <3> HIDE DEF cells, L, len
    <3>3. Part(seq[u], start, len) = Part(cells, r.off + start, len)
      BY <3>1, <3>2, PartOfPart
    <3>4. Part(seq[u], start, len) = s
      BY <1>6 DEF Part
    <3> QED
      BY <3>3, <3>4 DEF Part, cells
  <2>2. mem' = mem
    BY <1>4
  <2> HIDE DEF r2, s, len
  <2>3. len <= len
    BY <1>6
  <2> QED
    BY <1>1, <1>3, <1>6, <1>7, <2>1, <2>2, <2>3 DEF Sound
<1> HIDE DEF r2, s
<1>10. SInv' /\ OwnedOnce'
  <2>1. /\ beyond \subseteq beyond' /\ beyond' \subseteq Vecs /\ mem' = mem /\ beyond' = beyond
    BY <1>1, <1>4 DEF SInv
  <2>2. \A x \in Vecs \ beyond' : x # v /\ vec[x].data # NULL =>
          vec[x].data \in DOMAIN mem' /\ mem'[vec[x].data] = mem[vec[x].data]
    <3> TAKE x \in Vecs \ beyond'
    <3> HAVE x # v /\ vec[x].data # NULL
    <3>1. vec[x].data \in DOMAIN mem
      BY <1>1, <2>1, OneVector
    <3> QED
      BY <2>1, <3>1
  <2> QED
    BY <1>1, <1>4, <1>7, <1>8, <1>9, <2>1, <2>2, Frame
<1>11. SafeWithinLimits'
  BY <1>4 DEF SafeWithinLimits, VInv, dmtvars
<1> QED
  BY <1>5, <1>10, <1>11 DEF VInv

LEMMA CopyKeeps ==
  ASSUME VInv, NEW v \in Vecs, NEW u \in Vecs, VecCopy(v, u)
  PROVE  VInv'
<1> DEFINE r     == vec[u]
           s     == seq[u]
           room  == [i \in 1..r.capacity |-> Junk]
           cells == Put(room, 0, s)
<1>1. MInv /\ SInv /\ OwnedOnce /\ Usable(u)
  BY DEF VInv, VecCopy
<1>2. /\ u \notin beyond /\ memsz \in Nat /\ fault = FALSE /\ aborted = FALSE
      /\ r.length \in Nat /\ r.capacity \in Nat /\ r.length <= r.capacity
      /\ Len(s) = r.length /\ s \in Seq(Value) /\ Elements(u) = s
  BY <1>1, UsableIs
<1>3. PICK q \in Free : /\ VEC_ALLOC(NULL, q, r.capacity * memsz)
                        /\ Become(v, Struct(FALSE, r.length, r.capacity, q, 0), s)
                        /\ mem' = Blocks(q, Put(room, 0, Elements(u)))
  BY DEF VecCopy
<1> DEFINE r2 == Struct(FALSE, r.length, r.capacity, q, 0)
<1>4. /\ vec' = [vec EXCEPT ![v] = r2] /\ seq' = [seq EXCEPT ![v] = s]
      /\ UNCHANGED <<memsz, fault, beyond>>
  BY <1>3 DEF VecCopy, Become
<1>5. room \in Seq(Cell) /\ Len(room) = r.capacity /\ s \in Seq(Cell)
  <2>1. s \in Seq(Cell)
    BY <1>2, SeqMonotonic DEF Cell
  <2> DEFINE n == r.capacity
  <2>2. n \in Nat
    BY <1>2
  <2> HIDE DEF n
  <2>3. [i \in 1..n |-> Junk] \in Seq(Cell) /\ Len([i \in 1..n |-> Junk]) = n
    BY <2>2 DEF Cell
  <2> QED
    BY <2>1, <2>3 DEF n
<1> HIDE DEF room
<1>6. cells \in Seq(Cell) /\ Len(cells) = r.capacity
  BY <1>5, PutIs, 0 \in Nat
<1>7. SubSeq(cells, 1, r.length) = s
  <2> DEFINE len == r.length
  <2>1. 0 + Len(s) <= Len(room) /\ len <= Len(s) /\ len \in Nat /\ Len(s) = len
        /\ 0 + len = len /\ 0 + 1 = 1
    BY <1>2, <1>5
  <2> HIDE DEF len, s
  <2>2. Part(cells, 0, len) = Part(s, 0, len)
    BY <1>5, <2>1, WriteBack, 0 \in Nat
  <2>3. SubSeq(s, 1, Len(s)) = s
    BY <1>2, SubSeqFull
  <2> QED
    BY <2>1, <2>2, <2>3 DEF Part, len
<1>8. mem' = Blocks(q, cells)
  BY <1>2, <1>3
<1> HIDE DEF cells
<1>9. /\ MInv' /\ aborted' = aborted
      /\ q \in DOMAIN mem' \ {Own} /\ q \in Addr /\ q # Pool /\ q # NULL /\ mem'[q] = cells
      /\ q \notin DOMAIN mem \ {NULL}
      /\ \A a \in DOMAIN mem \ {NULL} : a \in DOMAIN mem' /\ mem'[a] = mem[a]
  <2>1. q \in Results(NULL) /\ r.capacity * memsz \in Nat /\ fault' \in BOOLEAN
    BY <1>1, <1>2, <1>4 DEF Results, MInv
  <2> QED
    BY <1>1, <1>3, <1>4, <1>6, <1>8, <2>1, Allocated
<1>10. /\ r2 \in StructType /\ r2.borrowed = FALSE /\ r2.length = r.length
       /\ r2.capacity = r.capacity /\ r2.data = q /\ r2.off = 0
  <2>1. r.length \in 0..MaxLen /\ 0 \in 0..MaxLen /\ MaxLen \in Nat
    <3>1. r.length \in 0..MaxLen /\ MaxLen \in Nat
      BY <1>1, <1>2, OneVector
    <3> QED
      BY <3>1
  <2> QED
    BY <1>2, <1>9, <2>1 DEF StructType, Struct
<1> HIDE DEF r2
<1>11. Sound(r2, s, mem')
  <2>1. 0 + 1 = 1 /\ 0 + r.length = r.length /\ 0 + r.capacity = r.capacity /\ r.capacity <= r.capacity
    BY <1>2
  <2> QED
    BY <1>2, <1>6, <1>7, <1>9, <1>10, <2>1 DEF Sound
<1>12. \A x \in Vecs \ beyond : vec[x].data # NULL => vec[x].data \in DOMAIN mem \ {NULL}
  BY <1>1, OneVector
<1>13. SInv' /\ OwnedOnce'
  <2>1. beyond' = beyond /\ beyond \subseteq beyond' /\ beyond' \subseteq Vecs
    BY <1>1, <1>4 DEF SInv
  <2>2. \A x \in Vecs \ beyond' : x # v /\ vec[x].data # NULL =>
          vec[x].data \in DOMAIN mem' /\ mem'[vec[x].data] = mem[vec[x].data]
    BY <1>9, <1>12, <2>1
  <2>3. \A x \in Vecs \ beyond' : x # v => vec[x].data # r2.data
    BY <1>9, <1>10, <1>12, <2>1
  <2> QED
    BY <1>1, <1>2, <1>4, <1>10, <1>11, <2>1, <2>2, <2>3, Frame
<1>14. SafeWithinLimits'
  BY <1>2, <1>4, <1>9 DEF SafeWithinLimits
<1> QED
  BY <1>9, <1>13, <1>14 DEF VInv

LEMMA CopyFailsKeeps ==
  ASSUME VInv, NEW v \in Vecs, NEW u \in Vecs, VecCopyFails(v, u)
  PROVE  VInv'
<1>1. /\ fault' = TRUE /\ beyond' = beyond \cup {v}
      /\ UNCHANGED <<dmtvars, memsz, vec, mem, seq>>
  BY DEF VecCopyFails
<1>2. MInv' /\ SInv' /\ OwnedOnce'
  BY <1>1 DEF VInv, MInv, SInv, OwnedOnce, dmtvars
<1>3. SafeWithinLimits'
  BY <1>1 DEF SafeWithinLimits
<1> QED
  BY <1>2, <1>3 DEF VInv

LEMMA DeinitKeeps ==
  ASSUME VInv, NEW v \in Vecs, VecDeinit(v)
  PROVE  VInv'
<1> DEFINE r == vec[v]
<1>1. MInv /\ SInv /\ OwnedOnce /\ Usable(v) /\ r # Zero
  BY DEF VInv, VecDeinit
<1>2. v \notin beyond /\ fault = FALSE /\ aborted = FALSE
  BY <1>1, UsableIs
<1>3. /\ r.data # NULL /\ r.data \in DOMAIN mem \ {Own}
      /\ ~r.borrowed => r.data \in DOMAIN nodes /\ r.off = 0
  BY <1>1, <1>2, OneVector
<1>4. /\ vec' = [vec EXCEPT ![v] = Zero] /\ seq' = [seq EXCEPT ![v] = <<>>]
      /\ mem' = Blocks(NULL, <<>>)
      /\ beyond' = beyond \cup (IF r.borrowed THEN {} ELSE Sharing(v))
      /\ UNCHANGED <<memsz, fault>>
      /\ IF r.borrowed THEN UNCHANGED dmtvars ELSE VEC_FREE(r.data, r.off)
  BY DEF VecDeinit, Become
<1>5. /\ beyond \subseteq beyond' /\ beyond' \subseteq Vecs
      /\ ~r.borrowed => \A u \in Vecs \ beyond' : u # v => vec[u].data # r.data
  <2>1. beyond \subseteq Vecs
    BY <1>1 DEF SInv
  <2> QED
    BY <1>3, <1>4, <2>1 DEF Sharing
<1>6. /\ MInv' /\ aborted' = aborted
      /\ \A u \in Vecs \ beyond' : u # v /\ vec[u].data # NULL =>
           vec[u].data \in DOMAIN mem' /\ mem'[vec[u].data] = mem[vec[u].data]
  <2>1. \A u \in Vecs \ beyond' : vec[u].data # NULL => vec[u].data \in DOMAIN mem
    BY <1>1, <1>5, OneVector
  <2>2. CASE r.borrowed
    <3>1. UNCHANGED dmtvars
      BY <1>4, <2>2
    <3>2. nodes' = nodes /\ aborted' = aborted
      BY <3>1 DEF dmtvars
    <3>3. mem' = mem
      BY <1>1, <1>4, <3>2, Kept
    <3>4. MInv'
      BY <1>1, <1>4, <3>1, <3>3 DEF MInv, dmtvars
    <3> QED
      BY <2>1, <3>2, <3>3, <3>4
  <2>3. CASE ~r.borrowed
    <3>1. r.data \in DOMAIN nodes \ {Own} /\ VEC_FREE(r.data, 0)
      BY <1>3, <1>4, <2>3
    <3>2. /\ MInv' /\ aborted' = aborted
          /\ \A a \in DOMAIN mem \ {r.data} : a \in DOMAIN mem' /\ mem'[a] = mem[a]
      BY <1>1, <1>4, <3>1, Freed
    <3> QED
      BY <1>5, <2>1, <2>3, <3>2
  <2> QED
    BY <2>2, <2>3
<1>7. Zero \in StructType /\ Zero.data = NULL /\ Zero.borrowed = FALSE
  BY VecAssumption DEF Zero, Struct, StructType
<1>8. Sound(Zero, <<>>, mem')
  BY <1>7 DEF Sound
<1>9. <<>> \in Seq(Value)
  OBVIOUS
<1>10. SInv' /\ OwnedOnce'
  BY <1>1, <1>4, <1>5, <1>6, <1>7, <1>8, <1>9, Frame
<1>11. SafeWithinLimits'
  BY <1>2, <1>4, <1>6 DEF SafeWithinLimits
<1> QED
  BY <1>6, <1>10, <1>11 DEF VInv

LEMMA CompactEmptyKeeps ==
  ASSUME VInv, NEW v \in Vecs, VecCompactEmpty(v)
  PROVE  VInv'
<1> DEFINE r  == vec[v]
           r2 == [r EXCEPT !.capacity = 0, !.data = IF r.borrowed THEN r.data ELSE NULL]
<1>1. MInv /\ SInv /\ OwnedOnce /\ Usable(v) /\ r # Zero /\ r.length = 0
  BY DEF VInv, VecCompactEmpty
<1>2. v \notin beyond /\ fault = FALSE /\ aborted = FALSE /\ seq[v] \in Seq(Value) /\ Len(seq[v]) = 0
  BY <1>1, UsableIs
<1>3. /\ r \in StructType /\ r.borrowed \in BOOLEAN
      /\ r.data # NULL /\ r.data \in DOMAIN mem \ {Own}
      /\ ~r.borrowed => r.data \in DOMAIN nodes /\ r.off = 0
  BY <1>1, <1>2, OneVector
<1>4. /\ vec' = [vec EXCEPT ![v].capacity = 0, ![v].data = IF r.borrowed THEN @ ELSE NULL]
      /\ seq' = seq
      /\ mem' = Blocks(NULL, <<>>)
      /\ beyond' = beyond \cup Sharing(v) \cup (IF r.borrowed THEN {v} ELSE {})
      /\ UNCHANGED <<memsz, fault>>
      /\ VEC_FREE(r.data, r.off)
  BY DEF VecCompactEmpty
<1>5. /\ beyond \subseteq beyond' /\ beyond' \subseteq Vecs
      /\ r.borrowed => v \in beyond'
      /\ \A u \in Vecs \ beyond' : u # v => vec[u].data # r.data
  <2>1. beyond \subseteq Vecs
    BY <1>1 DEF SInv
  <2> QED
    BY <1>3, <1>4, <2>1 DEF Sharing
<1>6. /\ vec' = [vec EXCEPT ![v] = r2] /\ seq' = [seq EXCEPT ![v] = seq[v]]
      /\ r2 \in StructType /\ r2.borrowed = r.borrowed /\ r2.length = 0 /\ r2.capacity = 0
      /\ r2.data = (IF r.borrowed THEN r.data ELSE NULL) /\ r2.off = r.off
  <2>1. vec \in [Vecs -> StructType] /\ seq \in [Vecs -> Seq(Value)]
    BY <1>1 DEF SInv
  <2>2. vec' = [vec EXCEPT ![v] = r2]
    BY <1>3, <1>4, <2>1 DEF StructType
  <2>3. seq' = [seq EXCEPT ![v] = seq[v]]
    BY <1>4, <2>1
  <2>4. /\ r2 \in StructType /\ r2.borrowed = r.borrowed /\ r2.length = 0 /\ r2.capacity = 0
        /\ r2.data = (IF r.borrowed THEN r.data ELSE NULL) /\ r2.off = r.off
    BY <1>1, <1>3 DEF StructType
  <2> QED
    BY <2>2, <2>3, <2>4
<1> HIDE DEF r2
<1>7. ~r.borrowed => r2 = Zero /\ seq[v] = <<>>
  <2> SUFFICES ASSUME ~r.borrowed PROVE r2 = Zero /\ seq[v] = <<>>
    OBVIOUS
  <2>1. r2 = Struct(r2.borrowed, r2.length, r2.capacity, r2.data, r2.off)
    BY <1>6 DEF StructType, Struct
  <2>2. r2.borrowed = FALSE
    BY <1>3, <1>6
  <2>3. r2 = Zero
    BY <1>3, <1>6, <2>1, <2>2 DEF Zero
  <2>4. seq[v] = <<>>
    BY <1>2
  <2> QED
    BY <2>3, <2>4
<1>8. /\ MInv'
      /\ ~r.borrowed => aborted' = aborted
      /\ \A a \in DOMAIN mem \ {r.data} : a \in DOMAIN mem' /\ mem'[a] = mem[a]
  <2>1. CASE r.off = 0 /\ dmt_has_node(r.data)
    <3>1. r.data \in DOMAIN nodes \ {Own}
      BY <1>1, <1>3, <2>1, ChainSound DEF dmt_has_node, MInv
    <3>2. VEC_FREE(r.data, 0)
      BY <1>4, <2>1
    <3> QED
      BY <1>1, <1>4, <3>1, <3>2, Freed
  <2>2. CASE ~(r.off = 0 /\ dmt_has_node(r.data))
    <3>1. dmt_abort
      BY <1>3, <1>4, <2>2, Zenon DEF VEC_FREE
    <3>2. nodes' = nodes /\ dmt_head' = dmt_head /\ aborted' = TRUE
      BY <3>1 DEF dmt_abort
    <3>3. mem' = mem
      BY <1>1, <1>4, <3>2, Kept
    <3>4. MInv'
      BY <1>1, <1>4, <3>2, <3>3 DEF MInv
    <3>5. r.borrowed
      <4>1. Chain(nodes, dmt_head)
        BY <1>1 DEF MInv
      <4>2. r.data \in DOMAIN nodes => dmt_has_node(r.data)
        BY <4>1, ChainSound DEF dmt_has_node
      <4> QED
        BY <1>3, <2>2, <4>2
    <3> QED
      BY <3>3, <3>4, <3>5
  <2> QED
    BY <2>1, <2>2
<1>9. \A u \in Vecs \ beyond' : u # v /\ vec[u].data # NULL =>
        vec[u].data \in DOMAIN mem' /\ mem'[vec[u].data] = mem[vec[u].data]
  <2>1. \A u \in Vecs \ beyond' : vec[u].data # NULL => vec[u].data \in DOMAIN mem
    BY <1>1, <1>5, OneVector
  <2> QED
    BY <1>5, <1>8, <2>1
<1>10. v \notin beyond' => Sound(r2, seq[v], mem') /\ r2.data = NULL
  <2>1. Zero.data = NULL
    BY DEF Zero, Struct
  <2> QED
    BY <1>5, <1>7, <2>1 DEF Sound
<1>11. SInv' /\ OwnedOnce'
  BY <1>1, <1>2, <1>5, <1>6, <1>9, <1>10, Frame
<1>12. SafeWithinLimits'
  BY <1>2, <1>4, <1>5, <1>8 DEF SafeWithinLimits
<1> QED
  BY <1>8, <1>11, <1>12 DEF VInv
LEMMA CompactKeeps ==
  ASSUME VInv, NEW v \in Vecs, VecCompact(v)
  PROVE  VInv'
<1> DEFINE r == vec[v]
<1>1. MInv /\ SInv /\ OwnedOnce /\ Usable(v) /\ r.length > 0
  BY DEF VInv, VecCompact
<1>2. /\ v \notin beyond /\ fault = FALSE /\ aborted = FALSE /\ memsz \in Nat
      /\ seq[v] \in Seq(Value) /\ Len(seq[v]) = r.length /\ Elements(v) = seq[v]
  BY <1>1, UsableIs
<1>3. /\ r \in StructType /\ r.borrowed \in BOOLEAN /\ r.length \in 0..MaxLen /\ MaxLen \in Nat
      /\ r.length \in Nat /\ r.capacity \in Nat /\ r.off \in Nat /\ r.length <= r.capacity
      /\ r.data # NULL /\ r.data \in DOMAIN mem \ {Own}
      /\ r.off + r.capacity <= Len(mem[r.data])
      /\ r.off = 0 \/ r.off + r.capacity <= MaxLen
      /\ ~r.borrowed => r.data \in DOMAIN nodes /\ r.off = 0
      /\ mem[r.data] \in Seq(Cell)
      /\ seq[v] = SubSeq(mem[r.data], r.off + 1, r.off + r.length)
  <2>1. r.length \in 0..MaxLen /\ r.off \in 0..MaxLen /\ r.capacity \in Nat /\ MaxLen \in Nat
    BY <1>1, <1>2, OneVector
  <2>2. r.length \in Nat /\ r.off \in Nat
    BY <2>1
  <2>3. r.capacity # 0
    BY <1>1, <1>2, <2>1, OneVector
  <2>4. r.data # NULL
    BY <1>1, <1>2, <2>3, OneVector
  <2> QED
    BY <1>1, <1>2, <2>1, <2>2, <2>4, OneVector
<1>4. memsz' = memsz /\ fault' = fault /\ seq' = seq
  BY DEF VecCompact
<1>5. seq' = [seq EXCEPT ![v] = seq[v]]
  BY <1>1, <1>4 DEF SInv
<1>6. \A u \in Vecs \ beyond : vec[u].data # NULL => vec[u].data \in DOMAIN mem
  BY <1>1, OneVector
<1>7. CASE r.borrowed
  <2> DEFINE r2 == [r EXCEPT !.capacity = r.length]
  <2>1. /\ vec' = [vec EXCEPT ![v].capacity = r.length]
        /\ UNCHANGED dmtvars /\ mem' = mem /\ beyond' = beyond
    BY <1>7 DEF VecCompact
  <2>2. /\ vec' = [vec EXCEPT ![v] = r2]
        /\ r2 \in StructType /\ r2.borrowed = r.borrowed /\ r2.length = r.length
        /\ r2.capacity = r.length /\ r2.data = r.data /\ r2.off = r.off
    <3>1. vec \in [Vecs -> StructType]
      BY <1>1 DEF SInv
    <3> QED
      BY <1>3, <2>1, <3>1 DEF StructType
  <2> HIDE DEF r2
  <2>3. MInv' /\ aborted' = aborted
    BY <1>1, <1>4, <2>1 DEF MInv, dmtvars
  <2>4. Sound(r2, seq[v], mem')
    <3>1. Sound(r, seq[v], mem)
      BY <1>1, <1>2 DEF SInv
    <3>2. ~r.borrowed => r.data # Pool /\ r.off = 0
      BY <1>7
    <3>3. Len(mem[r.data]) \in Nat
      BY <1>3
    <3>4. r.off + r.length <= Len(mem[r.data]) /\ (r.off = 0 \/ r.off + r.length <= MaxLen)
      <4> DEFINE room == Len(mem[r.data])
      <4>1. /\ r.off \in Nat /\ r.length \in Nat /\ r.capacity \in Nat /\ room \in Nat
            /\ MaxLen \in Nat /\ r.length <= r.capacity /\ r.off + r.capacity <= room
            /\ r.off = 0 \/ r.off + r.capacity <= MaxLen
        BY <1>3, <3>3
      <4> HIDE DEF r, room
      <4>2. r.off + r.length <= room /\ (r.off = 0 \/ r.off + r.length <= MaxLen)
        BY <4>1
      <4> QED
        BY <4>2 DEF room
    <3>5. r.length <= r.length
      BY <1>3
    <3> QED
      BY <1>3, <2>1, <2>2, <3>2, <3>4, <3>5 DEF Sound
  <2>5. SInv' /\ OwnedOnce'
    <3>1. beyond \subseteq beyond' /\ beyond' \subseteq Vecs
      BY <1>1, <2>1 DEF SInv
    <3>2. \A u \in Vecs \ beyond' : u # v /\ vec[u].data # NULL =>
            vec[u].data \in DOMAIN mem' /\ mem'[vec[u].data] = mem[vec[u].data]
      BY <1>6, <2>1
    <3>3. r2.borrowed
      BY <1>7, <2>2
    <3> QED
      BY <1>1, <1>2, <1>5, <2>2, <2>4, <3>1, <3>2, <3>3, Frame
  <2>6. SafeWithinLimits'
    BY <1>2, <1>4, <2>3 DEF SafeWithinLimits
  <2> QED
    BY <2>3, <2>5, <2>6 DEF VInv
<1>8. CASE ~r.borrowed
  <2>1. PICK q \in Results(r.data) :
          /\ VEC_ALLOC(r.data, q, r.length * memsz)
          /\ vec' = [vec EXCEPT ![v] = Struct(FALSE, r.length, r.length, q, 0)]
          /\ mem' = Blocks(q, seq[v])
          /\ beyond' = beyond \cup Sharing(v)
    BY <1>2, <1>8, Zenon DEF VecCompact
  <2> DEFINE r2 == Struct(FALSE, r.length, r.length, q, 0)
  <2>2. seq[v] \in Seq(Cell)
    BY <1>2, SeqMonotonic DEF Cell
  <2>3. /\ MInv' /\ aborted' = aborted
        /\ q \in DOMAIN mem' \ {Own} /\ q \in Addr /\ q # Pool /\ q # NULL /\ mem'[q] = seq[v]
        /\ q \notin DOMAIN mem \ {r.data}
        /\ \A a \in DOMAIN mem \ {r.data} : a \in DOMAIN mem' /\ mem'[a] = mem[a]
    <3>1. r.data \in (DOMAIN nodes \ {Own}) \cup {NULL}
      BY <1>3, <1>8
    <3>2. fault' \in BOOLEAN
      BY <1>1, <1>4 DEF MInv
    <3>3. r.length * memsz \in Nat
      <4> DEFINE len == r.length
      <4>1. len \in Nat /\ memsz \in Nat
        BY <1>2, <1>3
      <4> HIDE DEF len
      <4>2. len * memsz \in Nat
        BY <4>1
      <4> QED
        BY <4>2 DEF len
    <3> QED
      BY <1>1, <1>4, <2>1, <2>2, <3>1, <3>2, <3>3, Allocated
  <2>4. /\ vec' = [vec EXCEPT ![v] = r2]
        /\ r2 \in StructType /\ r2.borrowed = FALSE /\ r2.length = r.length
        /\ r2.capacity = r.length /\ r2.data = q /\ r2.off = 0
    <3>1. 0 \in 0..MaxLen
      BY <1>3
    <3> QED
      BY <1>3, <2>1, <2>3, <3>1 DEF StructType, Struct
  <2> HIDE DEF r2
  <2>5. Sound(r2, seq[v], mem')
    <3>1. 0 + 1 = 1 /\ 0 + r.length = r.length /\ r.length <= r.length
      BY <1>3
    <3>2. SubSeq(seq[v], 1, r.length) = seq[v]
      BY <1>2, SubSeqFull
    <3> QED
      BY <1>2, <2>3, <2>4, <3>1, <3>2 DEF Sound
  <2>6. /\ beyond \subseteq beyond' /\ beyond' \subseteq Vecs
        /\ \A u \in Vecs \ beyond' : u # v => vec[u].data # r.data
    <3>1. beyond \subseteq Vecs
      BY <1>1 DEF SInv
    <3> QED
      BY <1>3, <2>1, <3>1 DEF Sharing
  <2>7. \A u \in Vecs \ beyond' : u # v /\ vec[u].data # NULL => vec[u].data \in DOMAIN mem \ {r.data}
    BY <1>6, <2>6
  <2>8. \A u \in Vecs \ beyond' : u # v /\ vec[u].data # NULL =>
          vec[u].data \in DOMAIN mem' /\ mem'[vec[u].data] = mem[vec[u].data]
    BY <2>3, <2>7
  <2>9. \A u \in Vecs \ beyond' : u # v => vec[u].data # r2.data
    BY <2>3, <2>4, <2>7
  <2>10. SInv' /\ OwnedOnce'
    BY <1>1, <1>2, <1>5, <2>4, <2>5, <2>6, <2>8, <2>9, Frame
  <2>11. SafeWithinLimits'
    BY <1>2, <1>4, <2>3 DEF SafeWithinLimits
  <2> QED
    BY <2>3, <2>10, <2>11 DEF VInv
<1> QED
  BY <1>3, <1>7, <1>8

---------------------------------------------------------------------------
(* The specification *)

LEMMA VInvInit == Init => VInv
<1> SUFFICES ASSUME Init PROVE VInv
  OBVIOUS
<1> DEFINE ord == [i \in 1..1 |-> Own]
<1>1. /\ Own \in Addr /\ NULL \notin Addr /\ Pool \notin Addr /\ Pool # NULL
      /\ MemSizes \subseteq Nat /\ PoolLen \in Nat /\ MaxLen \in Nat
  BY AddrAssumption, VecAssumption
<1>2. /\ nodes = [a \in {Own} |-> Node(NULL, NULL, 1)] /\ dmt_head = Own /\ aborted = FALSE
      /\ memsz \in MemSizes /\ vec = [v \in Vecs |-> Zero] /\ fault = FALSE
      /\ mem = [b \in {Own, Pool} |-> IF b = Pool THEN [i \in 1..PoolLen |-> Junk] ELSE <<>>]
      /\ seq = [v \in Vecs |-> <<>>] /\ beyond = {}
  BY DEF Init, DmtInit
<1>4. DOMAIN nodes = {Own} /\ nodes[Own] = Node(NULL, NULL, 1)
  BY <1>2
<1>5. /\ nodes \in [DOMAIN nodes -> NodeType]
      /\ nodes[Own].next = NULL /\ nodes[Own].prev = NULL
  <2>1. Node(NULL, NULL, 1) \in NodeType
    BY DEF Node, NodeType, Links
  <2> QED
    BY <1>2, <1>4, <2>1 DEF Node
<1>6. Ordered(nodes, dmt_head, ord, 1)
  <2>1. ord \in [1..1 -> DOMAIN nodes] /\ 1..1 = {1} /\ ord[1] = Own
    BY <1>4
  <2> HIDE DEF ord
  <2> QED
    BY <1>2, <1>4, <1>5, <2>1 DEF Ordered
<1>7. Chain(nodes, dmt_head)
  <2>1. ord \in [1..1 -> DOMAIN nodes]
    BY <1>4
  <2> HIDE DEF ord
  <2>2. \E o \in [1..1 -> DOMAIN nodes] : Ordered(nodes, dmt_head, o, 1)
    BY <1>6, <2>1
  <2> QED
    BY <1>1, <1>4, <1>5, <2>2 DEF Chain
<1>8. mem \in [DOMAIN nodes \cup {Pool} -> Seq(Cell)] /\ Len(mem[Pool]) = PoolLen
  <2>1. [i \in 1..PoolLen |-> Junk] \in Seq(Cell) /\ Len([i \in 1..PoolLen |-> Junk]) = PoolLen
    BY <1>1 DEF Cell
  <2>2. <<>> \in Seq(Cell)
    OBVIOUS
  <2>3. mem[Pool] = [i \in 1..PoolLen |-> Junk]
    BY <1>2
  <2> QED
    BY <1>2, <1>4, <2>1, <2>2, <2>3
<1>9. MInv
  BY <1>2, <1>4, <1>7, <1>8 DEF MInv
<1>10. /\ Zero \in StructType /\ Zero.data = NULL
       /\ \A v \in Vecs : vec[v] = Zero /\ seq[v] = <<>>
  BY <1>1, <1>2 DEF Zero, Struct, StructType
<1>11. SInv
  <2>1. vec \in [Vecs -> StructType]
    BY <1>2, <1>10
  <2>2. seq \in [Vecs -> Seq(Value)] /\ beyond \subseteq Vecs
    BY <1>2
  <2> QED
    BY <1>10, <2>1, <2>2 DEF SInv, Sound
<1>12. OwnedOnce
  BY <1>10 DEF OwnedOnce
<1>13. SafeWithinLimits
  BY <1>2 DEF SafeWithinLimits
<1> QED
  BY <1>9, <1>11, <1>12, <1>13 DEF VInv

LEMMA VInvNext == VInv /\ [Next]_vars => VInv'
<1> SUFFICES ASSUME VInv, [Next]_vars PROVE VInv'
  OBVIOUS
<1>1. /\ MaxLen \in Nat /\ PoolLen \in Nat /\ memsz \in Nat
      /\ \A n \in 0..MaxLen : n \in Nat
      /\ \A n \in 1..MaxLen : n \in Nat
  BY VecAssumption DEF VInv, MInv
<1>2. \A s \in Arrays : s \in Seq(Value)
  <2>1. ASSUME NEW n \in 0..2, NEW s \in [1..n -> Value] PROVE s \in Seq(Value)
    <3>1. n \in Nat
      OBVIOUS
    <3> QED
      BY <3>1
  <2> QED
    BY <2>1 DEF Arrays
<1>3. CASE UNCHANGED vars
  BY <1>3 DEF vars, dmtvars, VInv, MInv, SInv, OwnedOnce, SafeWithinLimits
<1>4. CASE Next
  <2>1. PICK v \in Vecs : Call(v)
    BY <1>4 DEF Next
  <2>2. CASE \E x \in Value : VecPush(v, x) \/ VecRemove(v, x)
    BY <2>2, PushKeeps, RemoveKeeps
  <2>3. CASE \E s \in Arrays : VecPushArr(v, s)
    BY <1>2, <2>3, PushArrKeeps
  <2>4. CASE \E s \in Arrays, idx \in 0..MaxLen : VecInsert(v, idx, s)
    BY <1>1, <1>2, <2>4, InsertKeeps
  <2>5. CASE VecReserve(v, MaxLen)
    BY <1>1, <2>5, ReserveKeeps
  <2>6. CASE \E n \in 0..MaxLen : VecTruncate(v, n)
    BY <1>1, <2>6, TruncateKeeps
  <2>7. CASE \E start \in 0..MaxLen, count \in 1..MaxLen :
               VecSplice(v, start, count) \/ VecSwapSplice(v, start, count)
    BY <1>1, <2>7, SpliceKeeps, SwapSpliceKeeps
  <2>8. CASE \E i, j \in 1..MaxLen : i < j /\ VecSwap(v, i, j)
    BY <1>1, <2>8, SwapKeeps
  <2>9. CASE VecReverse(v) \/ VecDeinit(v) \/ VecCompactEmpty(v) \/ VecCompact(v)
    BY <2>9, ReverseKeeps, DeinitKeeps, CompactEmptyKeeps, CompactKeeps
  <2>10. CASE \E capacity \in {PoolLen, PoolLen * memsz} : VecBorrowed(v, capacity)
    <3>1. PoolLen * memsz \in Nat
      BY <1>1
    <3> QED
      BY <1>1, <2>10, <3>1, BorrowedKeeps
  <2>11. CASE \E u \in Vecs : VecExtend(v, u) \/ VecCopy(v, u) \/ VecCopyFails(v, u)
    BY <2>11, ExtendKeeps, CopyKeeps, CopyFailsKeeps
  <2>12. CASE \E u \in Vecs, start, end \in 0..MaxLen : VecSlice(v, u, start, end)
    BY <1>1, <2>12, SliceKeeps
  <2> QED
    BY <2>1, <2>2, <2>3, <2>4, <2>5, <2>6, <2>7, <2>8, <2>9, <2>10, <2>11, <2>12 DEF Call
<1> QED
  BY <1>3, <1>4

LEMMA SpecVInv == Spec => []VInv
  BY VInvInit, VInvNext, PTL DEF Spec

(***************************************************************************)
(* The list of dmt.h holds every allocated node exactly once, linked both  *)
(* ways, whatever vec.h allocates, moves and frees.                        *)
(***************************************************************************)
THEOREM SpecListSound == Spec => []ListSound
<1>1. VInv => ListSound
  BY ChainSound DEF VInv, MInv
<1> QED
  BY <1>1, SpecVInv, PTL

(***************************************************************************)
(* Every vector used within the limits holds exactly the elements that the *)
(* calls of vec.h should have left in it.                                  *)
(***************************************************************************)
THEOREM SpecContentsExact == Spec => []ContentsExact
<1>1. VInv => ContentsExact
  BY OneVector DEF VInv, ContentsExact
<1> QED
  BY <1>1, SpecVInv, PTL

(***************************************************************************)
(* Unless a vector is used beyond the limits, no call of vec.h writes      *)
(* outside its storage and dmt.h never aborts.                             *)
(***************************************************************************)
THEOREM SpecSafeWithinLimits == Spec => []SafeWithinLimits
<1>1. VInv => SafeWithinLimits
  BY DEF VInv
<1> QED
  BY <1>1, SpecVInv, PTL

(***************************************************************************)
(* No two vectors within the limits own one block: vec_deinit frees none   *)
(* twice.                                                                  *)
(***************************************************************************)
THEOREM SpecOwnedOnce == Spec => []OwnedOnce
<1>1. VInv => OwnedOnce
  BY DEF VInv
<1> QED
  BY <1>1, SpecVInv, PTL

(***************************************************************************)
(* The structs, the storage and the list have their types, and a vector    *)
(* within the limits never points at a block that was freed.               *)
(***************************************************************************)
THEOREM SpecTypeOK == Spec => []TypeOK
<1>1. ASSUME VInv PROVE TypeOK
  <2>1. DmtTypeOK
    BY <1>1, MInvDmtTypeOK DEF VInv
  <2>2. /\ memsz \in MemSizes /\ fault \in BOOLEAN
        /\ mem \in [DOMAIN nodes \cup {Pool} -> Seq(Cell)]
    BY <1>1 DEF VInv, MInv
  <2>3. DOMAIN mem = DOMAIN nodes \cup {Pool} /\ \A b \in DOMAIN mem : mem[b] \in Seq(Cell)
    BY <2>2
  <2>4. vec \in [Vecs -> StructType] /\ seq \in [Vecs -> Seq(Value)] /\ beyond \subseteq Vecs
    BY <1>1 DEF VInv, SInv
  <2>5. \A v \in Vecs \ beyond : vec[v].data \in DOMAIN mem \cup {NULL}
    BY <1>1, OneVector DEF VInv
  <2> QED
    BY <2>1, <2>2, <2>3, <2>4, <2>5 DEF TypeOK, StructType, Cell
<1> QED
  BY <1>1, SpecVInv, PTL

---------------------------------------------------------------------------
(* Sums over finite sets *)

\* Among sets of elements of a finite set there is a smallest one.
LEMMA SmallestSet ==
  ASSUME NEW D, IsFiniteSet(D), NEW B, B \subseteq SUBSET D, B # {}
  PROVE  \E s \in B : \A x \in s : s \ {x} \notin B
<1> DEFINE T == {Cardinality(s) : s \in B}
<1>1. \A s \in B : IsFiniteSet(s) /\ Cardinality(s) \in Nat
  <2> TAKE s \in B
  <2>1. IsFiniteSet(s)
    BY FS_Subset
  <2> QED
    BY <2>1, FS_CardinalityType
<1>2. T \subseteq Nat /\ T # {}
  BY <1>1
<1>3. PICK n \in T : \A m \in T : n <= m
  BY <1>2, LeastNat
<1>4. PICK s \in B : n = Cardinality(s)
  BY <1>3
<1>5. ASSUME NEW x \in s PROVE s \ {x} \notin B
  <2>1. Cardinality(s \ {x}) = Cardinality(s) - 1
    BY <1>1, FS_RemoveElement
  <2>2. s \ {x} \in B => n <= Cardinality(s \ {x})
    BY <1>3
  <2> QED
    BY <1>1, <1>4, <2>1, <2>2
<1> QED
  BY <1>5

\* The element that a sum takes first.
First(s) == CHOOSE x \in s : TRUE

LEMMA FirstIn == \A s : s # {} => First(s) \in s
BY DEF First

\* The table that the sums of w over the subsets of D are defined by.
Sums(f, D, w) ==
  f = [s \in SUBSET D |-> IF s = {} THEN 0 ELSE w[First(s)] + f[s \ {First(s)}]]

\* The same for the sets in P only.
SumsOn(f, P, w) ==
  f = [s \in P |-> IF s = {} THEN 0 ELSE w[First(s)] + f[s \ {First(s)}]]

LEMMA SumsExist ==
  ASSUME NEW D, IsFiniteSet(D), NEW w
  PROVE  \E f : Sums(f, D, w)
<1> DEFINE P(k) == {s \in SUBSET D : Cardinality(s) <= k}
           Q(k) == \E f : SumsOn(f, P(k), w)
           T    == {k \in Nat : ~Q(k)}
<1>1. \A s \in SUBSET D : IsFiniteSet(s) /\ Cardinality(s) \in Nat /\ Cardinality(s) <= Cardinality(D)
  BY FS_Subset, FS_CardinalityType
<1>2. Q(0)
  <2> DEFINE f == [s \in P(0) |-> 0]
  <2>1. \A s \in P(0) : s = {}
    BY <1>1, FS_EmptySet
  <2>2. f = [s \in P(0) |-> IF s = {} THEN 0 ELSE w[First(s)] + f[s \ {First(s)}]]
    BY <2>1
  <2> HIDE DEF f, P
  <2>3. SumsOn(f, P(0), w)
    BY <2>2 DEF SumsOn
  <2> QED
    BY <2>3
<1>3. ASSUME NEW k \in Nat, Q(k) PROVE Q(k + 1)
  <2>1. PICK g : SumsOn(g, P(k), w)
    BY <1>3
  <2> DEFINE f == [s \in P(k + 1) |-> IF s = {} THEN 0 ELSE w[First(s)] + g[s \ {First(s)}]]
  <2>2. \A s \in P(k) : s \in P(k + 1)
    BY <1>1
  <2>3. \A s \in P(k + 1) : s # {} => s \ {First(s)} \in P(k)
    <3> SUFFICES ASSUME NEW s \in P(k + 1), s # {} PROVE s \ {First(s)} \in P(k)
      OBVIOUS
    <3>1. First(s) \in s
      BY FirstIn
    <3>2. Cardinality(s \ {First(s)}) = Cardinality(s) - 1
      BY <1>1, <3>1, FS_RemoveElement
    <3>3. Cardinality(s) \in Nat /\ Cardinality(s) <= k + 1 /\ s \ {First(s)} \in SUBSET D
      BY <1>1
    <3> QED
      BY <3>2, <3>3
  <2> HIDE DEF P
  <2>4. \A s \in P(k) : g[s] = IF s = {} THEN 0 ELSE w[First(s)] + g[s \ {First(s)}]
    BY <2>1 DEF SumsOn
  <2>5. \A s \in P(k) : f[s] = g[s]
    BY <2>2, <2>4
  <2>6. f = [s \in P(k + 1) |-> IF s = {} THEN 0 ELSE w[First(s)] + f[s \ {First(s)}]]
    BY <2>3, <2>5
  <2> HIDE DEF f
  <2>7. SumsOn(f, P(k + 1), w)
    BY <2>6 DEF SumsOn
  <2> QED
    BY <2>7
<1> HIDE DEF Q
<1>4. T = {}
  <2> SUFFICES ASSUME T # {} PROVE FALSE
    OBVIOUS
  <2>1. PICK k_ \in T : \A y \in T : k_ <= y
    BY LeastNat
  <2>2. k_ \in Nat /\ ~Q(k_) /\ k_ # 0
    BY <1>2, <2>1
  <2>3. k_ - 1 \in Nat /\ (k_ - 1) + 1 = k_ /\ ~(k_ <= k_ - 1)
    BY <2>2
  <2>4. Q(k_ - 1)
    BY <2>1, <2>3
  <2>5. Q((k_ - 1) + 1)
    BY <1>3, <2>3, <2>4
  <2> QED
    BY <2>2, <2>3, <2>5
<1>5. Cardinality(D) \in Nat /\ P(Cardinality(D)) = SUBSET D
  BY <1>1
<1>6. PICK f : SumsOn(f, P(Cardinality(D)), w)
  BY <1>4, <1>5 DEF Q
<1> HIDE DEF P
<1>7. Sums(f, D, w)
  BY <1>5, <1>6 DEF Sums, SumsOn
<1> QED
  BY <1>7

\* Sums, whatever the order.
Additive(f, D, w) ==
  /\ f[{}] = 0
  /\ \A s \in SUBSET D : f[s] \in Nat
  /\ \A s \in SUBSET D : \A x \in s : f[s] = w[x] + f[s \ {x}]

LEMMA SumsAre ==
  ASSUME NEW D, IsFiniteSet(D), NEW w, w \in [D -> Nat], NEW f, Sums(f, D, w)
  PROVE  Additive(f, D, w)
<1>1. \A s \in SUBSET D : f[s] = IF s = {} THEN 0 ELSE w[First(s)] + f[s \ {First(s)}]
  BY DEF Sums
<1>2. f[{}] = 0
  BY <1>1
<1>3. \A s \in SUBSET D : f[s] \in Nat
  <2> DEFINE B == {s \in SUBSET D : f[s] \notin Nat}
  <2> SUFFICES ASSUME B # {} PROVE FALSE
    OBVIOUS
  <2>1. PICK s \in B : \A x \in s : s \ {x} \notin B
    BY SmallestSet
  <2>2. s \in SUBSET D /\ f[s] \notin Nat
    BY <2>1
  <2>3. s # {}
    BY <1>2, <2>2
  <2>4. PICK c \in s : c = First(s)
    BY <2>3, FirstIn
  <2>5. f[s] = w[c] + f[s \ {c}]
    BY <1>1, <2>2, <2>3, <2>4
  <2>6. f[s \ {c}] \in Nat /\ w[c] \in Nat
    BY <2>1, <2>2
  <2> QED
    BY <2>2, <2>5, <2>6
<1>4. \A s \in SUBSET D : \A x \in s : f[s] = w[x] + f[s \ {x}]
  <2> DEFINE B == {s \in SUBSET D : ~\A x \in s : f[s] = w[x] + f[s \ {x}]}
  <2> SUFFICES ASSUME B # {} PROVE FALSE
    OBVIOUS
  <2>1. PICK s \in B : \A x \in s : s \ {x} \notin B
    BY SmallestSet
  <2>2. s \in SUBSET D
    BY <2>1
  <2>3. PICK x \in s : f[s] # w[x] + f[s \ {x}]
    BY <2>1
  <2>4. PICK c \in s : c = First(s)
    BY <2>3, FirstIn
  <2>5. f[s] = w[c] + f[s \ {c}]
    BY <1>1, <2>2, <2>4
  <2>6. c # x
    BY <2>3, <2>5
  <2>7. s \ {x} \in SUBSET D /\ s \ {c} \in SUBSET D /\ (s \ {x}) \ {c} = (s \ {c}) \ {x}
    BY <2>2
  <2>8. f[s \ {c}] = w[x] + f[(s \ {c}) \ {x}]
    BY <2>1, <2>6, <2>7
  <2>9. f[s \ {x}] = w[c] + f[(s \ {x}) \ {c}]
    BY <2>1, <2>6, <2>7
  <2>10. PICK d \in SUBSET D : d = (s \ {c}) \ {x}
    BY <2>2
  <2>11. w[x] \in Nat /\ w[c] \in Nat /\ f[d] \in Nat
    BY <1>3, <2>2
  <2>12. w[c] + (w[x] + f[d]) = w[x] + (w[c] + f[d])
    BY <2>11
  <2> QED
    BY <2>3, <2>5, <2>7, <2>8, <2>9, <2>10, <2>12
<1> QED
  BY <1>2, <1>3, <1>4 DEF Additive

\* A sum over V is that over D if what counts in V corresponds to D.
LEMMA SumsAgree ==
  ASSUME NEW D, NEW w, NEW f, Additive(f, D, w),
         NEW V, IsFiniteSet(V), NEW u, NEW h, Additive(h, V, u),
         NEW C, C \subseteq V, NEW g \in [C -> D],
         \A x, y \in C : g[x] = g[y] => x = y,
         \A x \in C : u[x] = w[g[x]],
         \A x \in V \ C : u[x] = 0
  PROVE  h[V] = f[{g[x] : x \in C}]
<1> DEFINE image(s) == {g[x] : x \in s \cap C}
           B == {s \in SUBSET V : h[s] # f[image(s)]}
<1>1. /\ f[{}] = 0
      /\ \A s \in SUBSET D : f[s] \in Nat
      /\ \A s \in SUBSET D : \A x \in s : f[s] = w[x] + f[s \ {x}]
  BY DEF Additive
<1>2. /\ h[{}] = 0
      /\ \A s \in SUBSET V : h[s] \in Nat
      /\ \A s \in SUBSET V : \A x \in s : h[s] = u[x] + h[s \ {x}]
  BY DEF Additive
<1>3. B = {}
  <2> SUFFICES ASSUME B # {} PROVE FALSE
    OBVIOUS
  <2>1. PICK s \in B : \A x \in s : s \ {x} \notin B
    BY SmallestSet
  <2>2. s \in SUBSET V /\ h[s] # f[image(s)]
    BY <2>1
  <2>3. s # {}
    <3>1. image({}) = {}
      OBVIOUS
    <3> QED
      BY <1>1, <1>2, <2>2, <3>1
  <2>4. PICK x \in s : TRUE
    BY <2>3
  <2>5. h[s \ {x}] = f[image(s \ {x})] /\ h[s] = u[x] + h[s \ {x}]
    BY <1>2, <2>1, <2>2, <2>4
  <2>6. CASE x \in C
    <3>1. image(s) \in SUBSET D /\ g[x] \in image(s)
      BY <2>2, <2>6
    <3>2. image(s \ {x}) = image(s) \ {g[x]}
      BY <2>2, <2>6
    <3> HIDE DEF image
    <3>3. f[image(s)] = w[g[x]] + f[image(s) \ {g[x]}]
      BY <1>1, <3>1
    <3>4. u[x] = w[g[x]]
      BY <2>6
    <3> QED
      BY <2>2, <2>5, <3>2, <3>3, <3>4
  <2>7. CASE x \notin C
    <3>1. image(s \ {x}) = image(s)
      BY <2>7
    <3>2. u[x] = 0 /\ h[s \ {x}] \in Nat
      BY <1>2, <2>2, <2>7
    <3> HIDE DEF image
    <3> QED
      BY <2>2, <2>5, <3>1, <3>2
  <2> QED
    BY <2>6, <2>7
<1>4. image(V) = {g[x] : x \in C}
  OBVIOUS
<1> QED
  BY <1>3, <1>4

\* The two sums of UsageExact.
LEMMA UsageIs ==
  ASSUME IsFiniteSet(Listed)
  PROVE  \E f : Sums(f, Listed, [n \in Listed |-> nodes[n].size]) /\ dmt_usage = f[Listed]
<1> DEFINE w     == [n \in Listed |-> nodes[n].size]
           is(f) == f = [s \in SUBSET Listed |->
                           IF s = {} THEN 0
                           ELSE nodes[First(s)].size + f[s \ {First(s)}]]
           f     == CHOOSE f : is(f)
<1>1. dmt_usage = f[Listed]
  BY DEF dmt_usage, MapThenSumSet, MapThenFoldSet, First
<1>2. \A e : is(e) <=> Sums(e, Listed, w)
  <2> TAKE e
  <2>1. [s \in SUBSET Listed |->
           IF s = {} THEN 0 ELSE nodes[First(s)].size + e[s \ {First(s)}]]
        = [s \in SUBSET Listed |-> IF s = {} THEN 0 ELSE w[First(s)] + e[s \ {First(s)}]]
    BY FirstIn
  <2> QED
    BY <2>1 DEF Sums
<1>3. PICK e : Sums(e, Listed, w)
  BY SumsExist
<1> HIDE DEF w, is
<1>4. is(f)
  BY <1>2, <1>3
<1> QED
  BY <1>1, <1>2, <1>4 DEF w

\* What a vector accounts for.
Share(v) == IF vec[v].borrowed THEN 0 ELSE vec[v].capacity * memsz

Accounted == MapThenSumSet(LAMBDA v : IF vec[v].borrowed THEN 0 ELSE vec[v].capacity * memsz, Vecs)

LEMMA AccountedIs ==
  ASSUME IsFiniteSet(Vecs)
  PROVE  \E f : Sums(f, Vecs, [v \in Vecs |-> Share(v)]) /\ Accounted = f[Vecs]
<1> DEFINE w     == [v \in Vecs |-> Share(v)]
           is(f) == f = [s \in SUBSET Vecs |->
                           IF s = {} THEN 0
                           ELSE (IF vec[First(s)].borrowed THEN 0
                                 ELSE vec[First(s)].capacity * memsz) + f[s \ {First(s)}]]
           f     == CHOOSE f : is(f)
<1>1. Accounted = f[Vecs]
  BY DEF Accounted, MapThenSumSet, MapThenFoldSet, First
<1>2. \A e : is(e) <=> Sums(e, Vecs, w)
  <2> TAKE e
  <2>1. [s \in SUBSET Vecs |->
           IF s = {} THEN 0
           ELSE (IF vec[First(s)].borrowed THEN 0
                 ELSE vec[First(s)].capacity * memsz) + e[s \ {First(s)}]]
        = [s \in SUBSET Vecs |-> IF s = {} THEN 0 ELSE w[First(s)] + e[s \ {First(s)}]]
    BY FirstIn DEF Share
  <2> QED
    BY <2>1 DEF Sums
<1>3. PICK e : Sums(e, Vecs, w)
  BY SumsExist
<1> HIDE DEF w, is
<1>4. is(f)
  BY <1>2, <1>3
<1> QED
  BY <1>1, <1>2, <1>4 DEF w

---------------------------------------------------------------------------
(* What is in use *)

Owns(r) == ~r.borrowed /\ r.data # NULL

(***************************************************************************)
(* While no vector was used beyond the limits, every block but the         *)
(* client's belongs to a vector, and it is as large as its capacity says.  *)
(***************************************************************************)
UInv ==
  beyond = {} =>
    /\ \A v \in Vecs : Owns(vec[v]) => nodes[vec[v].data].size = vec[v].capacity * memsz
    /\ \A b \in DOMAIN nodes \ {Own} : \E v \in Vecs : Owns(vec[v]) /\ vec[v].data = b

\* The sizes of the blocks after VEC_ALLOC.
LEMMA AllocSizes ==
  ASSUME MInv, NEW p \in (DOMAIN nodes \ {Own}) \cup {NULL}, NEW q \in Results(p), NEW size \in Nat,
         VEC_ALLOC(p, q, size)
  PROVE  /\ DOMAIN nodes' = (DOMAIN nodes \ {p}) \cup {q}
         /\ q # NULL /\ q \notin DOMAIN nodes \ {p}
         /\ nodes'[q].size = size
         /\ \A a \in DOMAIN nodes \ {p} : nodes'[a].size = nodes[a].size
<1>1. /\ DOMAIN nodes \subseteq Addr /\ NULL \notin Addr
      /\ \A a \in DOMAIN nodes : nodes[a] \in NodeType
  BY AddrAssumption DEF MInv, Chain
<1>2. CASE p = NULL
  <2>1. q \in Free /\ dmt_alloc(q, size)
    BY <1>2 DEF Results, VEC_ALLOC
  <2>2. q \in Addr /\ q \notin DOMAIN nodes /\ p \notin DOMAIN nodes
    BY <1>1, <1>2, <2>1 DEF Free
  <2>3. /\ DOMAIN nodes' = DOMAIN nodes \cup {q}
        /\ nodes'[q] = Node(NULL, dmt_head, size)
        /\ \A a \in DOMAIN nodes :
             nodes'[a] = IF a = dmt_head THEN [nodes[a] EXCEPT !.prev = q] ELSE nodes[a]
    BY <2>1, <2>2 DEF dmt_alloc
  <2>4. \A a \in DOMAIN nodes : nodes'[a].size = nodes[a].size
    <3> TAKE a \in DOMAIN nodes
    <3>1. nodes[a] \in NodeType
      BY <1>1
    <3>2. [nodes[a] EXCEPT !.prev = q].size = nodes[a].size
      BY <3>1 DEF NodeType
    <3> QED
      BY <2>3, <3>2
  <2>5. nodes'[q].size = size
    BY <2>3 DEF Node
  <2> QED
    BY <1>1, <2>2, <2>3, <2>4, <2>5
<1>3. CASE p # NULL
  <2>1. p \in DOMAIN nodes /\ q \in Free \cup {p}
    BY <1>3 DEF Results
  <2>2. dmt_has_node(p)
    BY <2>1, ChainSound DEF dmt_has_node, MInv
  <2>3. dmt_realloc(p, q, size)
    BY <1>3, <2>2 DEF VEC_ALLOC
  <2>4. q \in Addr /\ q \notin DOMAIN nodes \ {p}
    BY <1>1, <2>1 DEF Free
  <2>5. /\ DOMAIN nodes' = (DOMAIN nodes \ {p}) \cup {q}
        /\ nodes'[q] = [nodes[p] EXCEPT !.size = size]
        /\ \A a \in DOMAIN nodes \ {p} :
             nodes'[a] = [nodes[a] EXCEPT !.next = IF a = nodes[p].prev THEN q ELSE @,
                                          !.prev = IF a = nodes[p].next THEN q ELSE @]
    BY <2>3, <2>4 DEF dmt_realloc
  <2>6. nodes'[q].size = size
    <3>1. nodes[p] \in NodeType
      BY <1>1, <2>1
    <3> QED
      BY <2>5, <3>1 DEF NodeType
  <2>7. \A a \in DOMAIN nodes \ {p} : nodes'[a].size = nodes[a].size
    <3> TAKE a \in DOMAIN nodes \ {p}
    <3>1. nodes[a] \in NodeType
      BY <1>1
    <3> QED
      BY <2>5, <3>1 DEF NodeType
  <2> QED
    BY <1>1, <2>4, <2>5, <2>6, <2>7
<1> QED
  BY <1>2, <1>3

\* The sizes of the blocks after VEC_FREE.
LEMMA FreeSizes ==
  ASSUME MInv, NEW p \in DOMAIN nodes, VEC_FREE(p, 0)
  PROVE  /\ DOMAIN nodes' = DOMAIN nodes \ {p}
         /\ \A a \in DOMAIN nodes \ {p} : nodes'[a].size = nodes[a].size
<1>1. /\ DOMAIN nodes \subseteq Addr /\ NULL \notin Addr
      /\ \A a \in DOMAIN nodes : nodes[a] \in NodeType
  BY AddrAssumption DEF MInv, Chain
<1>2. dmt_has_node(p)
  BY ChainSound DEF dmt_has_node, MInv
<1>3. dmt_free(p)
  BY <1>1, <1>2 DEF VEC_FREE
<1>4. /\ DOMAIN nodes' = DOMAIN nodes \ {p}
      /\ \A a \in DOMAIN nodes \ {p} :
           nodes'[a] = [nodes[a] EXCEPT
                          !.next = IF a = nodes[p].prev THEN nodes[p].next ELSE @,
                          !.prev = IF a = nodes[p].next THEN nodes[p].prev ELSE @]
  BY <1>3 DEF dmt_free
<1>5. \A a \in DOMAIN nodes \ {p} : nodes'[a].size = nodes[a].size
  <2> TAKE a \in DOMAIN nodes \ {p}
  <2>1. nodes[a] \in NodeType
    BY <1>1
  <2> QED
    BY <1>4, <2>1 DEF NodeType
<1> QED
  BY <1>4, <1>5

(***************************************************************************)
(* A call on v makes r of it.  It touches no block but that of v, and what *)
(* is new belongs to v.                                                    *)
(***************************************************************************)
Touches(v, r) ==
  /\ vec' = [vec EXCEPT ![v] = r]
  /\ memsz' = memsz
  /\ \A a \in DOMAIN nodes : (Owns(vec[v]) => a # vec[v].data) =>
       a \in DOMAIN nodes' /\ nodes'[a].size = nodes[a].size
  /\ \A a \in DOMAIN nodes' :
       \/ a \in DOMAIN nodes /\ (Owns(vec[v]) => a # vec[v].data)
       \/ Owns(r) /\ a = r.data
  /\ Owns(r) => nodes'[r.data].size = r.capacity * memsz

LEMMA TouchesKeeps ==
  ASSUME VInv, UInv, NEW v \in Vecs, NEW r, beyond = {}, Touches(v, r)
  PROVE  UInv'
<1>1. SInv /\ MInv /\ OwnedOnce
  BY DEF VInv
<1>2. /\ vec'[v] = r /\ \A u \in Vecs : u # v => vec'[u] = vec[u]
      /\ memsz' = memsz
  BY <1>1 DEF SInv, Touches
<1>3. ASSUME NEW u \in Vecs, Owns(vec'[u])
      PROVE  nodes'[vec'[u].data].size = vec'[u].capacity * memsz'
  <2>1. CASE u = v
    BY <1>2, <1>3, <2>1 DEF Touches
  <2>2. CASE u # v
    <3>1. vec'[u] = vec[u] /\ Owns(vec[u])
      BY <1>2, <1>3, <2>2
    <3>2. vec[u].data \in DOMAIN nodes
      BY <1>1, <3>1, OneVector DEF Owns
    <3>3. Owns(vec[v]) => vec[u].data # vec[v].data
      BY <1>1, <2>2, <3>1 DEF OwnedOnce, Owns
    <3>4. nodes'[vec[u].data].size = nodes[vec[u].data].size
      BY <3>2, <3>3 DEF Touches
    <3>5. nodes[vec[u].data].size = vec[u].capacity * memsz
      BY <3>1 DEF UInv
    <3> QED
      BY <1>2, <3>1, <3>4, <3>5
  <2> QED
    BY <2>1, <2>2
<1>4. ASSUME NEW b \in DOMAIN nodes' \ {Own}
      PROVE  \E u \in Vecs : Owns(vec'[u]) /\ vec'[u].data = b
  <2>1. CASE Owns(r) /\ b = r.data
    BY <1>2, <2>1
  <2>2. CASE b \in DOMAIN nodes /\ (Owns(vec[v]) => b # vec[v].data)
    <3>1. PICK u \in Vecs : Owns(vec[u]) /\ vec[u].data = b
      BY <2>2 DEF UInv
    <3>2. u # v
      BY <2>2, <3>1
    <3> QED
      BY <1>2, <3>1, <3>2
  <2> QED
    BY <2>1, <2>2 DEF Touches
<1> QED
  BY <1>3, <1>4 DEF UInv

\* Nothing is beyond the limits after a call only if nothing was before.
\* The blocks stay, and who owns what.
LEMMA StaysTouches ==
  ASSUME UInv, beyond = {}, NEW v \in Vecs, NEW r, vec' = [vec EXCEPT ![v] = r],
         nodes' = nodes, memsz' = memsz,
         Owns(r) <=> Owns(vec[v]),
         Owns(r) => r.data = vec[v].data /\ r.capacity = vec[v].capacity
  PROVE  Touches(v, r)
BY DEF Touches, UInv

\* New storage in place of that of v, or of none.
LEMMA MovesTouches ==
  ASSUME MInv, NEW v \in Vecs, NEW r, vec' = [vec EXCEPT ![v] = r], memsz' = memsz,
         NEW p \in (DOMAIN nodes \ {Own}) \cup {NULL}, NEW q \in Results(p),
         r.capacity * memsz \in Nat, VEC_ALLOC(p, q, r.capacity * memsz),
         r.data = q, ~r.borrowed,
         p = IF Owns(vec[v]) THEN vec[v].data ELSE NULL
  PROVE  Touches(v, r)
<1> DEFINE size == r.capacity * memsz
<1>1. /\ DOMAIN nodes' = (DOMAIN nodes \ {p}) \cup {q}
      /\ q # NULL /\ q \notin DOMAIN nodes \ {p}
      /\ nodes'[q].size = size
      /\ \A a \in DOMAIN nodes \ {p} : nodes'[a].size = nodes[a].size
  <2>1. size \in Nat /\ VEC_ALLOC(p, q, size)
    OBVIOUS
  <2> HIDE DEF size
  <2> QED
    BY <2>1, AllocSizes
<1>2. \A a \in DOMAIN nodes : (Owns(vec[v]) => a # vec[v].data) <=> a # p
  BY AddrAssumption DEF MInv, Chain
<1>3. Owns(r)
  BY <1>1 DEF Owns
<1> QED
  BY <1>1, <1>2, <1>3 DEF Touches

\* The storage of v is given back.
LEMMA FreesTouches ==
  ASSUME MInv, NEW v \in Vecs, NEW r, vec' = [vec EXCEPT ![v] = r], memsz' = memsz,
         Owns(vec[v]), vec[v].data \in DOMAIN nodes, VEC_FREE(vec[v].data, 0), ~Owns(r)
  PROVE  Touches(v, r)
<1>1. /\ DOMAIN nodes' = DOMAIN nodes \ {vec[v].data}
      /\ \A a \in DOMAIN nodes \ {vec[v].data} : nodes'[a].size = nodes[a].size
  BY FreeSizes
<1> QED
  BY <1>1 DEF Touches

\* What VEC_ALLOC is called with by a function that changes the storage of v.
LEMMA OldStorage ==
  ASSUME MInv, SInv, NEW v \in Vecs, v \notin beyond
  PROVE  (IF Owns(vec[v]) THEN vec[v].data ELSE NULL) \in (DOMAIN nodes \ {Own}) \cup {NULL}
BY OneVector DEF Owns

LEMMA AddSizes ==
  ASSUME VInv, UInv, NEW v \in Vecs, NEW n \in Nat, NEW unit \in Nat, NEW idx, NEW s,
         NEW limit \in BOOLEAN, Add(v, n, unit, idx, s, limit), n > 0 /\ ~limit => unit = memsz,
         beyond' = {}
  PROVE  UInv'
<1> DEFINE r   == vec[v]
           len == r.length + Len(s)
<1>1. MInv /\ SInv /\ v \notin beyond
  BY DEF VInv, Add, Usable
<1>2. beyond = {} /\ ~limit /\ memsz' = memsz
  BY DEF Add
<1>3. r \in StructType /\ vec \in [Vecs -> StructType] /\ memsz \in Nat
  BY <1>1, VecAssumption DEF SInv, MInv
<1>4. CASE n = 0
  <2> DEFINE r2 == [r EXCEPT !.length = len]
  <2>1. vec' = [vec EXCEPT ![v].length = len] /\ UNCHANGED dmtvars
    <3>1. ~(n > 0)
      BY <1>4
    <3> QED
      BY <3>1, Zenon DEF Add
  <2>2. /\ vec' = [vec EXCEPT ![v] = r2]
        /\ r2.borrowed = r.borrowed /\ r2.data = r.data /\ r2.capacity = r.capacity
    BY <1>3, <2>1 DEF StructType
  <2> HIDE DEF r2
  <2>3. nodes' = nodes
    BY <2>1 DEF dmtvars
  <2>4. Touches(v, r2)
    BY <1>2, <2>2, <2>3, StaysTouches DEF Owns
  <2> QED
    BY <1>2, <2>4, TouchesKeeps
<1>5. CASE n > 0
  <2> DEFINE p == IF r.borrowed THEN NULL ELSE r.data
  <2>1. PICK q \in Results(p) : /\ VEC_ALLOC(p, q, n * unit)
                                /\ vec' = [vec EXCEPT ![v] = Struct(FALSE, len, n, q, 0)]
    <3>1. ~(n = 0)
      BY <1>5
    <3> QED
      BY <3>1, Zenon DEF Add
  <2> DEFINE r2 == Struct(FALSE, len, n, q, 0)
  <2>2. vec' = [vec EXCEPT ![v] = r2] /\ r2.data = q /\ ~r2.borrowed /\ r2.capacity = n
    BY <2>1 DEF Struct
  <2>3. p = (IF Owns(vec[v]) THEN vec[v].data ELSE NULL)
    BY DEF Owns
  <2>4. p \in (DOMAIN nodes \ {Own}) \cup {NULL}
    BY <1>1, <2>3, OldStorage
  <2>5. VEC_ALLOC(p, q, n * memsz) /\ n * memsz \in Nat
    BY <1>2, <1>3, <1>5, <2>1
  <2> HIDE DEF r2, p
  <2>6. Touches(v, r2)
    BY <1>1, <1>2, <2>1, <2>2, <2>3, <2>4, <2>5, MovesTouches
  <2> QED
    BY <1>2, <2>6, TouchesKeeps
<1> QED
  BY <1>4, <1>5

LEMMA PushSizes ==
  ASSUME VInv, UInv, NEW v \in Vecs, NEW x, VecPush(v, x), beyond' = {}
  PROVE  UInv'
<1> DEFINE n     == vec_expand(v)
           s     == <<x>>
           limit == FALSE
<1>1. Add(v, n, memsz, vec[v].length, s, limit)
  BY DEF VecPush
<1>2. Usable(v)
  BY <1>1 DEF Add
<1>3. vec[v].length \in Nat /\ vec[v].capacity \in Nat /\ memsz \in Nat
  BY <1>2, UsableIs
<1>4. n \in Nat /\ limit \in BOOLEAN
  BY <1>3 DEF vec_expand
<1> HIDE DEF n, s, limit
<1> QED
  BY <1>1, <1>3, <1>4, AddSizes

LEMMA PushArrSizes ==
  ASSUME VInv, UInv, NEW v \in Vecs, NEW s \in Seq(Value), VecPushArr(v, s), beyond' = {}
  PROVE  UInv'
<1>1. PICK n \in vec_reserve_po2(v, vec[v].length + Len(s)) :
        Add(v, n, memsz, vec[v].length, s, FALSE)
  BY DEF VecPushArr
<1>2. Usable(v)
  BY <1>1 DEF Add
<1>3. vec[v].length \in Nat /\ memsz \in Nat
  BY <1>2, UsableIs
<1> DEFINE m     == vec[v].length + Len(s)
           limit == FALSE
<1>4. n \in Nat
  <2>1. CASE m = 0
    BY <1>1, <2>1 DEF vec_reserve_po2
  <2>2. CASE m # 0
    <3>1. PICK k_ \in m..(2 * m - 1) : n = vec_reserve(v, k_)
      BY <1>1, <2>2 DEF vec_reserve_po2
    <3>2. m \in Nat
      BY <1>3
    <3> HIDE DEF m
    <3> QED
      BY <3>1, <3>2 DEF vec_reserve
  <2> QED
    BY <2>1, <2>2
<1>5. limit \in BOOLEAN /\ Add(v, n, memsz, vec[v].length, s, limit)
  BY <1>1
<1> HIDE DEF limit
<1> QED
  BY <1>3, <1>4, <1>5, AddSizes

LEMMA ExtendSizes ==
  ASSUME VInv, UInv, NEW v \in Vecs, NEW u \in Vecs, VecExtend(v, u), beyond' = {}
  PROVE  UInv'
<1>1. Elements(u) \in Seq(Value)
  BY UsableIs DEF VecExtend
<1> QED
  BY <1>1, PushArrSizes DEF VecExtend

LEMMA ReserveSizes ==
  ASSUME VInv, UInv, NEW v \in Vecs, NEW m \in Nat, VecReserve(v, m), beyond' = {}
  PROVE  UInv'
<1> DEFINE n     == vec_reserve(v, m)
           s     == <<>>
           limit == FALSE
<1>1. Add(v, n, memsz, vec[v].length, s, limit)
  BY DEF VecReserve
<1>2. Usable(v)
  BY <1>1 DEF Add
<1>3. memsz \in Nat
  BY <1>2, UsableIs
<1>4. n \in Nat /\ limit \in BOOLEAN
  BY DEF vec_reserve
<1> HIDE DEF n, s, limit
<1> QED
  BY <1>1, <1>3, <1>4, AddSizes

LEMMA InsertSizes ==
  ASSUME VInv, UInv, NEW v \in Vecs, NEW idx, NEW s \in Seq(Value), VecInsert(v, idx, s),
         beyond' = {}
  PROVE  UInv'
<1> DEFINE n     == vec_expand(v)
           unit  == memsz * Len(s)
           limit == Overrun(v, n, Len(s))
<1>1. Add(v, n, unit, idx, s, limit)
  BY DEF VecInsert
<1>2. Usable(v)
  BY <1>1 DEF Add
<1>3. vec[v].length \in Nat /\ vec[v].capacity \in Nat /\ memsz \in Nat /\ Len(s) \in Nat
  <2>1. vec[v].length \in Nat /\ vec[v].capacity \in Nat /\ memsz \in Nat
    BY <1>2, UsableIs
  <2> QED
    BY <2>1
<1>4. n \in Nat /\ unit \in Nat /\ limit \in BOOLEAN
  BY <1>3 DEF vec_expand, Overrun
<1> HIDE DEF n
<1>5. n > 0 /\ ~limit => unit = memsz
  <2>1. SUFFICES ASSUME n > 0, ~limit PROVE unit = memsz
    OBVIOUS
  <2>2. Len(s) = 1
    BY <2>1, Zenon DEF Overrun
  <2> QED
    BY <1>3, <2>2
<1> HIDE DEF unit, limit
<1> QED
  BY <1>1, <1>4, <1>5, AddSizes

\* Functions that leave the storage alone.
LEMMA LengthSizes ==
  ASSUME VInv, UInv, NEW v \in Vecs, NEW len, vec' = [vec EXCEPT ![v].length = len],
         UNCHANGED <<dmtvars, memsz>>, beyond = {}
  PROVE  UInv'
<1> DEFINE r  == vec[v]
           r2 == [r EXCEPT !.length = len]
<1>1. vec \in [Vecs -> StructType] /\ r \in StructType
  BY DEF VInv, SInv
<1>2. /\ vec' = [vec EXCEPT ![v] = r2]
      /\ r2.borrowed = r.borrowed /\ r2.data = r.data /\ r2.capacity = r.capacity
  BY <1>1 DEF StructType
<1> HIDE DEF r2
<1>3. nodes' = nodes /\ memsz' = memsz
  BY DEF dmtvars
<1>4. Touches(v, r2)
  BY <1>2, <1>3, StaysTouches DEF Owns
<1> QED
  BY <1>4, TouchesKeeps

LEMMA RewriteSizes ==
  ASSUME VInv, UInv, NEW v \in Vecs, NEW s, NEW len, NEW expected, NEW limit,
         Rewrite(v, s, len, expected, limit), beyond' = {}
  PROVE  UInv'
<1>1. vec' = [vec EXCEPT ![v].length = len] /\ UNCHANGED <<dmtvars, memsz>> /\ beyond = {}
  BY DEF Rewrite
<1> QED
  BY <1>1, LengthSizes

LEMMA InPlaceSizes ==
  ASSUME VInv, UInv, NEW v \in Vecs, beyond' = {},
         \/ \E x \in Value : VecRemove(v, x)
         \/ \E start \in 0..MaxLen, count \in 1..MaxLen :
              VecSplice(v, start, count) \/ VecSwapSplice(v, start, count)
         \/ \E i, j \in 1..MaxLen : VecSwap(v, i, j)
         \/ VecReverse(v)
         \/ \E n \in 0..MaxLen : VecTruncate(v, n)
  PROVE  UInv'
<1>1. CASE \E x \in Value : VecRemove(v, x)
  BY <1>1, RewriteSizes DEF VecRemove, VecSplice
<1>2. CASE \E start \in 0..MaxLen, count \in 1..MaxLen :
             VecSplice(v, start, count) \/ VecSwapSplice(v, start, count)
  BY <1>2, RewriteSizes DEF VecSplice, VecSwapSplice
<1>3. CASE \E i, j \in 1..MaxLen : VecSwap(v, i, j)
  BY <1>3, RewriteSizes DEF VecSwap
<1>4. CASE VecReverse(v)
  BY <1>4, RewriteSizes DEF VecReverse
<1>5. CASE \E n \in 0..MaxLen : VecTruncate(v, n)
  BY <1>5, LengthSizes DEF VecTruncate
<1> QED
  BY <1>1, <1>2, <1>3, <1>4, <1>5

\* A vector that owned nothing becomes one that owns nothing.
LEMMA BorrowSizes ==
  ASSUME VInv, UInv, NEW v \in Vecs, vec[v] = Zero, NEW r, r.borrowed, NEW s, Become(v, r, s),
         UNCHANGED <<dmtvars, memsz>>, beyond = {}
  PROVE  UInv'
<1>1. vec' = [vec EXCEPT ![v] = r] /\ nodes' = nodes /\ memsz' = memsz
  BY DEF Become, dmtvars
<1>2. ~Owns(vec[v]) /\ ~Owns(r)
  BY DEF Owns, Zero, Struct
<1>3. Touches(v, r)
  BY <1>1, <1>2, StaysTouches
<1> QED
  BY <1>3, TouchesKeeps

LEMMA BorrowedSizes ==
  ASSUME VInv, UInv, NEW v \in Vecs, NEW capacity, VecBorrowed(v, capacity), beyond' = {}
  PROVE  UInv'
<1>1. beyond = {} /\ vec[v] = Zero /\ Become(v, Struct(TRUE, 0, capacity, Pool, 0), <<>>)
      /\ UNCHANGED <<dmtvars, memsz>>
  BY DEF VecBorrowed
<1>2. Struct(TRUE, 0, capacity, Pool, 0).borrowed
  BY DEF Struct
<1> QED
  BY <1>1, <1>2, BorrowSizes

LEMMA SliceSizes ==
  ASSUME VInv, UInv, NEW v \in Vecs, NEW u \in Vecs, NEW start, NEW end, VecSlice(v, u, start, end),
         beyond' = {}
  PROVE  UInv'
<1> DEFINE r == Struct(TRUE, end - start, end - start, vec[u].data, vec[u].off + start)
<1>1. beyond = {} /\ vec[v] = Zero /\ Become(v, r, SubSeq(seq[u], start + 1, end))
      /\ UNCHANGED <<dmtvars, memsz>>
  BY DEF VecSlice
<1>2. r.borrowed
  BY DEF Struct
<1> HIDE DEF r
<1> QED
  BY <1>1, <1>2, BorrowSizes

LEMMA CopySizes ==
  ASSUME VInv, UInv, NEW v \in Vecs, NEW u \in Vecs, VecCopy(v, u), beyond' = {}
  PROVE  UInv'
<1> DEFINE r == vec[u]
<1>1. MInv /\ Usable(u) /\ vec[v] = Zero /\ beyond = {} /\ memsz' = memsz
  BY DEF VInv, VecCopy
<1>2. memsz \in Nat /\ r.capacity \in Nat
  BY <1>1, UsableIs
<1>3. PICK q \in Free : /\ VEC_ALLOC(NULL, q, r.capacity * memsz)
                        /\ Become(v, Struct(FALSE, r.length, r.capacity, q, 0), seq[u])
  BY DEF VecCopy
<1> DEFINE r2 == Struct(FALSE, r.length, r.capacity, q, 0)
<1>4. /\ vec' = [vec EXCEPT ![v] = r2]
      /\ r2.data = q /\ ~r2.borrowed /\ r2.capacity = r.capacity
  BY <1>3 DEF Become, Struct
<1> DEFINE n == r.capacity
<1>5. q \in Results(NULL) /\ n \in Nat /\ VEC_ALLOC(NULL, q, n * memsz)
  BY <1>2, <1>3 DEF Results
<1>6. (IF Owns(vec[v]) THEN vec[v].data ELSE NULL) = NULL
  BY <1>1 DEF Owns, Zero, Struct
<1> HIDE DEF r2
<1>7. r2.capacity = n
  BY <1>4
<1> HIDE DEF n
<1>8. n * memsz \in Nat
  BY ONLY <1>2, <1>5
<1>9. r2.capacity * memsz \in Nat /\ VEC_ALLOC(NULL, q, r2.capacity * memsz)
  BY <1>5, <1>7, <1>8
<1>10. Touches(v, r2)
  BY <1>1, <1>4, <1>5, <1>6, <1>9, MovesTouches
<1> QED
  BY <1>1, <1>10, TouchesKeeps

LEMMA DeinitSizes ==
  ASSUME VInv, UInv, NEW v \in Vecs, VecDeinit(v), beyond' = {}
  PROVE  UInv'
<1> DEFINE r == vec[v]
<1>1. MInv /\ SInv /\ Usable(v) /\ r # Zero /\ v \notin beyond
  BY DEF VInv, VecDeinit, Usable
<1>2. /\ vec' = [vec EXCEPT ![v] = Zero] /\ memsz' = memsz /\ beyond = {}
      /\ IF r.borrowed THEN UNCHANGED dmtvars ELSE VEC_FREE(r.data, r.off)
  BY DEF VecDeinit, Become
<1>3. r.data # NULL /\ (~r.borrowed => r.data \in DOMAIN nodes /\ r.off = 0)
  BY <1>1, OneVector
<1>4. ~Owns(Zero)
  BY DEF Owns, Zero, Struct
<1>5. Touches(v, Zero)
  <2>1. CASE r.borrowed
    <3>1. nodes' = nodes /\ ~Owns(r)
      BY <1>2, <2>1 DEF dmtvars, Owns
    <3> QED
      BY <1>2, <1>4, <3>1, StaysTouches
  <2>2. CASE ~r.borrowed
    <3>1. Owns(r) /\ VEC_FREE(r.data, 0)
      BY <1>2, <1>3, <2>2 DEF Owns
    <3> QED
      BY <1>1, <1>2, <1>3, <1>4, <2>2, <3>1, FreesTouches
  <2> QED
    BY <2>1, <2>2
<1> QED
  BY <1>2, <1>5, TouchesKeeps

LEMMA CompactEmptySizes ==
  ASSUME VInv, UInv, NEW v \in Vecs, VecCompactEmpty(v), beyond' = {}
  PROVE  UInv'
<1> DEFINE r  == vec[v]
           r2 == [r EXCEPT !.capacity = 0, !.data = NULL]
<1>1. MInv /\ SInv /\ Usable(v) /\ r # Zero /\ v \notin beyond
  BY DEF VInv, VecCompactEmpty, Usable
<1>2. /\ vec' = [vec EXCEPT ![v].capacity = 0, ![v].data = IF r.borrowed THEN @ ELSE NULL]
      /\ memsz' = memsz /\ beyond = {} /\ ~r.borrowed /\ VEC_FREE(r.data, r.off)
  BY DEF VecCompactEmpty
<1>3. r.data # NULL /\ r.data \in DOMAIN nodes /\ r.off = 0 /\ r \in StructType
  BY <1>1, <1>2, OneVector
<1>4. vec' = [vec EXCEPT ![v] = r2] /\ r2.data = NULL
  <2>1. vec \in [Vecs -> StructType]
    BY <1>1 DEF SInv
  <2> QED
    BY <1>2, <1>3, <2>1 DEF StructType
<1> HIDE DEF r2
<1>5. Owns(r) /\ ~Owns(r2) /\ VEC_FREE(r.data, 0)
  BY <1>2, <1>3, <1>4 DEF Owns
<1>6. Touches(v, r2)
  BY <1>1, <1>2, <1>3, <1>4, <1>5, FreesTouches
<1> QED
  BY <1>2, <1>6, TouchesKeeps

LEMMA CompactSizes ==
  ASSUME VInv, UInv, NEW v \in Vecs, VecCompact(v), beyond' = {}
  PROVE  UInv'
<1> DEFINE r == vec[v]
<1>1. MInv /\ SInv /\ Usable(v) /\ v \notin beyond /\ memsz' = memsz
  BY DEF VInv, VecCompact, Usable
<1>2. memsz \in Nat /\ r.length \in Nat
  BY <1>1, UsableIs
<1>3. vec \in [Vecs -> StructType] /\ r \in StructType
  BY <1>1 DEF SInv
<1>4. CASE r.borrowed
  <2> DEFINE r2 == [r EXCEPT !.capacity = r.length]
  <2>1. vec' = [vec EXCEPT ![v].capacity = r.length] /\ UNCHANGED dmtvars /\ beyond = {}
    BY <1>4 DEF VecCompact
  <2>2. vec' = [vec EXCEPT ![v] = r2] /\ r2.borrowed = r.borrowed
    BY <1>3, <2>1 DEF StructType
  <2> HIDE DEF r2
  <2>3. nodes' = nodes /\ ~Owns(r) /\ ~Owns(r2)
    BY <1>4, <2>1, <2>2 DEF dmtvars, Owns
  <2>4. Touches(v, r2)
    BY <1>1, <2>1, <2>2, <2>3, StaysTouches
  <2> QED
    BY <2>1, <2>4, TouchesKeeps
<1>5. CASE ~r.borrowed
  <2>1. PICK q \in Results(r.data) :
          /\ VEC_ALLOC(r.data, q, r.length * memsz)
          /\ vec' = [vec EXCEPT ![v] = Struct(FALSE, r.length, r.length, q, 0)]
          /\ beyond' = beyond \cup Sharing(v)
    BY <1>5, Zenon DEF VecCompact
  <2> DEFINE r2 == Struct(FALSE, r.length, r.length, q, 0)
  <2>2. /\ vec' = [vec EXCEPT ![v] = r2]
        /\ r2.data = q /\ ~r2.borrowed /\ r2.capacity = r.length
    BY <2>1 DEF Struct
  <2> HIDE DEF r2
  <2>3. r2.capacity * memsz \in Nat /\ VEC_ALLOC(r.data, q, r2.capacity * memsz) /\ beyond = {}
    BY <1>2, <2>1, <2>2
  <2>4. r.data = IF Owns(r) THEN r.data ELSE NULL
    BY <1>5 DEF Owns
  <2>5. r.data \in (DOMAIN nodes \ {Own}) \cup {NULL}
    BY <1>1, <2>4, OldStorage
  <2>6. Touches(v, r2)
    BY <1>1, <2>1, <2>2, <2>3, <2>4, <2>5, MovesTouches
  <2> QED
    BY <2>3, <2>6, TouchesKeeps
<1> QED
  BY <1>4, <1>5

LEMMA UInvInit == Init => UInv
<1> SUFFICES ASSUME Init PROVE UInv
  OBVIOUS
<1>1. DOMAIN nodes = {Own} /\ \A v \in Vecs : ~Owns(vec[v])
  BY DEF Init, DmtInit, Owns, Zero, Struct
<1> QED
  BY <1>1 DEF UInv

LEMMA UInvNext == VInv /\ UInv /\ [Next]_vars => UInv'
<1> SUFFICES ASSUME VInv, UInv, [Next]_vars PROVE UInv'
  OBVIOUS
<1>1. CASE UNCHANGED vars
  BY <1>1 DEF vars, dmtvars, UInv
<1>2. CASE Next
  <2> SUFFICES ASSUME beyond' = {} PROVE UInv'
    BY DEF UInv
  <2>1. PICK v \in Vecs : Call(v)
    BY <1>2 DEF Next
  <2>2. \A s \in Arrays : s \in Seq(Value)
    <3>1. ASSUME NEW n \in 0..2, NEW s \in [1..n -> Value] PROVE s \in Seq(Value)
      <4>1. n \in Nat
        OBVIOUS
      <4> QED
        BY <4>1
    <3> QED
      BY <3>1 DEF Arrays
  <2>3. MaxLen \in Nat
    BY VecAssumption
  <2>4. CASE \/ \E x \in Value : VecPush(v, x)
             \/ \E s \in Arrays : VecPushArr(v, s)
             \/ \E s \in Arrays, idx \in 0..MaxLen : VecInsert(v, idx, s)
             \/ VecReserve(v, MaxLen)
             \/ \E u \in Vecs : VecExtend(v, u)
    BY <2>2, <2>3, <2>4, PushSizes, PushArrSizes, InsertSizes, ReserveSizes, ExtendSizes
  <2>5. CASE \/ \E x \in Value : VecRemove(v, x)
             \/ \E start \in 0..MaxLen, count \in 1..MaxLen :
                  VecSplice(v, start, count) \/ VecSwapSplice(v, start, count)
             \/ \E i, j \in 1..MaxLen : VecSwap(v, i, j)
             \/ VecReverse(v)
             \/ \E n \in 0..MaxLen : VecTruncate(v, n)
    BY <2>5, InPlaceSizes
  <2>6. CASE VecDeinit(v) \/ VecCompactEmpty(v) \/ VecCompact(v)
    BY <2>6, DeinitSizes, CompactEmptySizes, CompactSizes
  <2>7. CASE \E capacity \in {PoolLen, PoolLen * memsz} : VecBorrowed(v, capacity)
    BY <2>7, BorrowedSizes
  <2>8. CASE \E u \in Vecs : VecCopy(v, u) \/ VecCopyFails(v, u)
    BY <2>8, CopySizes DEF VecCopyFails
  <2>9. CASE \E u \in Vecs, start, end \in 0..MaxLen : VecSlice(v, u, start, end)
    BY <2>9, SliceSizes
  <2> QED
    BY <2>1, <2>4, <2>5, <2>6, <2>7, <2>8, <2>9 DEF Call
<1> QED
  BY <1>1, <1>2

\* Each block but the client's counts once on either side.
LEMMA UsageAdds ==
  ASSUME VInv, UInv, beyond = {}
  PROVE  dmt_usage = nodes[Own].size + Accounted
<1> DEFINE D == Listed
           w == [n \in D |-> nodes[n].size]
           u == [v \in Vecs |-> Share(v)]
           C == {v \in Vecs : Owns(vec[v])}
           g == [v \in C |-> vec[v].data]
<1>1. MInv /\ SInv /\ OwnedOnce
  BY DEF VInv
<1>2. D = DOMAIN nodes /\ DOMAIN nodes \subseteq Addr /\ Own \in D
      /\ \A n \in D : nodes[n] \in NodeType
  BY <1>1, ChainSound DEF MInv, Chain
<1>3. IsFiniteSet(D) /\ IsFiniteSet(Vecs)
  BY <1>2, AddrAssumption, VecAssumption, FS_Subset
<1>4. w \in [D -> Nat]
  BY <1>2 DEF NodeType
<1>5. \A v \in Vecs : vec[v] \in StructType /\ vec[v].capacity \in Nat /\ memsz \in Nat
  BY <1>1, VecAssumption DEF SInv, MInv, StructType
<1>6. u \in [Vecs -> Nat]
  <2>1. \A v \in Vecs : Share(v) \in Nat
    BY <1>5 DEF Share
  <2> QED
    BY <2>1
<1>7. PICK f : Sums(f, D, w) /\ dmt_usage = f[D]
  BY <1>3, UsageIs
<1>8. PICK h : Sums(h, Vecs, u) /\ Accounted = h[Vecs]
  BY <1>3, AccountedIs
<1>9. g \in [C -> D] /\ C \subseteq Vecs
  BY <1>1, <1>2, OneVector DEF Owns
<1>10. \A x, y \in C : g[x] = g[y] => x = y
  BY <1>1 DEF OwnedOnce, Owns
<1>11. \A x \in C : u[x] = w[g[x]]
  <2> TAKE x \in C
  <2>1. Owns(vec[x]) /\ g[x] = vec[x].data /\ g[x] \in D
    BY <1>9
  <2>2. nodes[vec[x].data].size = vec[x].capacity * memsz
    BY <2>1 DEF UInv
  <2> QED
    BY <2>1, <2>2 DEF Owns, Share
<1>12. \A x \in Vecs \ C : u[x] = 0
  <2> TAKE x \in Vecs \ C
  <2>1. vec[x].borrowed \/ vec[x].capacity = 0
    BY <1>1, OneVector DEF Owns
  <2> QED
    BY <1>5, <2>1 DEF Share
<1>13. {g[x] : x \in C} = D \ {Own}
  <2>1. \A x \in C : g[x] \in D \ {Own}
    BY <1>1, <1>9, OneVector DEF Owns
  <2>2. \A b \in D \ {Own} : \E x \in C : g[x] = b
    <3> TAKE b \in D \ {Own}
    <3>1. PICK x \in Vecs : Owns(vec[x]) /\ vec[x].data = b
      BY <1>2 DEF UInv
    <3> QED
      BY <3>1
  <2> HIDE DEF D, C, g
  <2> QED
    BY <2>1, <2>2
<1>14. w[Own] = nodes[Own].size
  BY <1>2
<1> HIDE DEF D, w, u, C, g
<1>15. Additive(f, D, w) /\ Additive(h, Vecs, u)
  BY <1>3, <1>4, <1>6, <1>7, <1>8, SumsAre
<1>16. h[Vecs] = f[{g[x] : x \in C}]
  BY <1>3, <1>9, <1>10, <1>11, <1>12, <1>15, SumsAgree
<1>17. f[D] = w[Own] + f[D \ {Own}]
  BY <1>2, <1>15 DEF Additive
<1> QED
  BY <1>7, <1>8, <1>13, <1>14, <1>16, <1>17

(***************************************************************************)
(* Within the limits dmt_usage is the client's block and the capacities of *)
(* the vectors that own their storage, for any number of vectors: vec.h    *)
(* leaks nothing, frees nothing twice, and capacity is what was allocated. *)
(***************************************************************************)
THEOREM SpecUsageExact == Spec => []UsageExact
<1>1. VInv /\ UInv => UsageExact
  BY UsageAdds DEF UsageExact, Accounted
<1> QED
  BY <1>1, VInvInit, VInvNext, UInvInit, UInvNext, PTL DEF Spec
=============================================================================
