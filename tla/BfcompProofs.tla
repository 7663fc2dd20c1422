---------------------------- MODULE BfcompProofs ---------------------------
(***************************************************************************)
(* Proofs about main for a run that interprets or dumps, for every source  *)
(* file, chunk size, tape and stdin: the parser's stack is as deep as the  *)
(* text it has read, so main fails exactly on the texts with a ']' too     *)
(* many; the IR, printed, is the text read (SpecDumpsSource); and what the *)
(* interpreter does with the IR is what BfMachine says the text means      *)
(* (SpecImplementsMachine).                                                *)
(***************************************************************************)
EXTENDS Bfcomp, IrGenProofs, FiniteSetTheorems

---------------------------------------------------------------------------
(* The characters that reach the parser *)

\* No NUL precedes the character i of f in its chunk.
Live(f, i) == \A j \in ChunkStart(i)..i : f[j] # "nul"

Kept(f, n) == {i \in 1..n : Live(f, i)}

\* Those of the first n that are c.
Lives(f, c, n) == {i \in 1..n : Live(f, i) /\ f[i] = c}

LEMMA SameCardinality ==
  ASSUME NEW S
  PROVE  Machine!Cardinality(S) = Cardinality(S)
BY DEF Machine!Cardinality, Machine!IsFiniteSet, Cardinality, IsFiniteSet

LEMMA KeptFinite ==
  ASSUME NEW f, NEW n \in Nat
  PROVE  /\ IsFiniteSet(Kept(f, n)) /\ Cardinality(Kept(f, n)) \in Nat
         /\ \A c : IsFiniteSet(Lives(f, c, n)) /\ Cardinality(Lives(f, c, n)) \in Nat
<1>1. IsFiniteSet(1..n)
  BY FS_Interval
<1>2. Kept(f, n) \in SUBSET (1..n) /\ \A c : Lives(f, c, n) \in SUBSET (1..n)
  BY DEF Kept, Lives
<1>3. IsFiniteSet(Kept(f, n)) /\ \A c : IsFiniteSet(Lives(f, c, n))
  BY <1>1, <1>2, FS_Subset
<1> QED
  BY <1>3, FS_CardinalityType

\* The next character adds one to what is kept, or nothing.
LEMMA KeptNext ==
  ASSUME NEW f, NEW n \in Nat
  PROVE  Cardinality(Kept(f, n + 1)) =
           IF Live(f, n + 1) THEN Cardinality(Kept(f, n)) + 1 ELSE Cardinality(Kept(f, n))
<1>1. IsFiniteSet(Kept(f, n)) /\ n + 1 \notin Kept(f, n)
  <2>1. n + 1 \notin Kept(f, n)
    BY DEF Kept
  <2> QED
    BY <2>1, KeptFinite
<1>2. \A i : i \in 1..(n + 1) <=> i \in 1..n \/ i = n + 1
  OBVIOUS
<1>3. CASE Live(f, n + 1)
  <2>1. Kept(f, n + 1) = Kept(f, n) \cup {n + 1}
    BY <1>2, <1>3 DEF Kept
  <2> QED
    BY <1>1, <1>3, <2>1, FS_AddElement
<1>4. CASE ~Live(f, n + 1)
  <2>1. Kept(f, n + 1) = Kept(f, n)
    BY <1>2, <1>4 DEF Kept
  <2> QED
    BY <1>4, <2>1
<1> QED
  BY <1>3, <1>4

LEMMA LivesNext ==
  ASSUME NEW f, NEW c, NEW n \in Nat
  PROVE  Cardinality(Lives(f, c, n + 1)) =
           IF Live(f, n + 1) /\ f[n + 1] = c THEN Cardinality(Lives(f, c, n)) + 1
           ELSE Cardinality(Lives(f, c, n))
<1>1. IsFiniteSet(Lives(f, c, n)) /\ n + 1 \notin Lives(f, c, n)
  <2>1. n + 1 \notin Lives(f, c, n)
    BY DEF Lives
  <2> QED
    BY <2>1, KeptFinite
<1>2. \A i : i \in 1..(n + 1) <=> i \in 1..n \/ i = n + 1
  OBVIOUS
<1>3. CASE Live(f, n + 1) /\ f[n + 1] = c
  <2>1. Lives(f, c, n + 1) = Lives(f, c, n) \cup {n + 1}
    BY <1>2, <1>3 DEF Lives
  <2> QED
    BY <1>1, <1>3, <2>1, FS_AddElement
<1>4. CASE ~(Live(f, n + 1) /\ f[n + 1] = c)
  <2>1. Lives(f, c, n + 1) = Lives(f, c, n)
    BY <1>2, <1>4 DEF Lives
  <2> QED
    BY <1>4, <2>1
<1> QED
  BY <1>3, <1>4

\* More characters keep no fewer.
LEMMA KeptGrows ==
  ASSUME NEW f, NEW a \in Nat, NEW b \in Nat, a <= b
  PROVE  Cardinality(Kept(f, a)) <= Cardinality(Kept(f, b))
<1>1. Kept(f, a) \in SUBSET Kept(f, b)
  BY DEF Kept
<1> QED
  BY <1>1, KeptFinite, FS_Subset

\* No two are kept as the same one.
LEMMA KeptOnce ==
  ASSUME NEW f, NEW n \in Nat, NEW i \in Kept(f, n), NEW j \in Kept(f, n),
         Cardinality(Kept(f, i)) = Cardinality(Kept(f, j))
  PROVE  i = j
<1>1. ASSUME NEW a \in Nat, NEW b \in Nat, a < b, Live(f, b)
      PROVE  Cardinality(Kept(f, a)) < Cardinality(Kept(f, b))
  <2>1. b - 1 \in Nat /\ a <= b - 1 /\ (b - 1) + 1 = b
    BY <1>1
  <2>2. Cardinality(Kept(f, a)) <= Cardinality(Kept(f, b - 1))
    BY <2>1, KeptGrows
  <2>3. Cardinality(Kept(f, b)) = Cardinality(Kept(f, b - 1)) + 1
    BY <1>1, <2>1, KeptNext
  <2>4. Cardinality(Kept(f, a)) \in Nat /\ Cardinality(Kept(f, b - 1)) \in Nat
    BY <2>1, KeptFinite
  <2> QED
    BY <2>2, <2>3, <2>4
<1>2. i \in Nat /\ j \in Nat /\ Live(f, i) /\ Live(f, j)
  BY DEF Kept
<1>3. Cardinality(Kept(f, i)) \in Nat
  BY <1>2, KeptFinite
<1>4. ~(i < j) /\ ~(j < i)
  BY <1>1, <1>2, <1>3
<1> QED
  BY <1>2, <1>4

\* One is kept as the k-th.
LEMMA KeptAll ==
  ASSUME NEW f, NEW n \in Nat, NEW k \in 1..Cardinality(Kept(f, n))
  PROVE  \E i \in Kept(f, n) : Cardinality(Kept(f, i)) = k
<1> DEFINE T == {i \in 0..n : Cardinality(Kept(f, i)) >= k}
<1>1. T \subseteq Nat /\ n \in T
  BY KeptFinite
<1>2. PICK i \in T : \A j \in T : i <= j
  BY <1>1, LeastNat
<1>3. i \in 0..n /\ Cardinality(Kept(f, i)) >= k /\ k \in Nat /\ k > 0
  BY <1>2, KeptFinite
<1>4. i # 0
  <2>1. Kept(f, 0) = {}
    BY DEF Kept
  <2>2. Cardinality(Kept(f, 0)) = 0
    BY <2>1, FS_EmptySet
  <2> QED
    BY <1>3, <2>2
<1>5. i - 1 \in Nat /\ i - 1 \in 0..n /\ i \in 1..n /\ (i - 1) + 1 = i
  BY <1>3, <1>4
<1>6. ~(Cardinality(Kept(f, i - 1)) >= k)
  <2> SUFFICES ASSUME i - 1 \in T PROVE FALSE
    BY <1>5
  <2> HIDE DEF T
  <2>1. i <= i - 1
    BY <1>2
  <2> QED
    BY <1>5, <2>1
<1>7. Cardinality(Kept(f, i - 1)) \in Nat
  BY <1>5, KeptFinite
<1>8. Live(f, i) /\ Cardinality(Kept(f, i)) = Cardinality(Kept(f, i - 1)) + 1
  BY <1>3, <1>5, <1>6, KeptNext
<1>9. Cardinality(Kept(f, i)) = k
  BY <1>3, <1>6, <1>7, <1>8
<1> QED
  BY <1>5, <1>8, <1>9 DEF Kept

\* The characters of f in K, in the order of the file.
InOrder(f, K) ==
  [k \in 1..Cardinality(K) |-> f[CHOOSE i \in K : Cardinality(K \cap 1..i) = k]]

LEMMA EffectiveForm ==
  ASSUME NEW n
  PROVE  Effective(n) = InOrder(file, Kept(file, n))
<1>1. Kept(file, n) = {i \in 1..n : \A j \in ChunkStart(i)..i : file[j] # "nul"}
  BY DEF Kept, Live
<1> QED
  BY <1>1 DEF Effective, InOrder

\* The n first characters of the file have as many effective ones as are
\* kept, and each is that of the file.
LEMMA EffectiveReads ==
  ASSUME NEW f, f = file, NEW n \in Nat, NEW t, t = Effective(n)
  PROVE  /\ Len(t) = Cardinality(Kept(f, n))
         /\ \A i \in Kept(f, n) : t[Cardinality(Kept(f, i))] = f[i]
<1> DEFINE K == Kept(f, n)
           R(i) == Cardinality(K \cap 1..i)
<1>1. Cardinality(K) \in Nat
  BY KeptFinite
<1>2. t = InOrder(f, Kept(f, n))
  BY EffectiveForm
<1>3. t = [k \in 1..Cardinality(K) |-> f[CHOOSE i \in K : R(i) = k]]
  BY <1>2 DEF InOrder
<1>4. \A i \in K : R(i) = Cardinality(Kept(f, i))
  <2> TAKE i \in K
  <2>1. i \in 1..n
    BY DEF Kept
  <2>2. K \cap 1..i = Kept(f, i)
    BY <2>1 DEF Kept
  <2> QED
    BY <2>2
<1>5. ASSUME NEW i \in K PROVE R(i) \in 1..Cardinality(K)
  <2>1. i \in 1..n /\ i \in Nat /\ i - 1 \in Nat /\ i <= n /\ Live(f, i) /\ (i - 1) + 1 = i
    BY DEF Kept
  <2>2. Cardinality(Kept(f, i)) <= Cardinality(K)
    BY <2>1, KeptGrows
  <2>3. Cardinality(Kept(f, i)) = Cardinality(Kept(f, i - 1)) + 1
    BY <2>1, KeptNext
  <2>4. Cardinality(Kept(f, i - 1)) \in Nat
    BY <2>1, KeptFinite
  <2> HIDE DEF K, R
  <2> QED
    BY <1>1, <1>4, <2>2, <2>3, <2>4
<1>6. ASSUME NEW i \in K, NEW j \in K, R(i) = R(j) PROVE i = j
  BY <1>4, <1>6, KeptOnce
<1> HIDE DEF K, R
<1>9. Len(t) = Cardinality(K)
  BY <1>1, <1>3
<1>10. ASSUME NEW i \in K PROVE t[R(i)] = f[i]
  <2>1. \A j \in K : R(j) = R(i) => j = i
    BY <1>6
  <2>2. (CHOOSE j \in K : R(j) = R(i)) = i
    BY <2>1
  <2> QED
    BY <1>3, <1>5, <2>2
<1>12. \A i \in K : t[Cardinality(Kept(f, i))] = f[i]
  BY <1>4, <1>10
<1> QED
  BY <1>9, <1>12 DEF K

\* The same, one character at a time.
LEMMA EffectiveAt ==
  ASSUME NEW f, f = file, NEW n \in Nat, NEW t, t = Effective(n), NEW i \in Kept(f, n)
  PROVE  t[Cardinality(Kept(f, i))] = f[i]
BY EffectiveReads, ZenonT(60)

LEMMA EffectiveChars ==
  ASSUME NEW f, f = file, f \in Seq(Char), NEW n \in Nat, n <= Len(f),
         NEW t, t = Effective(n)
  PROVE  t \in Seq(Char)
<1> DEFINE K == Kept(f, n)
<1>1. Cardinality(K) \in Nat
  BY KeptFinite
<1>2. \A i \in K : t[Cardinality(Kept(f, i))] = f[i]
  BY EffectiveAt
<1>3. t = [k \in 1..Cardinality(K) |-> f[CHOOSE i \in K : Cardinality(K \cap 1..i) = k]]
  <2>1. t = InOrder(f, Kept(f, n))
    BY EffectiveForm
  <2> QED
    BY <2>1 DEF InOrder
<1>4. \A k \in 1..Cardinality(K) : \E i \in K : Cardinality(Kept(f, i)) = k
  BY KeptAll
<1>5. \A i \in K : i \in 1..n
  BY DEF Kept
<1> HIDE DEF K
<1>6. ASSUME NEW k \in 1..Cardinality(K) PROVE t[k] \in Char
  <2>1. PICK i \in K : Cardinality(Kept(f, i)) = k
    BY <1>4
  <2>2. t[k] = f[i] /\ i \in 1..Len(f)
    BY <1>2, <1>5, <2>1
  <2> QED
    BY <2>2
<1>7. t \in [1..Cardinality(K) -> Char]
  BY <1>3, <1>6
<1> QED
  BY <1>1, <1>7

\* The text has as many characters as are kept, and each is that of the file.
LEMMA TextIs ==
  ASSUME NEW f, f = file, NEW n \in Nat, n = Len(f), NEW t, t = Text
  PROVE  /\ Len(t) = Cardinality(Kept(f, n))
         /\ \A i \in Kept(f, n) : t[Cardinality(Kept(f, i))] = f[i]
<1>1. t = Effective(n)
  BY DEF Text
<1>2. Len(t) = Cardinality(Kept(f, n))
  BY <1>1, EffectiveReads
<1>3. ASSUME NEW i \in Kept(f, n) PROVE t[Cardinality(Kept(f, i))] = f[i]
  BY <1>1, <1>3, EffectiveAt
<1> QED
  BY <1>2, <1>3

\* A prefix of the text has as many c as the part of the file it is from.
LEMMA CountIs ==
  ASSUME NEW f, f = file, NEW n \in Nat, n = Len(f), NEW t, t = Text,
         NEW a \in 0..n, NEW c
  PROVE  Machine!Count(t, c, 1, Cardinality(Kept(f, a))) = Cardinality(Lives(f, c, a))
<1> DEFINE Rank(i) == Cardinality(Kept(f, i))
           l == Rank(a)
           S == Lives(f, c, a)
           T == {k \in 1..l : t[k] = c}
<1>1. /\ Len(t) = Rank(n)
      /\ \A i \in Kept(f, n) : t[Rank(i)] = f[i]
  BY TextIs
<1>2. a \in Nat /\ a <= n /\ l \in Nat /\ l <= Rank(n)
  BY KeptFinite, KeptGrows
<1>3. S \subseteq Kept(f, a) /\ Kept(f, a) \subseteq Kept(f, n)
  BY <1>2 DEF Lives, Kept
<1>4. ASSUME NEW i \in Kept(f, a) PROVE Rank(i) \in 1..l /\ t[Rank(i)] = f[i]
  <2>1. i \in Nat /\ i - 1 \in Nat /\ i <= a /\ Live(f, i) /\ (i - 1) + 1 = i
    BY DEF Kept
  <2>2. Rank(i) <= l
    BY <1>2, <2>1, KeptGrows
  <2>3. Rank(i) = Rank(i - 1) + 1
    BY <2>1, KeptNext
  <2>4. Rank(i - 1) \in Nat
    BY <2>1, KeptFinite
  <2>5. t[Rank(i)] = f[i]
    BY <1>1, <1>3
  <2> HIDE DEF Rank, l
  <2> QED
    BY <1>2, <2>2, <2>3, <2>4, <2>5
<1>5. \A i, j \in Kept(f, a) : Rank(i) = Rank(j) => i = j
  BY <1>2, KeptOnce
<1>6. \A k \in 1..l : \E i \in Kept(f, a) : Rank(i) = k
  BY <1>2, KeptAll
<1>7. \A i \in S : f[i] = c
  BY DEF Lives
<1>8. \A i \in Kept(f, a) : f[i] = c => i \in S
  BY DEF Lives, Kept
<1> HIDE DEF Rank, l, S
<1> DEFINE g == [i \in S |-> Rank(i)]
<1>9. g \in [S -> T]
  BY <1>3, <1>4, <1>7
<1>10. \A i, j \in S : g[i] = g[j] => i = j
  BY <1>3, <1>5
<1>11. \A k \in T : \E i \in S : g[i] = k
  <2> TAKE k \in T
  <2>1. PICK i \in Kept(f, a) : Rank(i) = k
    BY <1>6
  <2>2. f[i] = c
    BY <1>4, <2>1
  <2> QED
    BY <1>8, <2>1, <2>2
<1> HIDE DEF g, T
<1>12. ExistsBijection(S, T)
  <2>1. g \in Injection(S, T)
    BY <1>9, <1>10 DEF Injection, IsInjective
  <2>2. g \in Surjection(S, T)
    BY <1>9, <1>11 DEF Surjection
  <2> QED
    BY <2>1, <2>2 DEF ExistsBijection, Bijection
<1>13. IsFiniteSet(S)
  BY <1>2, KeptFinite DEF S
<1>14. Cardinality(T) = Cardinality(S)
  BY <1>12, <1>13, FS_Bijection
<1>15. Machine!Count(t, c, 1, l) = Cardinality(T)
  BY SameCardinality DEF Machine!Count, T
<1> QED
  BY <1>14, <1>15 DEF S, l, Rank

\* A ']' too many in the text is one in the characters of the file.
LEMMA TooManyIs ==
  ASSUME NEW f, f = file, NEW n \in Nat, n = Len(f)
  PROVE  TooManyEnds <=>
           \E a \in 0..n : Cardinality(Lives(f, "]", a)) > Cardinality(Lives(f, "[", a))
<1>1. PICK t : t = Text
  OBVIOUS
<1>2. Len(t) = Cardinality(Kept(f, n))
  BY <1>1, TextIs
<1>3. TooManyEnds <=>
        \E j \in 1..Len(t) : Machine!Count(t, "]", 1, j) > Machine!Count(t, "[", 1, j)
  BY <1>1 DEF TooManyEnds
<1>4. ASSUME NEW j \in 1..Len(t) PROVE \E a \in 0..n : j = Cardinality(Kept(f, a))
  <2>1. PICK i \in Kept(f, n) : Cardinality(Kept(f, i)) = j
    BY <1>2, KeptAll
  <2>2. i \in 0..n
    BY DEF Kept
  <2> QED
    BY <2>1, <2>2
<1>5. ASSUME NEW a \in 0..n, Cardinality(Lives(f, "]", a)) > Cardinality(Lives(f, "[", a))
      PROVE  Cardinality(Kept(f, a)) \in 1..Len(t)
  <2>1. a \in Nat /\ a <= n
    OBVIOUS
  <2>2. Cardinality(Lives(f, "]", a)) \in Nat /\ Cardinality(Lives(f, "[", a)) \in Nat
    BY <2>1, KeptFinite
  <2>3. Cardinality(Lives(f, "]", a)) # 0
    BY <1>5, <2>2
  <2>4. Cardinality(Lives(f, "]", a)) <= Cardinality(Kept(f, a))
    <3>1. Lives(f, "]", a) \in SUBSET Kept(f, a)
      BY DEF Lives, Kept
    <3> QED
      BY <2>1, <3>1, KeptFinite, FS_Subset
  <2>5. Cardinality(Kept(f, a)) \in Nat /\ Cardinality(Kept(f, a)) <= Len(t)
    BY <1>2, <2>1, KeptFinite, KeptGrows
  <2>6. Len(t) \in Nat
    BY <1>2, KeptFinite
  <2> QED
    BY <2>2, <2>3, <2>4, <2>5, <2>6
<1>6. ASSUME NEW a \in 0..n, NEW c
      PROVE  Machine!Count(t, c, 1, Cardinality(Kept(f, a))) = Cardinality(Lives(f, c, a))
  BY <1>1, CountIs
<1>7. ASSUME NEW j \in 1..Len(t), Machine!Count(t, "]", 1, j) > Machine!Count(t, "[", 1, j)
      PROVE  \E a \in 0..n : Cardinality(Lives(f, "]", a)) > Cardinality(Lives(f, "[", a))
  BY <1>4, <1>6, <1>7
<1>8. ASSUME NEW a \in 0..n, Cardinality(Lives(f, "]", a)) > Cardinality(Lives(f, "[", a))
      PROVE  \E j \in 1..Len(t) : Machine!Count(t, "]", 1, j) > Machine!Count(t, "[", 1, j)
  BY <1>5, <1>6, <1>8
<1> QED
  BY <1>3, <1>7, <1>8

---------------------------------------------------------------------------
(* Chunks *)

LEMMA ModIs ==
  ASSUME NEW b \in Nat, b % BUFLEN = 0, NEW r \in 0..(BUFLEN - 1)
  PROVE  (b + r) % BUFLEN = r /\ (b + BUFLEN) % BUFLEN = 0
<1>1. BUFLEN \in Nat /\ BUFLEN > 0
  BY BuflenAssumption
<1>2. PICK k \in Nat : b = BUFLEN * k
  <2> DEFINE k == b \div BUFLEN
             s == b % BUFLEN
  <2>1. b = BUFLEN * k + s /\ k \in Nat /\ s = 0
    BY <1>1
  <2> HIDE DEF k, s
  <2>2. BUFLEN * k \in Nat
    BY <1>1, <2>1
  <2> QED
    BY <2>1, <2>2
<1>3. ASSUME NEW a \in Nat, NEW q \in Nat, NEW s \in 0..(BUFLEN - 1), a = BUFLEN * q + s
      PROVE  a % BUFLEN = s
  <2> DEFINE l == a \div BUFLEN
             t == a % BUFLEN
  <2>1. a = BUFLEN * l + t /\ l \in Nat /\ t \in 0..(BUFLEN - 1)
    BY <1>1
  <2> HIDE DEF l, t
  <2>2. BUFLEN * q - BUFLEN * l = BUFLEN * (q - l) /\ q - l \in Int
    BY <1>1, <2>1
  <2>3. BUFLEN * (q - l) = t - s
    BY <1>1, <1>3, <2>1, <2>2
  <2>4. CASE q - l >= 1
    <3>1. BUFLEN * (q - l) >= BUFLEN
      BY <1>1, <2>2, <2>4
    <3> QED
      BY <1>1, <2>1, <2>3, <3>1
  <2>5. CASE q - l <= -1
    <3>1. BUFLEN * (q - l) <= -BUFLEN
      BY <1>1, <2>2, <2>5
    <3> QED
      BY <1>1, <2>1, <2>3, <3>1
  <2>6. CASE q - l = 0
    <3>1. t = s
      BY <1>1, <2>1, <2>3, <2>6
    <3> QED
      BY <3>1 DEF t
  <2> QED
    BY <2>2, <2>4, <2>5, <2>6
<1>4. b + r = BUFLEN * k + r /\ b + BUFLEN = BUFLEN * (k + 1) + 0 /\ k + 1 \in Nat
  BY <1>1, <1>2
<1>5. (b + r) % BUFLEN = r
  <2>1. b + r \in Nat
    OBVIOUS
  <2> QED
    BY <1>2, <1>3, <1>4, <2>1
<1>6. (b + BUFLEN) % BUFLEN = 0
  <2>1. b + BUFLEN \in Nat /\ 0 \in 0..(BUFLEN - 1)
    BY <1>1
  <2> QED
    BY <1>3, <1>4, <2>1
<1> QED
  BY <1>5, <1>6

\* The characters of a chunk that starts behind b.
LEMMA ChunkIs ==
  ASSUME NEW b \in Nat, b % BUFLEN = 0, NEW i \in 1..BUFLEN
  PROVE  ChunkStart(b + i) = b + 1
<1>1. i - 1 \in 0..(BUFLEN - 1) /\ (b + i) - 1 = b + (i - 1)
  BY BuflenAssumption
<1>2. (b + (i - 1)) % BUFLEN = i - 1
  BY <1>1, ModIs
<1>3. ((b + i) - 1) % BUFLEN = i - 1
  BY <1>1, <1>2
<1> QED
  BY <1>3 DEF ChunkStart

---------------------------------------------------------------------------
(* Depth *)

\* The first n characters open d loops more than they close, and no first
\* part of them closes one too many.
Depth(f, n, d) ==
  /\ Cardinality(Lives(f, "[", n)) = Cardinality(Lives(f, "]", n)) + d
  /\ \A a \in 0..n : Cardinality(Lives(f, "]", a)) <= Cardinality(Lives(f, "[", a))

LEMMA DepthSame ==
  ASSUME NEW f, NEW n \in Nat, NEW e \in Nat, n <= e, NEW d, Depth(f, n, d),
         \A i \in (n + 1)..e : Live(f, i) => f[i] # "[" /\ f[i] # "]"
  PROVE  Depth(f, e, d)
<1>1. ASSUME NEW a \in n..e, NEW c \in {"[", "]"} PROVE Lives(f, c, a) = Lives(f, c, n)
  <2>1. \A i \in 1..a : i \in 1..n \/ i \in (n + 1)..e
    OBVIOUS
  <2>2. \A i \in 1..n : i \in 1..a
    OBVIOUS
  <2> QED
    BY <2>1, <2>2 DEF Lives
<1>2. e \in n..e /\ n \in 0..n /\ \A a \in 0..e : a \in 0..n \/ a \in n..e
  OBVIOUS
<1> QED
  BY <1>1, <1>2 DEF Depth

LEMMA DepthMore ==
  ASSUME NEW f, NEW n \in Nat, NEW d \in Nat, Depth(f, n, d), Live(f, n + 1)
  PROVE  /\ f[n + 1] = "[" => Depth(f, n + 1, d + 1)
         /\ f[n + 1] = "]" /\ d > 0 => Depth(f, n + 1, d - 1)
         /\ f[n + 1] = "]" /\ d = 0 =>
              Cardinality(Lives(f, "]", n + 1)) > Cardinality(Lives(f, "[", n + 1))
<1> DEFINE O(a) == Cardinality(Lives(f, "[", a))
           E(a) == Cardinality(Lives(f, "]", a))
<1>1. O(n) \in Nat /\ E(n) \in Nat /\ O(n) = E(n) + d /\ \A a \in 0..n : E(a) <= O(a)
  BY KeptFinite DEF Depth
<1>2. f[n + 1] = "[" => O(n + 1) = O(n) + 1 /\ E(n + 1) = E(n)
  BY LivesNext
<1>3. f[n + 1] = "]" => O(n + 1) = O(n) /\ E(n + 1) = E(n) + 1
  BY LivesNext
<1>4. \A a \in 0..(n + 1) : a \in 0..n \/ a = n + 1
  OBVIOUS
<1>5. Depth(f, n + 1, d + 1) <=> /\ O(n + 1) = E(n + 1) + (d + 1)
                                 /\ \A a \in 0..(n + 1) : E(a) <= O(a)
  BY DEF Depth
<1>6. Depth(f, n + 1, d - 1) <=> /\ O(n + 1) = E(n + 1) + (d - 1)
                                 /\ \A a \in 0..(n + 1) : E(a) <= O(a)
  BY DEF Depth
<1> HIDE DEF O, E
<1>7. f[n + 1] = "[" => Depth(f, n + 1, d + 1)
  BY <1>1, <1>2, <1>4, <1>5
<1>8. f[n + 1] = "]" /\ d > 0 => Depth(f, n + 1, d - 1)
  BY <1>1, <1>3, <1>4, <1>6
<1>9. f[n + 1] = "]" /\ d = 0 => E(n + 1) > O(n + 1)
  BY <1>1, <1>3
<1> QED
  BY <1>7, <1>8, <1>9 DEF O, E

---------------------------------------------------------------------------
(* Reading *)

\* The buffer is a chunk of the file, and nothing of it that was parsed is a NUL.
ReadInv ==
  /\ \A i \in 1..Len(buffer) : buffer[i] = file[(fpos - Len(buffer)) + i]
  /\ Len(buffer) <= BUFLEN
  /\ fpos % BUFLEN = 0 \/ fpos = Len(file)
  /\ pc = "parse" => /\ buffer # <<>> => (fpos - Len(buffer)) % BUFLEN = 0
                     /\ buffer = <<>> => fpos = Len(file)
                     /\ \A i \in 1..ptr : buffer[i] # "nul"

\* The stack is as deep as the text that was read.
DepthInv ==
  /\ pc = "read" => Depth(file, fpos, Len(patch))
  /\ pc = "parse" => Depth(file, Offset, Len(patch))
  /\ pc = "parsed" => \A a \in 0..Len(file) :
                        Cardinality(Lives(file, "]", a)) <= Cardinality(Lives(file, "[", a))
  /\ pc = "error" => \E a \in 0..Len(file) :
                       Cardinality(Lives(file, "]", a)) > Cardinality(Lives(file, "[", a))

\* A character of the chunk is live if no NUL of the chunk precedes it.
LEMMA LiveIs ==
  ASSUME TypeOK, ReadInv, pc = "parse", NEW i \in 1..Len(buffer)
  PROVE  /\ Live(file, (fpos - Len(buffer)) + i) <=> \A j \in 1..i : buffer[j] # "nul"
         /\ file[(fpos - Len(buffer)) + i] = buffer[i]
<1> DEFINE b == fpos - Len(buffer)
<1>1. /\ b \in Nat /\ Len(buffer) \in Nat /\ buffer # <<>> /\ i \in Nat /\ i <= BUFLEN
      /\ BUFLEN \in Nat
  BY BuflenAssumption DEF TypeOK, ReadInv
<1>2. b % BUFLEN = 0
  BY <1>1 DEF ReadInv
<1>3. \A j \in 1..Len(buffer) : buffer[j] = file[b + j]
  BY DEF ReadInv
<1> HIDE DEF b
<1>4. ChunkStart(b + i) = b + 1
  <2>1. i \in 1..BUFLEN
    BY <1>1
  <2> QED
    BY <1>1, <1>2, <2>1, ChunkIs
<1>5. \A k : k \in (b + 1)..(b + i) <=> \E j \in 1..i : k = b + j
  <2> TAKE k
  <2>1. ASSUME k \in (b + 1)..(b + i) PROVE \E j \in 1..i : k = b + j
    <3>1. k - b \in 1..i /\ k = b + (k - b)
      BY <1>1, <2>1
    <3> QED
      BY <3>1
  <2>2. ASSUME NEW j \in 1..i, k = b + j PROVE k \in (b + 1)..(b + i)
    BY <1>1, <2>2
  <2> QED
    BY <2>1, <2>2
<1>6. \A j \in 1..i : j \in 1..Len(buffer)
  BY <1>1
<1>7. Live(file, b + i) <=> \A j \in 1..i : file[b + j] # "nul"
  <2>1. Live(file, b + i) <=> \A k \in (b + 1)..(b + i) : file[k] # "nul"
    BY <1>4 DEF Live
  <2> QED
    BY <1>5, <2>1
<1>8. Live(file, b + i) <=> \A j \in 1..i : buffer[j] # "nul"
  BY <1>3, <1>6, <1>7
<1> QED
  BY <1>3, <1>8 DEF b

\* A run of characters other than brackets is skipped.
LEMMA RunStep ==
  ASSUME IInv, ReadInv, DepthInv, pc = "parse", NEW c, c \notin {"[", "]", "nul"},
         NEW count \in 1..(Len(buffer) - ptr), \A i \in 1..count : buffer[ptr + i] = c,
         ptr' = ptr + count, UNCHANGED <<file, fpos, buffer, patch, pc>>
  PROVE  ReadInv' /\ DepthInv'
<1>1. /\ ptr \in Nat /\ fpos \in Nat /\ Len(buffer) \in Nat /\ Len(buffer) <= fpos
      /\ count \in Nat /\ count > 0 /\ ptr + count <= Len(buffer)
  BY DEF IInv, TypeOK
<1> DEFINE b == fpos - Len(buffer)
           n == b + ptr
<1>2. \A i \in 1..(ptr + count) : buffer[i] # "nul"
  <2> TAKE i \in 1..(ptr + count)
  <2>1. CASE i \in 1..ptr
    BY <2>1 DEF ReadInv
  <2>2. CASE i \notin 1..ptr
    <3>1. i - ptr \in 1..count /\ i = ptr + (i - ptr)
      BY <1>1, <2>2
    <3> QED
      BY <3>1
  <2> QED
    BY <2>1, <2>2
<1>3. ReadInv'
  BY <1>2 DEF ReadInv
<1>4. b \in Nat /\ n \in Nat /\ n + count \in Nat /\ n <= n + count
  BY <1>1
<1>5. ASSUME NEW i \in (n + 1)..(n + count) PROVE file[i] = c
  <2>1. PICK k \in 1..count : i = b + (ptr + k)
    <3>1. i - n \in 1..count /\ i = b + (ptr + (i - n))
      BY <1>1, <1>4
    <3> QED
      BY <3>1
  <2>2. ptr + k \in 1..Len(buffer)
    BY <1>1
  <2>3. file[b + (ptr + k)] = buffer[ptr + k]
    BY <2>2 DEF ReadInv
  <2> QED
    BY <2>1, <2>3
<1>6. Depth(file, n, Len(patch))
  BY DEF DepthInv, Offset
<1>7. Depth(file, n + count, Len(patch))
  <2> HIDE DEF n
  <2> QED
    BY <1>4, <1>5, <1>6, DepthSame
<1>8. Offset' = n + count
  BY <1>1 DEF Offset
<1>9. Depth(file', Offset', Len(patch'))
  BY <1>7, <1>8
<1> QED
  BY <1>3, <1>9 DEF DepthInv, Offset, Depth, Lives, Live, ChunkStart

\* The character at ptr is live.
LEMMA NextIs ==
  ASSUME TypeOK, ReadInv, pc = "parse", NEW c, c # "nul", At(c)
  PROVE  /\ Offset \in Nat /\ Offset + 1 \in 1..Len(file)
         /\ Live(file, Offset + 1) /\ file[Offset + 1] = c
         /\ \A i \in 1..(ptr + 1) : buffer[i] # "nul"
<1>1. /\ ptr \in Nat /\ fpos \in Nat /\ Len(buffer) \in Nat /\ Len(buffer) <= fpos
      /\ ptr < Len(buffer) /\ buffer[ptr + 1] = c /\ fpos <= Len(file) /\ Len(file) \in Nat
  BY DEF TypeOK, At
<1>2. ptr + 1 \in 1..Len(buffer) /\ Offset + 1 = (fpos - Len(buffer)) + (ptr + 1)
  BY <1>1 DEF Offset
<1>3. \A i \in 1..(ptr + 1) : buffer[i] # "nul"
  <2> TAKE i \in 1..(ptr + 1)
  <2>1. i \in 1..ptr \/ i = ptr + 1
    BY <1>1
  <2> QED
    BY <1>1, <2>1 DEF ReadInv
<1>4. Live(file, Offset + 1) /\ file[Offset + 1] = c
  BY <1>1, <1>2, <1>3, LiveIs
<1>5. Offset \in Nat /\ Offset + 1 \in 1..Len(file)
  BY <1>1 DEF Offset
<1> QED
  BY <1>3, <1>4, <1>5

LEMMA LoopStartStep ==
  ASSUME IInv, ReadInv, DepthInv, ParseLoopStart
  PROVE  ReadInv' /\ DepthInv'
<1>1. /\ pc = "parse" /\ At("[") /\ ptr' = ptr + 1 /\ UNCHANGED <<file, fpos, buffer, pc>>
      /\ patch' = Append(patch, Len(ir))
  BY DEF ParseLoopStart
<1>2. TypeOK
  BY DEF IInv
<1>3. /\ Offset \in Nat /\ Offset + 1 \in 1..Len(file)
      /\ Live(file, Offset + 1) /\ file[Offset + 1] = "["
      /\ \A i \in 1..(ptr + 1) : buffer[i] # "nul"
  BY <1>1, <1>2, NextIs
<1>4. ReadInv'
  BY <1>1, <1>3 DEF ReadInv
<1>5. Len(patch) \in Nat /\ Len(patch') = Len(patch) + 1
  BY <1>1, <1>2 DEF TypeOK
<1>6. PICK n, d : n = Offset /\ d = Len(patch)
  OBVIOUS
<1>7. Depth(file, n + 1, d + 1)
  <2>1. Depth(file, n, d)
    BY <1>1, <1>6 DEF DepthInv
  <2> QED
    BY <1>3, <1>5, <1>6, <2>1, DepthMore
<1>8. Offset' = n + 1
  BY <1>1, <1>2, <1>6 DEF Offset, TypeOK
<1>9. Depth(file', Offset', Len(patch'))
  BY <1>1, <1>5, <1>6, <1>7, <1>8
<1> QED
  BY <1>1, <1>4, <1>9 DEF DepthInv, Offset, Depth, Lives, Live, ChunkStart

LEMMA LoopEndStep ==
  ASSUME IInv, ReadInv, DepthInv, ParseLoopEnd
  PROVE  ReadInv' /\ DepthInv'
<1>1. /\ pc = "parse" /\ At("]") /\ ptr' = ptr + 1 /\ UNCHANGED <<file, fpos, buffer, pc>>
      /\ Len(patch) > 0 /\ patch' = SubSeq(patch, 1, Len(patch) - 1)
  BY DEF ParseLoopEnd, Popped
<1>2. TypeOK
  BY DEF IInv
<1>3. /\ Offset \in Nat /\ Offset + 1 \in 1..Len(file)
      /\ Live(file, Offset + 1) /\ file[Offset + 1] = "]"
      /\ \A i \in 1..(ptr + 1) : buffer[i] # "nul"
  BY <1>1, <1>2, NextIs
<1>4. ReadInv'
  BY <1>1, <1>3 DEF ReadInv
<1>5. Len(patch) \in Nat /\ Len(patch') = Len(patch) - 1
  <2>1. /\ patch \in Seq(Nat) /\ Len(patch) \in Nat
        /\ Len(patch) - 1 \in Nat /\ Len(patch) - 1 <= Len(patch)
    BY <1>1, <1>2 DEF TypeOK
  <2>2. Len(SubSeq(patch, 1, Len(patch) - 1)) = Len(patch) - 1
    BY <2>1, Prefix
  <2> QED
    BY <1>1, <2>1, <2>2
<1>6. PICK n, d : n = Offset /\ d = Len(patch)
  OBVIOUS
<1>7. Depth(file, n + 1, d - 1)
  <2>1. Depth(file, n, d)
    BY <1>1, <1>6 DEF DepthInv
  <2> QED
    BY <1>1, <1>3, <1>5, <1>6, <2>1, DepthMore
<1>8. Offset' = n + 1
  BY <1>1, <1>2, <1>6 DEF Offset, TypeOK
<1>9. Depth(file', Offset', Len(patch'))
  BY <1>1, <1>5, <1>6, <1>7, <1>8
<1> QED
  BY <1>1, <1>4, <1>9 DEF DepthInv, Offset, Depth, Lives, Live, ChunkStart

LEMMA UnmatchedStep ==
  ASSUME IInv, ReadInv, DepthInv, ParseUnmatched
  PROVE  ReadInv' /\ DepthInv'
<1>1. /\ pc = "parse" /\ At("]") /\ Len(patch) = 0
      /\ pc' = "error" /\ UNCHANGED <<file, fpos, buffer, ptr, ir, patch, src>>
  BY DEF ParseUnmatched
<1>2. TypeOK
  BY DEF IInv
<1>3. /\ Offset \in Nat /\ Offset + 1 \in 1..Len(file)
      /\ Live(file, Offset + 1) /\ file[Offset + 1] = "]"
      /\ \A i \in 1..(ptr + 1) : buffer[i] # "nul"
  BY <1>1, <1>2, NextIs
<1>4. PICK n : n = Offset
  OBVIOUS
<1>5. Cardinality(Lives(file, "]", n + 1)) > Cardinality(Lives(file, "[", n + 1))
  <2>1. Depth(file, n, 0)
    BY <1>1, <1>4 DEF DepthInv
  <2> QED
    BY <1>3, <1>4, <2>1, DepthMore
<1>6. n + 1 \in 0..Len(file)
  BY <1>2, <1>3, <1>4 DEF TypeOK
<1>7. \E a \in 0..Len(file') : Cardinality(Lives(file', "]", a)) > Cardinality(Lives(file', "[", a))
  BY <1>1, <1>5, <1>6
<1>8. ReadInv'
  BY <1>1 DEF ReadInv
<1> QED
  BY <1>1, <1>7, <1>8 DEF DepthInv, Lives, Live, ChunkStart

\* What is behind a NUL does not count.
LEMMA ReturnStep ==
  ASSUME IInv, ReadInv, DepthInv, ParseReturn
  PROVE  ReadInv' /\ DepthInv'
<1>1. /\ pc = "parse" /\ (ptr < Len(buffer) => buffer[ptr + 1] = "nul")
      /\ pc' = IF Len(buffer) > 0 THEN "read" ELSE "parsed"
      /\ UNCHANGED <<file, fpos, buffer, ptr, ir, patch, src>>
  BY DEF ParseReturn, At
<1>2. /\ TypeOK /\ ptr \in Nat /\ fpos \in Nat /\ Len(buffer) \in Nat /\ Len(buffer) <= fpos
      /\ ptr <= Len(buffer) /\ fpos <= Len(file) /\ Len(file) \in Nat /\ buffer \in Seq(Char)
  BY DEF IInv, TypeOK
<1>3. ReadInv'
  BY <1>1 DEF ReadInv
<1> DEFINE b == fpos - Len(buffer)
           n == b + ptr
<1>4. b \in Nat /\ n \in Nat /\ n <= fpos
  BY <1>2
<1>5. ASSUME NEW i \in (n + 1)..fpos PROVE ~Live(file, i)
  <2>1. ptr < Len(buffer) /\ i - b \in 1..Len(buffer) /\ ptr + 1 \in 1..(i - b) /\ i = b + (i - b)
    BY <1>2
  <2>2. ~(\A j \in 1..(i - b) : buffer[j] # "nul")
    BY <1>1, <2>1
  <2>3. PICK k \in 1..Len(buffer) : k = i - b
    BY <2>1
  <2>4. Live(file, b + k) <=> \A j \in 1..k : buffer[j] # "nul"
    BY <1>1, <1>2, LiveIs
  <2> QED
    BY <2>1, <2>2, <2>3, <2>4
<1>6. Depth(file, n, Len(patch))
  BY <1>1 DEF DepthInv, Offset
<1>7. Depth(file, fpos, Len(patch))
  <2> HIDE DEF n
  <2> QED
    BY <1>2, <1>4, <1>5, <1>6, DepthSame
<1>8. CASE Len(buffer) > 0
  <2>1. pc' = "read" /\ Depth(file', fpos', Len(patch'))
    BY <1>1, <1>7, <1>8
  <2> QED
    BY <1>3, <2>1 DEF DepthInv, Depth, Lives, Live, ChunkStart
<1>9. CASE ~(Len(buffer) > 0)
  <2>1. buffer = <<>>
    BY <1>2, <1>9
  <2>2. fpos = Len(file) /\ pc' = "parsed"
    BY <1>1, <1>9, <2>1 DEF ReadInv
  <2>3. \A a \in 0..Len(file) : Cardinality(Lives(file, "]", a)) <= Cardinality(Lives(file, "[", a))
    BY <1>7, <2>2 DEF Depth
  <2>4. \A a \in 0..Len(file') : Cardinality(Lives(file', "]", a)) <= Cardinality(Lives(file', "[", a))
    BY <1>1, <2>3
  <2> QED
    BY <1>3, <2>2, <2>4 DEF DepthInv, Lives, Live, ChunkStart
<1> QED
  BY <1>8, <1>9

LEMMA FreadStep ==
  ASSUME IInv, ReadInv, DepthInv, Fread
  PROVE  ReadInv' /\ DepthInv'
<1>1. /\ pc = "read" /\ fpos' = Smaller(fpos + BUFLEN, Len(file))
      /\ buffer' = SubSeq(file, fpos + 1, fpos') /\ ptr' = 0 /\ pc' = "parse"
      /\ UNCHANGED <<file, ir, patch, src>>
  BY DEF Fread
<1>2. file \in Seq(Char) /\ fpos \in Nat /\ fpos <= Len(file) /\ Len(file) \in Nat
  BY DEF IInv, TypeOK
<1>3. BUFLEN \in Nat /\ BUFLEN > 0
  BY BuflenAssumption
<1>4. PICK g : g = fpos'
  OBVIOUS
<1>5. /\ g \in Nat /\ fpos <= g /\ g <= Len(file) /\ g <= fpos + BUFLEN
      /\ g = fpos + BUFLEN \/ g = Len(file)
  BY <1>1, <1>2, <1>3, <1>4 DEF Smaller
<1>6. /\ buffer' \in Seq(Char) /\ Len(buffer') = g - fpos
      /\ \A i \in 1..(g - fpos) : buffer'[i] = file[fpos + i]
  <2>1. /\ SubSeq(file, fpos + 1, g) \in Seq(Char)
        /\ Len(SubSeq(file, fpos + 1, g)) = g - fpos
        /\ \A i \in 1..(g - fpos) : SubSeq(file, fpos + 1, g)[i] = file[fpos + i]
    BY <1>2, <1>5, Segment
  <2> QED
    BY <1>1, <1>4, <2>1
<1>7. (fpos' - Len(buffer')) = fpos
  <2>1. PICK l : l = Len(buffer')
    OBVIOUS
  <2>2. l = g - fpos
    BY <1>6, <2>1
  <2>3. g - l = fpos
    BY <1>2, <1>5, <2>2
  <2> QED
    BY <1>4, <2>1, <2>3
<1>8. fpos % BUFLEN = 0 \/ fpos = Len(file)
  BY DEF ReadInv
<1>9. buffer' # <<>> => fpos % BUFLEN = 0
  <2> SUFFICES ASSUME fpos = Len(file) PROVE buffer' = <<>>
    BY <1>8
  <2>1. Len(buffer') = 0
    BY <1>2, <1>5, <1>6
  <2> QED
    BY <1>6, <2>1
<1>10. buffer' = <<>> => g = Len(file)
  BY <1>2, <1>3, <1>5, <1>6
<1>11. g % BUFLEN = 0 \/ g = Len(file)
  <2>1. CASE g = fpos + BUFLEN /\ fpos % BUFLEN = 0
    <3>1. 0 \in 0..(BUFLEN - 1)
      BY <1>3
    <3>2. (fpos + BUFLEN) % BUFLEN = 0
      BY <1>2, <2>1, <3>1, ModIs
    <3> QED
      BY <2>1, <3>2
  <2>2. CASE fpos = Len(file)
    BY <1>2, <1>5, <2>2
  <2> QED
    BY <1>5, <1>8, <2>1, <2>2
<1>12. Len(buffer') <= BUFLEN
  BY <1>2, <1>3, <1>5, <1>6
<1>13. \A i \in 1..Len(buffer') : buffer'[i] = file'[(fpos' - Len(buffer')) + i]
  BY <1>1, <1>6, <1>7
<1>14. \A i \in 1..ptr' : buffer'[i] # "nul"
  BY <1>1
<1>15. ReadInv'
  BY <1>1, <1>4, <1>7, <1>9, <1>10, <1>11, <1>12, <1>13, <1>14 DEF ReadInv
<1>16. Offset' = fpos
  <2>1. Offset' = (fpos' - Len(buffer')) + ptr'
    BY DEF Offset
  <2>2. Offset' = fpos + 0
    BY <1>1, <1>7, <2>1
  <2> QED
    BY <1>2, <2>2
<1>17. Depth(file', Offset', Len(patch'))
  BY <1>1, <1>16 DEF DepthInv
<1> QED
  BY <1>1, <1>15, <1>17 DEF DepthInv, Offset, Depth, Lives, Live, ChunkStart

\* A step of the parser.
LEMMA ParseStep ==
  ASSUME IInv, ReadInv, DepthInv, Parse
  PROVE  ReadInv' /\ DepthInv'
<1>1. ASSUME NEW c \in {",", "."}, NEW kind, PushRun(c, kind) PROVE ReadInv' /\ DepthInv'
  <2>1. PICK count \in 1..(Len(buffer) - ptr) : count_char(c, count) /\ ptr' = ptr + count
    BY <1>1 DEF PushRun
  <2>2. pc = "parse" /\ UNCHANGED <<file, fpos, buffer, patch, pc>> /\ c \notin {"[", "]", "nul"}
    BY <1>1 DEF PushRun
  <2>3. \A i \in 1..count : buffer[ptr + i] = c
    BY <2>1 DEF count_char
  <2> QED
    BY <2>1, <2>2, <2>3, RunStep
<1>2. ASSUME NEW c \in {"+", "-", ">", "<"}, NEW kind, NEW sign, AddRun(c, kind, sign)
      PROVE  ReadInv' /\ DepthInv'
  <2>1. PICK count \in 1..(Len(buffer) - ptr) : count_char(c, count) /\ ptr' = ptr + count
    BY <1>2 DEF AddRun
  <2>2. pc = "parse" /\ UNCHANGED <<file, fpos, buffer, patch, pc>> /\ c \notin {"[", "]", "nul"}
    BY <1>2 DEF AddRun
  <2>3. \A i \in 1..count : buffer[ptr + i] = c
    BY <2>1 DEF count_char
  <2> QED
    BY <2>1, <2>2, <2>3, RunStep
<1>3. CASE ParseOther
  <2>1. PICK count \in 1..(Len(buffer) - ptr) : count_char("other", count) /\ ptr' = ptr + count
    BY <1>3 DEF ParseOther
  <2>2. pc = "parse" /\ UNCHANGED <<file, fpos, buffer, patch, pc>>
    BY <1>3 DEF ParseOther
  <2>3. \A i \in 1..count : buffer[ptr + i] = "other"
    BY <2>1 DEF count_char
  <2> QED
    BY <2>1, <2>2, <2>3, RunStep
<1> QED
  BY <1>1, <1>2, <1>3, LoopStartStep, LoopEndStep, UnmatchedStep, ReturnStep, FreadStep
     DEF Parse, ParseChar, ParseRead, ParseWrite, ParsePlus, ParseMinus, ParseRight, ParseLeft

\* At first nothing is read.
LEMMA InitRead ==
  ASSUME Init
  PROVE  ReadInv /\ DepthInv
<1>1. /\ file \in Seq(Char) /\ fpos = 0 /\ buffer = <<>> /\ ptr = 0 /\ patch = <<>> /\ pc = "read"
  BY FilesAssumption DEF Init
<1>2. ReadInv
  <2>1. BUFLEN \in Nat /\ BUFLEN > 0
    BY BuflenAssumption
  <2>2. fpos % BUFLEN = 0
    BY <1>1, <2>1
  <2> QED
    BY <1>1, <2>1, <2>2 DEF ReadInv
<1>3. Depth(file, 0, 0)
  <2>1. \A c : Lives(file, c, 0) = {}
    BY DEF Lives
  <2>2. \A c : Cardinality(Lives(file, c, 0)) = 0
    BY <2>1, FS_EmptySet
  <2> QED
    BY <2>2 DEF Depth
<1> QED
  BY <1>1, <1>2, <1>3 DEF DepthInv

---------------------------------------------------------------------------
(* main *)

\* While the parser runs, its invariants hold, and nothing else has
\* happened; afterwards its last word is kept.
MainInv ==
  /\ file \in Seq(Char)
  /\ pc \in {"read", "parse", "parsed", "error"}
  /\ pc # "parsed" => IInv /\ ReadInv /\ status = "idle" /\ stdout = <<>>
  /\ DepthInv
  /\ exit = 1 => pc = "error"
  /\ exit = 0 => pc = "parsed"

LEMMA MainInvInit == MainInit => MainInv
<1> SUFFICES ASSUME MainInit PROVE MainInv
  OBVIOUS
<1>1. /\ Init /\ file \in Seq(Char) /\ fpos = 0 /\ buffer = <<>> /\ ptr = 0 /\ patch = <<>>
      /\ pc = "read" /\ status = "idle" /\ stdout = <<>> /\ exit = -1
  BY FilesAssumption DEF MainInit, Init, Interpreter!IdleInit
<1>2. IInv
  BY <1>1, InitIInv
<1>3. ReadInv /\ DepthInv
  BY <1>1, InitRead
<1> QED
  BY <1>1, <1>2, <1>3 DEF MainInv

LEMMA MainInvNext == MainInv /\ [MainNext]_allvars => MainInv'
<1> SUFFICES ASSUME MainInv, [MainNext]_allvars PROVE MainInv'
  OBVIOUS
<1>1. CASE ReadFile
  <2>1. Parse /\ UNCHANGED <<ip, sp, data, stdin, stdout, status, dump_ir, exit, strayed>>
    BY <1>1 DEF ReadFile, ivars
  <2>2. pc \in {"read", "parse"}
    BY <2>1 DEF Parse, Fread, ParseChar, ParseReturn, ParseRead, ParseWrite, ParsePlus, ParseMinus,
             ParseRight, ParseLeft, PushRun, AddRun, ParseLoopStart, ParseLoopEnd,
             ParseUnmatched, ParseOther
  <2>3. /\ file' = file /\ IInv /\ ReadInv /\ DepthInv
        /\ status = "idle" /\ stdout = <<>> /\ exit # 1 /\ exit # 0
    <3>1. file' = file
      BY <2>1 DEF Parse, Fread, ParseChar, ParseReturn, ParseRead, ParseWrite, ParsePlus, ParseMinus,
               ParseRight, ParseLeft, PushRun, AddRun, ParseLoopStart, ParseLoopEnd,
               ParseUnmatched, ParseOther
    <3> QED
      BY <2>2, <3>1 DEF MainInv
  <2>4. IInv'
    BY <2>1, <2>3, NextIInv DEF Next
  <2>5. ReadInv' /\ DepthInv'
    BY <2>1, <2>3, ParseStep
  <2>6. pc' \in {"read", "parse", "parsed", "error"}
    BY <2>4 DEF IInv, TypeOK
  <2> QED
    BY <2>1, <2>3, <2>4, <2>5, <2>6 DEF MainInv
<1>2. ASSUME UNCHANGED <<vars, ivars>>,
             exit' \in {exit, 1, 0}, exit' = 1 => pc = "error", exit' = 0 => pc = "parsed"
      PROVE  MainInv'
  <2>1. UNCHANGED <<file, fpos, buffer, ptr, ir, patch, pc, src>> /\ UNCHANGED <<status, stdout>>
    BY <1>2 DEF vars, ivars
  <2>2. pc # "parsed" => IInv'
    <3>1. UNCHANGED vars
      BY <1>2
    <3> QED
      BY <3>1, NextIInv DEF MainInv
  <2>3. pc # "parsed" => ReadInv'
    BY <2>1 DEF MainInv, ReadInv
  <2>4. DepthInv'
    BY <2>1 DEF MainInv, DepthInv, Offset, Depth, Lives, Live, ChunkStart
  <2> QED
    BY <1>2, <2>1, <2>2, <2>3, <2>4 DEF MainInv
<1>3. CASE ReturnParseError
  <2>1. UNCHANGED <<vars, ivars>> /\ pc = "error" /\ exit' = 1
    BY <1>3 DEF ReturnParseError, Return
  <2> QED
    BY <1>2, <2>1
<1>4. CASE DumpIr
  <2>1. UNCHANGED <<vars, ivars>> /\ pc = "parsed" /\ exit' = 0
    BY <1>4 DEF DumpIr, Return
  <2> QED
    BY <1>2, <2>1
<1>5. CASE RunInterpreter
  <2>1. pc = "parsed" /\ UNCHANGED <<file, fpos, buffer, ptr, patch, pc, src, dump_ir, exit>>
    BY <1>5 DEF RunInterpreter
  <2>2. DepthInv'
    BY <2>1 DEF MainInv, DepthInv, Offset, Depth, Lives, Live, ChunkStart
  <2> QED
    BY <2>1, <2>2 DEF MainInv
<1>6. CASE ReturnInterpreted
  <2>1. pc = "parsed"
    BY <1>6 DEF ReturnInterpreted, MainInv
  <2>2. UNCHANGED <<vars, ivars>> /\ exit' = 0
    BY <1>6 DEF ReturnInterpreted, Return
  <2> QED
    BY <1>2, <2>1, <2>2
<1>7. CASE UNCHANGED allvars
  <2>1. UNCHANGED <<vars, ivars>> /\ exit' = exit
    BY <1>7 DEF allvars
  <2>2. (exit' = 1 => pc = "error") /\ (exit' = 0 => pc = "parsed")
    BY <2>1 DEF MainInv
  <2> QED
    BY <1>2, <2>1, <2>2
<1> QED
  BY <1>1, <1>3, <1>4, <1>5, <1>6, <1>7 DEF MainNext, Main, Ended

(***************************************************************************)
(* At every step the stack of ir_ctx_parse is as deep as the text that has *)
(* been read, wherever chunks end and NULs cut them short, and what main   *)
(* returns follows what the parser found.                                  *)
(***************************************************************************)
THEOREM MainInvariant == MainSpec => []MainInv
BY MainInvInit, MainInvNext, PTL DEF MainSpec

LEMMA MainFails == MainInv => FailsOnUnmatchedEnd
<1> SUFFICES ASSUME MainInv PROVE FailsOnUnmatchedEnd
  OBVIOUS
<1>1. TooManyEnds <=>
        \E a \in 0..Len(file) : Cardinality(Lives(file, "]", a)) > Cardinality(Lives(file, "[", a))
  <2>1. PICK f, n : f = file /\ n = Len(f)
    OBVIOUS
  <2> QED
    BY <2>1, TooManyIs
<1>2. TooManyEnds => pc # "parsed"
  <2> SUFFICES ASSUME NEW a \in 0..Len(file), pc = "parsed",
                      Cardinality(Lives(file, "]", a)) > Cardinality(Lives(file, "[", a))
               PROVE  FALSE
    BY <1>1
  <2>1. Cardinality(Lives(file, "]", a)) \in Nat /\ Cardinality(Lives(file, "[", a)) \in Nat
    <3>1. file \in Seq(Char)
      BY DEF MainInv
    <3>2. a \in Nat
      BY <3>1
    <3> QED
      BY <3>2, KeptFinite
  <2>2. Cardinality(Lives(file, "]", a)) <= Cardinality(Lives(file, "[", a))
    BY DEF MainInv, DepthInv
  <2> QED
    BY <2>1, <2>2
<1>3. pc = "error" => TooManyEnds
  BY <1>1 DEF MainInv, DepthInv
<1> QED
  BY <1>2, <1>3 DEF MainInv, FailsOnUnmatchedEnd

(***************************************************************************)
(* For every source file and every chunk size, main fails exactly on the   *)
(* texts with a ']' too many, and interprets nothing of them.              *)
(***************************************************************************)
THEOREM SpecFailsOnUnmatchedEnd == MainSpec => []FailsOnUnmatchedEnd
BY MainInvariant, MainFails, PTL

---------------------------------------------------------------------------
(* Counting the characters of the text *)

\* How many of the characters a..b of t are c.
Tally(t, c, a, b) == Cardinality({k \in a..b : t[k] = c})

LEMMA TallyType ==
  ASSUME NEW t, NEW c, NEW a \in Int, NEW b \in Int
  PROVE  /\ IsFiniteSet({k \in a..b : t[k] = c})
         /\ Tally(t, c, a, b) \in Nat
         /\ b < a => Tally(t, c, a, b) = 0
<1>1. IsFiniteSet(a..b)
  BY FS_Interval
<1>2. {k \in a..b : t[k] = c} \in SUBSET (a..b)
  OBVIOUS
<1>3. IsFiniteSet({k \in a..b : t[k] = c})
  BY <1>1, <1>2, FS_Subset
<1>4. b < a => {k \in a..b : t[k] = c} = {}
  OBVIOUS
<1> QED
  BY <1>3, <1>4, FS_CardinalityType, FS_EmptySet DEF Tally

LEMMA TallySplit ==
  ASSUME NEW t, NEW c, NEW a \in Int, NEW m \in Int, NEW b \in Int, a <= m + 1, m <= b
  PROVE  Tally(t, c, a, b) = Tally(t, c, a, m) + Tally(t, c, m + 1, b)
<1> DEFINE S == {k \in a..m : t[k] = c}
           T == {k \in (m + 1)..b : t[k] = c}
<1>1. IsFiniteSet(S) /\ IsFiniteSet(T)
  <2>1. m + 1 \in Int
    OBVIOUS
  <2>2. IsFiniteSet({k \in a..m : t[k] = c}) /\ IsFiniteSet({k \in (m + 1)..b : t[k] = c})
    BY <2>1, TallyType, ZenonT(30)
  <2> QED
    BY <2>2
<1>2. S \cup T = {k \in a..b : t[k] = c}
  OBVIOUS
<1>3. S \cap T = {}
  OBVIOUS
<1> HIDE DEF S, T
<1>4. Cardinality(S \cup T) = Cardinality(S) + Cardinality(T) - 0
  BY <1>1, <1>3, FS_Union, FS_EmptySet
<1>5. Cardinality(S) \in Nat /\ Cardinality(T) \in Nat
  BY <1>1, FS_CardinalityType
<1> QED
  BY <1>2, <1>4, <1>5 DEF Tally, S, T

\* Characters that are all d.
LEMMA TallyRun ==
  ASSUME NEW t, NEW c, NEW d, NEW a \in Int, NEW b \in Int, a <= b + 1,
         \A k \in a..b : t[k] = d
  PROVE  Tally(t, c, a, b) = IF c = d THEN b - a + 1 ELSE 0
<1>1. CASE c = d
  <2>1. {k \in a..b : t[k] = c} = a..b
    BY <1>1
  <2>2. Cardinality(a..b) = b - a + 1
    BY FS_Interval
  <2> QED
    BY <1>1, <2>1, <2>2 DEF Tally
<1>2. CASE c # d
  <2>1. {k \in a..b : t[k] = c} = {}
    BY <1>2
  <2> QED
    BY <1>2, <2>1, FS_EmptySet DEF Tally
<1> QED
  BY <1>1, <1>2

\* Characters that are none of them c.
LEMMA TallyNone ==
  ASSUME NEW t, NEW c, NEW a \in Int, NEW b \in Int, \A k \in a..b : t[k] # c
  PROVE  Tally(t, c, a, b) = 0
<1>1. {k \in a..b : t[k] = c} = {}
  OBVIOUS
<1> QED
  BY <1>1, FS_EmptySet DEF Tally

LEMMA TallyNext ==
  ASSUME NEW t, NEW c, NEW a \in Int, NEW b \in Int, a <= b + 1
  PROVE  Tally(t, c, a, b + 1) = Tally(t, c, a, b) + (IF t[b + 1] = c THEN 1 ELSE 0)
<1>1. Tally(t, c, a, b + 1) = Tally(t, c, a, b) + Tally(t, c, b + 1, b + 1)
  BY TallySplit
<1>2. \A k \in (b + 1)..(b + 1) : t[k] = t[b + 1]
  OBVIOUS
<1>3. Tally(t, c, b + 1, b + 1) = IF c = t[b + 1] THEN 1 ELSE 0
  <2>1. PICK e : e = b + 1
    OBVIOUS
  <2>2. Tally(t, c, e, e) = IF c = t[b + 1] THEN e - e + 1 ELSE 0
    <3>1. e \in Int /\ e <= e + 1 /\ \A k \in e..e : t[k] = t[b + 1]
      BY <1>2, <2>1
    <3> QED
      BY <3>1, TallyRun
  <2> QED
    BY <2>1, <2>2
<1> QED
  BY <1>1, <1>3, TallyType

\* The characters a+1..b of t are d.
Same(t, d, a, b) == \A k \in (a + 1)..b : t[k] = d

\* A run of d behind b.
LEMMA TallyMore ==
  ASSUME NEW t, NEW c, NEW d, NEW a \in Int, NEW b \in Int, NEW e \in Int,
         a <= b + 1, b <= e, Same(t, d, b, e)
  PROVE  /\ Tally(t, c, a, b) \in Nat
         /\ c = d => Tally(t, c, a, e) = Tally(t, c, a, b) + (e - b)
         /\ c # d => Tally(t, c, a, e) = Tally(t, c, a, b)
<1>1. Tally(t, c, a, e) = Tally(t, c, a, b) + Tally(t, c, b + 1, e)
  BY TallySplit
<1>2. Tally(t, c, b + 1, e) = IF c = d THEN e - b ELSE 0
  <2>1. PICK g : g = b + 1
    OBVIOUS
  <2>2. g \in Int /\ g <= e + 1 /\ \A k \in g..e : t[k] = d
    BY <2>1 DEF Same
  <2>3. Tally(t, c, g, e) = IF c = d THEN e - g + 1 ELSE 0
    BY <2>2, TallyRun
  <2>4. e - g + 1 = e - b
    BY <2>1
  <2> QED
    BY <2>1, <2>3, <2>4
<1>3. Tally(t, c, a, b) \in Nat
  BY TallyType
<1> QED
  BY <1>1, <1>2, <1>3

\* How many of the characters a+1..b of t are c.
Number(t, c, a, b) == Tally(t, c, a + 1, b)

\* The same for these.
LEMMA TallyBehind ==
  ASSUME NEW t, NEW c, NEW d, NEW a \in Nat, NEW b \in Nat, NEW e \in Nat,
         Same(t, d, b, e), a <= b /\ b <= e
  PROVE  /\ Number(t, c, a, b) \in Nat
         /\ c = d => Number(t, c, a, e) = Number(t, c, a, b) + (e - b)
         /\ c # d => Number(t, c, a, e) = Number(t, c, a, b)
<1>1. PICK g : g = a + 1
  OBVIOUS
<1>2. g \in Int /\ g <= b + 1 /\ b \in Int /\ e \in Int /\ b <= e
  BY <1>1
<1>3. /\ Tally(t, c, g, b) \in Nat
      /\ c = d => Tally(t, c, g, e) = Tally(t, c, g, b) + (e - b)
      /\ c # d => Tally(t, c, g, e) = Tally(t, c, g, b)
  BY <1>2, TallyMore
<1> QED
  BY <1>1, <1>3 DEF Number

\* And for nothing but d.
LEMMA TallyAll ==
  ASSUME NEW t, NEW c, NEW d, NEW a \in Nat, NEW e \in Nat, a <= e, Same(t, d, a, e)
  PROVE  /\ c = d => Number(t, c, a, e) = e - a
         /\ c # d => Number(t, c, a, e) = 0
<1>1. PICK g : g = a + 1
  OBVIOUS
<1>2. g \in Int /\ a < g /\ a <= a /\ g <= a + 1 /\ a \in Int /\ e \in Int
  BY <1>1
<1>3. /\ c = d => Tally(t, c, g, e) = Tally(t, c, g, a) + (e - a)
      /\ c # d => Tally(t, c, g, e) = Tally(t, c, g, a)
  BY <1>2, TallyMore
<1>4. Tally(t, c, g, a) = 0
  BY <1>2, TallyType
<1> QED
  BY <1>1, <1>3, <1>4 DEF Number

---------------------------------------------------------------------------
(* What the operations stand for *)

\* Where the characters of operation i of n end: at L, for the last.
Until(P, n, L, i) == IF i < n THEN P[i + 1] ELSE L

Only(t, chars, a, b) == \A k \in (a + 1)..b : t[k] \in chars \cup {"other"}

\* Behind a there are one c and comments, up to b.
OneOf(t, c, a, b) == t[a + 1] = c /\ Only(t, {}, a + 1, b)

\* The characters a+1..b of t are what op stands for, and comments.
Stands(t, op, a, b) ==
  /\ op.kind = "cell"  => Only(t, {"+", "-"}, a, b) /\ op.arg = Number(t, "+", a, b) - Number(t, "-", a, b)
  /\ op.kind = "tape"  => Only(t, {">", "<"}, a, b) /\ op.arg = Number(t, ">", a, b) - Number(t, "<", a, b)
  /\ op.kind = "write" => Only(t, {"."}, a, b) /\ op.arg = Number(t, ".", a, b)
  /\ op.kind = "read"  => Only(t, {","}, a, b) /\ op.arg = Number(t, ",", a, b)
  /\ op.kind = "loop_start" => OneOf(t, "[", a, b)
  /\ op.kind = "loop_end"   => OneOf(t, "]", a, b)

\* The '[' at a is not closed up to b.
StaysOpen(t, a, b) == \A k \in a..b : Tally(t, "]", a, k) < Tally(t, "[", a, k)

\* The ']' at b is that of the '[' at a.
Encloses(t, a, b) ==
  /\ StaysOpen(t, a, b - 1)
  /\ Tally(t, "]", a, b) = Tally(t, "[", a, b)

(***************************************************************************)
(* The first n operations of s stand for the first L characters of t, and  *)
(* comments; those of operation i start behind P[i].  Loops that were      *)
(* patched enclose what their brackets enclose.                            *)
(***************************************************************************)
Covers(t, s, P, n, L) ==
  /\ Only(t, {}, 0, Until(P, n, L, 0))
  /\ \A i \in 1..n :
       /\ P[i] \in Nat
       /\ P[i] < Until(P, n, L, i)
       /\ Stands(t, s[i], P[i], Until(P, n, L, i))
       /\ IsClosed(s, i) => Encloses(t, P[i] + 1, P[i + s[i].arg] + 1)

\* The loops of the stack p, of m addresses, are open behind L characters.
LoopsOpen(t, P, p, m, L) ==
  \A k \in 1..m :
    LET a == P[p[k] + 1] + 1
    IN  /\ Tally(t, "[", a, L) = Tally(t, "]", a, L) + (m - k) + 1
        /\ StaysOpen(t, a, L)

LEMMA OnlyMore ==
  ASSUME NEW t, NEW chars, NEW c, NEW a \in Nat, NEW b \in Nat, NEW e \in Nat,
         Only(t, chars, a, b), Same(t, c, b, e), c \in chars \cup {"other"}
  PROVE  Only(t, chars, a, e)
<1>1. \A k \in (a + 1)..e : k \in (a + 1)..b \/ k \in (b + 1)..e
  OBVIOUS
<1> QED
  BY <1>1 DEF Only, Same

LEMMA OnlySame ==
  ASSUME NEW t, NEW chars, NEW c, NEW a \in Nat, NEW e \in Nat,
         Same(t, c, a, e), c \in chars \cup {"other"}
  PROVE  Only(t, chars, a, e)
BY DEF Only, Same

\* Comments behind an operation belong to it.
LEMMA StandsOther ==
  ASSUME NEW t, NEW op, NEW a \in Nat, NEW b \in Nat, NEW e \in Nat,
         a < b, b <= e, Stands(t, op, a, b), Same(t, "other", b, e)
  PROVE  Stands(t, op, a, e)
<1>1. a <= b /\ a + 1 \in Nat /\ Same(t, "other", b, e) /\ b <= e
  OBVIOUS
<1>2. ASSUME NEW c, c # "other" PROVE Number(t, c, a, e) = Number(t, c, a, b)
  <2>1. PICK d : d = "other"
    OBVIOUS
  <2>2. a \in Nat /\ b \in Nat /\ e \in Nat /\ Same(t, d, b, e) /\ a <= b /\ b <= e
    BY <1>1, <2>1
  <2>3. /\ Number(t, c, a, b) \in Nat
        /\ c = d => Number(t, c, a, e) = Number(t, c, a, b) + (e - b)
        /\ c # d => Number(t, c, a, e) = Number(t, c, a, b)
    BY ONLY <2>2, TallyBehind
  <2> QED
    BY <1>2, <2>1, <2>3
<1>3. ASSUME NEW chars, NEW g \in Nat, Only(t, chars, g, b) PROVE Only(t, chars, g, e)
  <2>1. "other" \in chars \cup {"other"}
    OBVIOUS
  <2> QED
    BY <1>1, <1>3, <2>1, OnlyMore
<1>4. ASSUME NEW c, OneOf(t, c, a, b) PROVE OneOf(t, c, a, e)
  <2>1. PICK g : g = a + 1
    OBVIOUS
  <2>2. g \in Nat /\ t[g] = c /\ Only(t, {}, g, b)
    BY <1>4, <2>1 DEF OneOf
  <2>3. Only(t, {}, g, e)
    BY <1>3, <2>2
  <2> QED
    BY <2>1, <2>2, <2>3 DEF OneOf
<1>5. /\ Number(t, "+", a, e) = Number(t, "+", a, b)
      /\ Number(t, "-", a, e) = Number(t, "-", a, b)
      /\ Number(t, ">", a, e) = Number(t, ">", a, b)
      /\ Number(t, "<", a, e) = Number(t, "<", a, b)
      /\ Number(t, ".", a, e) = Number(t, ".", a, b)
      /\ Number(t, ",", a, e) = Number(t, ",", a, b)
  BY <1>2
<1>6. \A chars : Only(t, chars, a, b) => Only(t, chars, a, e)
  BY <1>3
<1> QED
  BY <1>4, <1>5, <1>6 DEF Stands

LEMMA SkipCovers ==
  ASSUME NEW t, NEW s, NEW P, NEW n \in Nat, NEW L \in Nat, NEW e \in Nat, L <= e,
         Covers(t, s, P, n, L), Same(t, "other", L, e)
  PROVE  Covers(t, s, P, n, e)
<1>1. \A i \in 1..n : i < n \/ i = n
  OBVIOUS
<1>2. Only(t, {}, 0, Until(P, n, e, 0))
  <2>1. CASE n = 0
    <3>1. Only(t, {}, 0, L)
      BY <2>1 DEF Covers, Until
    <3>2. Only(t, {}, 0, e)
      <4>1. "other" \in {} \cup {"other"} /\ 0 \in Nat
        OBVIOUS
      <4> QED
        BY <3>1, <4>1, OnlyMore
    <3> QED
      BY <2>1, <3>2 DEF Until
  <2>2. CASE n # 0
    BY <2>2 DEF Covers, Until
  <2> QED
    BY <2>1, <2>2
<1>3. ASSUME NEW i \in 1..n
      PROVE  P[i] < Until(P, n, e, i) /\ Stands(t, s[i], P[i], Until(P, n, e, i))
  <2>1. P[i] \in Nat /\ P[i] < Until(P, n, L, i) /\ Stands(t, s[i], P[i], Until(P, n, L, i))
    BY DEF Covers
  <2>2. CASE i < n
    BY <2>1, <2>2 DEF Until
  <2>3. CASE i = n
    <3>1. P[i] < L /\ Stands(t, s[i], P[i], L) /\ Until(P, n, e, i) = e
      BY <2>1, <2>3 DEF Until
    <3>2. Stands(t, s[i], P[i], e)
      BY <2>1, <3>1, StandsOther
    <3> QED
      BY <2>1, <3>1, <3>2
  <2> QED
    BY <1>1, <2>2, <2>3
<1> QED
  BY <1>2, <1>3 DEF Covers

(***************************************************************************)
(* One more operation.  Loops may become closed on the way: their starts   *)
(* then enclose what they should.                                          *)
(***************************************************************************)
LEMMA AddCovers ==
  ASSUME NEW t, NEW s, NEW P, NEW n \in Nat, NEW L \in Nat, NEW e \in Nat, NEW r, NEW Q,
         L < e, Covers(t, s, P, n, L), \A i \in 1..n : Q[i] = P[i], Q[n + 1] = L,
         \A i \in 1..n : s[i].kind = r[i].kind /\ (r[i] = s[i] \/ r[i].kind = "loop_start"),
         Stands(t, r[n + 1], L, e),
         \A i \in 1..(n + 1) :
           IsClosed(r, i) => \/ i <= n /\ r[i] = s[i] /\ i + s[i].arg \in 1..n
                             \/ Encloses(t, Q[i] + 1, Q[i + r[i].arg] + 1)
  PROVE  Covers(t, r, Q, n + 1, e)
<1>1. \A i \in 1..(n + 1) : i \in 1..n \/ i = n + 1
  OBVIOUS
<1>2. \A i \in 0..n : Until(Q, n + 1, e, i) = Until(P, n, L, i)
  <2> TAKE i \in 0..n
  <2>1. i < n => i + 1 \in 1..n
    OBVIOUS
  <2>2. ~(i < n) => i = n
    OBVIOUS
  <2> QED
    BY <2>1, <2>2 DEF Until
<1>3. Until(Q, n + 1, e, n + 1) = e
  BY DEF Until
<1>4. Only(t, {}, 0, Until(Q, n + 1, e, 0))
  BY <1>2 DEF Covers
<1>5. ASSUME NEW i \in 1..n
      PROVE  /\ Q[i] \in Nat /\ Q[i] < Until(Q, n + 1, e, i)
             /\ Stands(t, r[i], Q[i], Until(Q, n + 1, e, i))
  <2>1. P[i] \in Nat /\ P[i] < Until(P, n, L, i) /\ Stands(t, s[i], P[i], Until(P, n, L, i))
    BY DEF Covers
  <2>2. i \in 0..n
    OBVIOUS
  <2>3. Stands(t, r[i], P[i], Until(P, n, L, i))
    BY <2>1 DEF Stands
  <2> QED
    BY <1>2, <2>1, <2>2, <2>3
<1>6. ASSUME NEW i \in 1..(n + 1), IsClosed(r, i)
      PROVE  Encloses(t, Q[i] + 1, Q[i + r[i].arg] + 1)
  <2>1. CASE i <= n /\ r[i] = s[i] /\ i + s[i].arg \in 1..n
    <3>1. i \in 1..n /\ IsClosed(s, i)
      BY <1>6, <2>1 DEF IsClosed
    <3>2. Encloses(t, P[i] + 1, P[i + s[i].arg] + 1)
      BY <3>1 DEF Covers
    <3> QED
      BY <2>1, <3>1, <3>2
  <2> QED
    BY <1>6, <2>1
<1> QED
  BY <1>1, <1>3, <1>4, <1>5, <1>6 DEF Covers

\* The last operation takes more characters.
LEMMA GrowCovers ==
  ASSUME NEW t, NEW s, NEW P, NEW n \in Nat \ {0}, NEW L \in Nat, NEW e \in Nat, NEW r,
         L < e, Covers(t, s, P, n, L), \A i \in 1..(n - 1) : r[i] = s[i],
         r[n].kind # "loop_start", Stands(t, r[n], P[n], e)
  PROVE  Covers(t, r, P, n, e)
<1>1. \A i \in 1..n : (i \in 1..(n - 1) /\ i < n) \/ i = n
  OBVIOUS
<1>2. \A i \in 0..(n - 1) : Until(P, n, e, i) = Until(P, n, L, i)
  BY DEF Until
<1>3. Until(P, n, e, n) = e /\ Until(P, n, L, n) = L
  BY DEF Until
<1>4. Only(t, {}, 0, Until(P, n, e, 0))
  BY <1>2 DEF Covers
<1>5. P[n] \in Nat /\ P[n] < e
  BY <1>3 DEF Covers
<1>6. ~IsClosed(r, n)
  BY DEF IsClosed
<1>7. ASSUME NEW i \in 1..(n - 1)
      PROVE  /\ P[i] \in Nat /\ P[i] < Until(P, n, e, i)
             /\ Stands(t, r[i], P[i], Until(P, n, e, i))
             /\ IsClosed(r, i) => Encloses(t, P[i] + 1, P[i + r[i].arg] + 1)
  <2>1. i \in 1..n /\ i \in 0..(n - 1)
    OBVIOUS
  <2> QED
    BY <1>2, <2>1 DEF Covers, IsClosed
<1> QED
  BY <1>1, <1>3, <1>4, <1>5, <1>6, <1>7 DEF Covers

\* A run of n times c is op.
RunOf(c, n, op) ==
  \/ c = "+" /\ op = Op("cell", n)
  \/ c = "-" /\ op = Op("cell", -n)
  \/ c = ">" /\ op = Op("tape", n)
  \/ c = "<" /\ op = Op("tape", -n)
  \/ c = "." /\ op = Op("write", n)
  \/ c = "," /\ op = Op("read", n)

LEMMA RunStands ==
  ASSUME NEW t, NEW L \in Nat, NEW e \in Nat, NEW c, NEW op,
         L < e, Same(t, c, L, e), RunOf(c, e - L, op)
  PROVE  Stands(t, op, L, e)
<1>1. L <= e
  OBVIOUS
<1>2. ASSUME NEW d
      PROVE  (d = c => Number(t, d, L, e) = e - L) /\ (d # c => Number(t, d, L, e) = 0)
  BY <1>1, TallyAll
<1>3. ASSUME NEW chars, c \in chars PROVE Only(t, chars, L, e)
  <2>1. c \in chars \cup {"other"}
    BY <1>3
  <2> QED
    BY <2>1, OnlySame
<1>4. PICK n \in Nat : n = e - L
  BY <1>1
<1>5. RunOf(c, n, op)
  BY <1>4
<1>6. CASE c = "+"
  <2>1. op = Op("cell", n) /\ Only(t, {"+", "-"}, L, e)
    BY <1>3, <1>5, <1>6 DEF RunOf
  <2>2. Number(t, "+", L, e) = n /\ Number(t, "-", L, e) = 0
    BY <1>2, <1>4, <1>6
  <2> QED
    BY <2>1, <2>2 DEF Stands, Op
<1>7. CASE c = "-"
  <2>1. op = Op("cell", -n) /\ Only(t, {"+", "-"}, L, e)
    BY <1>3, <1>5, <1>7 DEF RunOf
  <2>2. Number(t, "-", L, e) = n /\ Number(t, "+", L, e) = 0
    BY <1>2, <1>4, <1>7
  <2> QED
    BY <2>1, <2>2 DEF Stands, Op
<1>8. CASE c = ">"
  <2>1. op = Op("tape", n) /\ Only(t, {">", "<"}, L, e)
    BY <1>3, <1>5, <1>8 DEF RunOf
  <2>2. Number(t, ">", L, e) = n /\ Number(t, "<", L, e) = 0
    BY <1>2, <1>4, <1>8
  <2> QED
    BY <2>1, <2>2 DEF Stands, Op
<1>9. CASE c = "<"
  <2>1. op = Op("tape", -n) /\ Only(t, {">", "<"}, L, e)
    BY <1>3, <1>5, <1>9 DEF RunOf
  <2>2. Number(t, "<", L, e) = n /\ Number(t, ">", L, e) = 0
    BY <1>2, <1>4, <1>9
  <2> QED
    BY <2>1, <2>2 DEF Stands, Op
<1>10. CASE c = "."
  <2>1. op = Op("write", n) /\ Only(t, {"."}, L, e)
    BY <1>3, <1>5, <1>10 DEF RunOf
  <2>2. Number(t, ".", L, e) = n
    BY <1>2, <1>4, <1>10
  <2> QED
    BY <2>1, <2>2 DEF Stands, Op
<1>11. CASE c = ","
  <2>1. op = Op("read", n) /\ Only(t, {","}, L, e)
    BY <1>3, <1>5, <1>11 DEF RunOf
  <2>2. Number(t, ",", L, e) = n
    BY <1>2, <1>4, <1>11
  <2> QED
    BY <2>1, <2>2 DEF Stands, Op
<1> QED
  BY <1>5, <1>6, <1>7, <1>8, <1>9, <1>10, <1>11 DEF RunOf

\* A run of n times c, merged with op, is r.
MergedRun(c, n, op, r) ==
  \/ c = "+" /\ op.kind = "cell" /\ r.arg = op.arg + n
  \/ c = "-" /\ op.kind = "cell" /\ r.arg = op.arg - n
  \/ c = ">" /\ op.kind = "tape" /\ r.arg = op.arg + n
  \/ c = "<" /\ op.kind = "tape" /\ r.arg = op.arg - n

LEMMA MoreStands ==
  ASSUME NEW t, NEW a \in Nat, NEW L \in Nat, NEW e \in Nat, NEW op, NEW c, NEW r,
         a < L, L < e, op.arg \in Int, Stands(t, op, a, L), Same(t, c, L, e),
         r.kind = op.kind, MergedRun(c, e - L, op, r)
  PROVE  Stands(t, r, a, e)
<1>1. a <= L /\ L <= e
  OBVIOUS
<1>2. ASSUME NEW d
      PROVE  /\ Number(t, d, a, L) \in Nat
             /\ d = c => Number(t, d, a, e) = Number(t, d, a, L) + (e - L)
             /\ d # c => Number(t, d, a, e) = Number(t, d, a, L)
  <2>1. a \in Nat /\ L \in Nat /\ e \in Nat /\ Same(t, c, L, e) /\ a <= L /\ L <= e
    BY <1>1
  <2> QED
    BY ONLY <2>1, TallyBehind
<1>3. ASSUME NEW chars, c \in chars, Only(t, chars, a, L) PROVE Only(t, chars, a, e)
  <2>1. c \in chars \cup {"other"}
    BY <1>3
  <2> QED
    BY <1>3, <2>1, OnlyMore
<1>4. PICK n \in Nat : n = e - L
  BY <1>1
<1>5. MergedRun(c, n, op, r)
  BY <1>4
<1>6. CASE op.kind = "cell" /\ c \in {"+", "-"}
  <2>1. PICK p, m : p = Number(t, "+", a, L) /\ m = Number(t, "-", a, L)
    OBVIOUS
  <2>2. /\ p \in Nat /\ m \in Nat
        /\ Number(t, "+", a, e) = IF c = "+" THEN p + n ELSE p
        /\ Number(t, "-", a, e) = IF c = "-" THEN m + n ELSE m
    BY <1>2, <1>4, <2>1
  <2>3. Only(t, {"+", "-"}, a, L) /\ op.arg = p - m
    BY <1>6, <2>1 DEF Stands
  <2>4. Only(t, {"+", "-"}, a, e)
    BY <1>3, <1>6, <2>3
  <2>5. r.arg = (IF c = "+" THEN p + n ELSE p) - (IF c = "-" THEN m + n ELSE m)
    <3>1. r.arg = IF c = "+" THEN op.arg + n ELSE op.arg - n
      BY <1>5, <1>6 DEF MergedRun
    <3> QED
      BY <1>6, <2>2, <2>3, <3>1
  <2>6. r.arg = Number(t, "+", a, e) - Number(t, "-", a, e)
    BY <2>2, <2>5
  <2> QED
    BY <1>6, <2>4, <2>6 DEF Stands
<1>7. CASE op.kind = "tape" /\ c \in {">", "<"}
  <2>1. PICK p, m : p = Number(t, ">", a, L) /\ m = Number(t, "<", a, L)
    OBVIOUS
  <2>2. /\ p \in Nat /\ m \in Nat
        /\ Number(t, ">", a, e) = IF c = ">" THEN p + n ELSE p
        /\ Number(t, "<", a, e) = IF c = "<" THEN m + n ELSE m
    BY <1>2, <1>4, <2>1
  <2>3. Only(t, {">", "<"}, a, L) /\ op.arg = p - m
    BY <1>7, <2>1 DEF Stands
  <2>4. Only(t, {">", "<"}, a, e)
    BY <1>3, <1>7, <2>3
  <2>5. r.arg = (IF c = ">" THEN p + n ELSE p) - (IF c = "<" THEN m + n ELSE m)
    <3>1. r.arg = IF c = ">" THEN op.arg + n ELSE op.arg - n
      BY <1>5, <1>7 DEF MergedRun
    <3> QED
      BY <1>7, <2>2, <2>3, <3>1
  <2>6. r.arg = Number(t, ">", a, e) - Number(t, "<", a, e)
    BY <2>2, <2>5
  <2> QED
    BY <1>7, <2>4, <2>6 DEF Stands
<1> QED
  BY <1>5, <1>6, <1>7 DEF MergedRun

---------------------------------------------------------------------------
\* Nothing but a bracket opens or closes a loop.
LEMMA SkipOpen ==
  ASSUME NEW t, NEW P, NEW p, NEW m \in Nat, NEW L \in Nat, NEW e \in Nat, NEW Q,
         L <= e, LoopsOpen(t, P, p, m, L),
         \A k \in 1..m : P[p[k] + 1] \in Nat /\ P[p[k] + 1] <= L,
         \A k \in 1..m : Q[p[k] + 1] = P[p[k] + 1],
         \A k \in (L + 1)..e : t[k] # "[" /\ t[k] # "]"
  PROVE  LoopsOpen(t, Q, p, m, e)
<1> SUFFICES ASSUME NEW k \in 1..m, NEW a, a = P[p[k] + 1] + 1
             PROVE  /\ Tally(t, "[", a, e) = Tally(t, "]", a, e) + (m - k) + 1
                    /\ StaysOpen(t, a, e)
  BY DEF LoopsOpen
<1>1. a \in Int /\ a <= L + 1 /\ L \in Int
  OBVIOUS
<1>2. Tally(t, "[", a, L) = Tally(t, "]", a, L) + (m - k) + 1 /\ StaysOpen(t, a, L)
  BY DEF LoopsOpen
<1>3. ASSUME NEW b \in L..e, NEW c \in {"[", "]"} PROVE Tally(t, c, a, b) = Tally(t, c, a, L)
  <2>1. Tally(t, c, a, b) = Tally(t, c, a, L) + Tally(t, c, L + 1, b)
    BY <1>1, TallySplit
  <2>2. Tally(t, c, L + 1, b) = 0
    <3>1. \A i \in (L + 1)..b : t[i] # c
      OBVIOUS
    <3> QED
      BY <1>1, <3>1, TallyNone
  <2>3. Tally(t, c, a, L) \in Nat
    BY <1>1, TallyType
  <2> QED
    BY <2>1, <2>2, <2>3
<1>4. e \in L..e
  OBVIOUS
<1>5. Tally(t, "[", a, e) = Tally(t, "]", a, e) + (m - k) + 1
  BY <1>2, <1>3, <1>4
<1>6. ASSUME NEW b \in a..e PROVE Tally(t, "]", a, b) < Tally(t, "[", a, b)
  <2>1. CASE b <= L
    <3>1. b \in a..L
      BY <2>1
    <3> QED
      BY <1>2, <3>1 DEF StaysOpen
  <2>2. CASE ~(b <= L)
    <3>1. b \in L..e
      BY <2>2
    <3>2. Tally(t, "]", a, L) < Tally(t, "[", a, L)
      <4>1. Tally(t, "]", a, L) \in Nat
        BY <1>1, TallyType
      <4> QED
        BY <1>2, <4>1
    <3> QED
      BY <1>3, <3>1, <3>2
  <2> QED
    BY <2>1, <2>2
<1> QED
  BY <1>5, <1>6 DEF StaysOpen

\* A '[' opens one loop more.
LEMMA OpenOpen ==
  ASSUME NEW t, NEW P, NEW p, NEW m \in Nat, NEW L \in Nat, NEW q, NEW Q,
         t[L + 1] = "[", LoopsOpen(t, P, p, m, L),
         \A k \in 1..m : P[p[k] + 1] \in Nat /\ P[p[k] + 1] <= L,
         \A k \in 1..m : Q[q[k] + 1] = P[p[k] + 1], Q[q[m + 1] + 1] = L
  PROVE  LoopsOpen(t, Q, q, m + 1, L + 1)
<1>1. ASSUME NEW a \in Int, a <= L + 1
      PROVE  /\ Tally(t, "[", a, L + 1) = Tally(t, "[", a, L) + 1
             /\ Tally(t, "]", a, L + 1) = Tally(t, "]", a, L)
             /\ Tally(t, "[", a, L) \in Nat /\ Tally(t, "]", a, L) \in Nat
  <2>1. L \in Int
    OBVIOUS
  <2>2. /\ Tally(t, "[", a, L + 1) = Tally(t, "[", a, L) + (IF t[L + 1] = "[" THEN 1 ELSE 0)
        /\ Tally(t, "]", a, L + 1) = Tally(t, "]", a, L) + (IF t[L + 1] = "]" THEN 1 ELSE 0)
    BY <1>1, <2>1, TallyNext
  <2>3. Tally(t, "[", a, L) \in Nat /\ Tally(t, "]", a, L) \in Nat
    BY <1>1, <2>1, TallyType
  <2> QED
    BY <2>2, <2>3
<1> SUFFICES ASSUME NEW k \in 1..(m + 1), NEW a, a = Q[q[k] + 1] + 1
             PROVE  /\ Tally(t, "[", a, L + 1) = Tally(t, "]", a, L + 1) + ((m + 1) - k) + 1
                    /\ StaysOpen(t, a, L + 1)
  BY DEF LoopsOpen
<1>2. CASE k \in 1..m
  <2>1. a = P[p[k] + 1] + 1 /\ a \in Int /\ a <= L + 1
    BY <1>2
  <2>2. Tally(t, "[", a, L) = Tally(t, "]", a, L) + (m - k) + 1 /\ StaysOpen(t, a, L)
    BY <1>2, <2>1 DEF LoopsOpen
  <2>3. Tally(t, "[", a, L + 1) = Tally(t, "]", a, L + 1) + ((m + 1) - k) + 1
    BY <1>1, <2>1, <2>2
  <2>4. ASSUME NEW b \in a..(L + 1) PROVE Tally(t, "]", a, b) < Tally(t, "[", a, b)
    <3>1. b \in a..L \/ b = L + 1
      BY <2>1
    <3>2. b = L + 1 => Tally(t, "]", a, b) < Tally(t, "[", a, b)
      BY <1>1, <2>1, <2>3
    <3> QED
      BY <2>2, <3>1, <3>2 DEF StaysOpen
  <2> QED
    BY <2>3, <2>4 DEF StaysOpen
<1>3. CASE k = m + 1
  <2>1. a = L + 1 /\ a \in Int /\ a <= L + 1 /\ L < a /\ L \in Int
    BY <1>3
  <2>2. Tally(t, "[", a, L) = 0 /\ Tally(t, "]", a, L) = 0
    BY <2>1, TallyType
  <2>3. Tally(t, "[", a, L + 1) = 1 /\ Tally(t, "]", a, L + 1) = 0
    BY <1>1, <2>1, <2>2
  <2>4. \A b \in a..(L + 1) : b = L + 1
    BY <2>1
  <2> QED
    BY <1>3, <2>3, <2>4 DEF StaysOpen
<1> QED
  BY <1>2, <1>3

\* A ']' closes the innermost loop.
LEMMA CloseOpen ==
  ASSUME NEW t, NEW P, NEW p, NEW m \in Nat \ {0}, NEW L \in Nat, NEW q, NEW Q,
         t[L + 1] = "]", LoopsOpen(t, P, p, m, L),
         \A k \in 1..m : P[p[k] + 1] \in Nat /\ P[p[k] + 1] <= L,
         \A k \in 1..(m - 1) : Q[q[k] + 1] = P[p[k] + 1]
  PROVE  /\ LoopsOpen(t, Q, q, m - 1, L + 1)
         /\ Encloses(t, P[p[m] + 1] + 1, L + 1)
<1>1. ASSUME NEW a \in Int, a <= L + 1
      PROVE  /\ Tally(t, "[", a, L + 1) = Tally(t, "[", a, L)
             /\ Tally(t, "]", a, L + 1) = Tally(t, "]", a, L) + 1
             /\ Tally(t, "[", a, L) \in Nat /\ Tally(t, "]", a, L) \in Nat
  <2>1. L \in Int
    OBVIOUS
  <2>2. /\ Tally(t, "[", a, L + 1) = Tally(t, "[", a, L) + (IF t[L + 1] = "[" THEN 1 ELSE 0)
        /\ Tally(t, "]", a, L + 1) = Tally(t, "]", a, L) + (IF t[L + 1] = "]" THEN 1 ELSE 0)
    BY <1>1, <2>1, TallyNext
  <2>3. Tally(t, "[", a, L) \in Nat /\ Tally(t, "]", a, L) \in Nat
    BY <1>1, <2>1, TallyType
  <2> QED
    BY <2>2, <2>3
<1>2. ASSUME NEW k \in 1..m, NEW a, a = P[p[k] + 1] + 1
      PROVE  /\ a \in Int /\ a <= L + 1
             /\ Tally(t, "[", a, L) = Tally(t, "]", a, L) + (m - k) + 1
             /\ StaysOpen(t, a, L)
  BY <1>2 DEF LoopsOpen
<1>3. ASSUME NEW k \in 1..(m - 1), NEW a, a = Q[q[k] + 1] + 1
      PROVE  /\ Tally(t, "[", a, L + 1) = Tally(t, "]", a, L + 1) + ((m - 1) - k) + 1
             /\ StaysOpen(t, a, L + 1)
  <2>1. k \in 1..m /\ a = P[p[k] + 1] + 1
    BY <1>3
  <2>2. /\ a \in Int /\ a <= L + 1
        /\ Tally(t, "[", a, L) = Tally(t, "]", a, L) + (m - k) + 1
        /\ StaysOpen(t, a, L)
    BY <1>2, <2>1
  <2>3. Tally(t, "[", a, L + 1) = Tally(t, "]", a, L + 1) + ((m - 1) - k) + 1
    BY <1>1, <2>2
  <2>4. ASSUME NEW b \in a..(L + 1) PROVE Tally(t, "]", a, b) < Tally(t, "[", a, b)
    <3>1. b \in a..L \/ b = L + 1
      BY <2>2
    <3>2. Tally(t, "]", a, L + 1) \in Nat
      BY <1>1, <2>2
    <3>3. b = L + 1 => Tally(t, "]", a, b) < Tally(t, "[", a, b)
      BY <2>3, <3>2
    <3> QED
      BY <2>2, <3>1, <3>3 DEF StaysOpen
  <2> QED
    BY <2>3, <2>4 DEF StaysOpen
<1>4. Encloses(t, P[p[m] + 1] + 1, L + 1)
  <2>1. PICK a : a = P[p[m] + 1] + 1
    OBVIOUS
  <2>2. /\ a \in Int /\ a <= L + 1
        /\ Tally(t, "[", a, L) = Tally(t, "]", a, L) + (m - m) + 1
        /\ StaysOpen(t, a, L)
    <3>1. m \in 1..m
      OBVIOUS
    <3> QED
      BY <1>2, <2>1, <3>1
  <2>3. Tally(t, "]", a, L + 1) = Tally(t, "[", a, L + 1)
    BY <1>1, <2>2
  <2>4. (L + 1) - 1 = L
    OBVIOUS
  <2> QED
    BY <2>1, <2>2, <2>3, <2>4 DEF Encloses
<1> QED
  BY <1>3, <1>4 DEF LoopsOpen

\* Every operation starts before the end of what was read.
Behind(P, n, L) == \A i \in 1..n : P[i] \in Nat /\ P[i] < L

\* n operations, with m of them on the stack p, stand for L characters.
TextRead(t, s, P, p, m, n, L) ==
  /\ Covers(t, s, P, n, L)
  /\ Behind(P, n, L)
  /\ LoopsOpen(t, P, p, m, L)

\* The stack holds addresses of the n operations.
Inside(p, m, n) == \A k \in 1..m : p[k] \in Nat /\ p[k] < n

\* The ends of patched loops are among the n operations.
Partners(s, n) == \A i \in 1..n : IsClosed(s, i) => i + s[i].arg \in 1..n

\* The first n elements of r are those of s.
Agree(r, s, n) == \A i \in 1..n : r[i] = s[i]

LEMMA StackBehind ==
  ASSUME NEW P, NEW Q, NEW p, NEW m \in Nat, NEW n \in Nat, NEW L \in Nat,
         Behind(P, n, L), Inside(p, m, n), Agree(Q, P, n)
  PROVE  /\ \A k \in 1..m : P[p[k] + 1] \in Nat /\ P[p[k] + 1] <= L
         /\ \A k \in 1..m : Q[p[k] + 1] = P[p[k] + 1]
<1> SUFFICES ASSUME NEW k \in 1..m
             PROVE  P[p[k] + 1] \in Nat /\ P[p[k] + 1] <= L /\ Q[p[k] + 1] = P[p[k] + 1]
  OBVIOUS
<1>1. p[k] + 1 \in 1..n
  BY DEF Inside
<1> QED
  BY <1>1 DEF Behind, Agree

LEMMA BehindMore ==
  ASSUME NEW P, NEW n \in Nat, NEW L \in Nat, NEW e \in Nat, L <= e, Behind(P, n, L)
  PROVE  Behind(P, n, e)
BY DEF Behind

LEMMA BehindNext ==
  ASSUME NEW P, NEW Q, NEW n \in Nat, NEW L \in Nat, NEW e \in Nat,
         L < e, Behind(P, n, L), Agree(Q, P, n), Q[n + 1] = L
  PROVE  Behind(Q, n + 1, e)
<1>1. \A i \in 1..(n + 1) : i \in 1..n \/ i = n + 1
  OBVIOUS
<1> QED
  BY <1>1 DEF Behind, Agree

\* Characters that are no brackets leave the stack alone.
LEMMA QuietOpen ==
  ASSUME NEW t, NEW P, NEW Q, NEW p, NEW m \in Nat, NEW n \in Nat, NEW L \in Nat, NEW e \in Nat,
         NEW c, L <= e, LoopsOpen(t, P, p, m, L), Behind(P, n, L), Inside(p, m, n),
         Agree(Q, P, n), Same(t, c, L, e), c \notin {"[", "]"}
  PROVE  LoopsOpen(t, Q, p, m, e)
<1>1. /\ \A k \in 1..m : P[p[k] + 1] \in Nat /\ P[p[k] + 1] <= L
      /\ \A k \in 1..m : Q[p[k] + 1] = P[p[k] + 1]
  BY StackBehind, SMTT(30)
<1>2. \A k \in (L + 1)..e : t[k] # "[" /\ t[k] # "]"
  BY DEF Same
<1> QED
  BY <1>1, <1>2, SkipOpen

\* Comments.
LEMMA OtherText ==
  ASSUME NEW t, NEW s, NEW P, NEW p, NEW m \in Nat, NEW n \in Nat, NEW L \in Nat, NEW e \in Nat,
         L <= e, TextRead(t, s, P, p, m, n, L), Inside(p, m, n), Same(t, "other", L, e)
  PROVE  TextRead(t, s, P, p, m, n, e)
<1>1. Covers(t, s, P, n, L) /\ Behind(P, n, L) /\ LoopsOpen(t, P, p, m, L)
  BY DEF TextRead
<1>2. Covers(t, s, P, n, e)
  BY <1>1, SkipCovers
<1>3. Behind(P, n, e)
  BY <1>1, BehindMore
<1>4. LoopsOpen(t, P, p, m, e)
  <2>1. Agree(P, P, n) /\ "other" \notin {"[", "]"}
    BY DEF Agree
  <2> QED
    BY <1>1, <2>1, QuietOpen
<1> QED
  BY <1>2, <1>3, <1>4 DEF TextRead

\* A run that is pushed.
LEMMA PushText ==
  ASSUME NEW t, NEW s, NEW r, NEW P, NEW Q, NEW p, NEW m \in Nat, NEW n \in Nat,
         NEW L \in Nat, NEW e \in Nat, NEW c,
         L < e, TextRead(t, s, P, p, m, n, L), Inside(p, m, n), Partners(s, n),
         Agree(r, s, n), r[n + 1].kind # "loop_start", Agree(Q, P, n), Q[n + 1] = L,
         Stands(t, r[n + 1], L, e), Same(t, c, L, e), c \notin {"[", "]"}
  PROVE  TextRead(t, r, Q, p, m, n + 1, e)
<1>1. Covers(t, s, P, n, L) /\ Behind(P, n, L) /\ LoopsOpen(t, P, p, m, L)
  BY DEF TextRead
<1>2. Covers(t, r, Q, n + 1, e)
  <2>1. \A i \in 1..n : Q[i] = P[i]
    BY DEF Agree
  <2>2. \A i \in 1..n : s[i].kind = r[i].kind /\ (r[i] = s[i] \/ r[i].kind = "loop_start")
    BY DEF Agree
  <2>3. ASSUME NEW i \in 1..(n + 1), IsClosed(r, i)
        PROVE  i <= n /\ r[i] = s[i] /\ i + s[i].arg \in 1..n
    <3>1. i \in 1..n
      <4>1. i \in 1..n \/ i = n + 1
        OBVIOUS
      <4> QED
        BY <2>3, <4>1 DEF IsClosed
    <3>2. r[i] = s[i]
      BY <3>1 DEF Agree
    <3>3. IsClosed(s, i)
      BY <2>3, <3>2 DEF IsClosed
    <3> QED
      BY <3>1, <3>2, <3>3 DEF Partners
  <2> QED
    BY <1>1, <2>1, <2>2, <2>3, AddCovers
<1>3. Behind(Q, n + 1, e)
  BY <1>1, BehindNext
<1>4. LoopsOpen(t, Q, p, m, e)
  <2>1. L <= e
    OBVIOUS
  <2> QED
    BY <1>1, <2>1, QuietOpen
<1> QED
  BY <1>2, <1>3, <1>4 DEF TextRead

\* A run that is merged.
LEMMA MergeText ==
  ASSUME NEW t, NEW s, NEW r, NEW P, NEW p, NEW m \in Nat, NEW n \in Nat \ {0},
         NEW L \in Nat, NEW e \in Nat, NEW c,
         L < e, TextRead(t, s, P, p, m, n, L), Inside(p, m, n),
         Agree(r, s, n - 1), r[n].kind = s[n].kind, s[n].arg \in Int,
         MergedRun(c, e - L, s[n], r[n]), Same(t, c, L, e)
  PROVE  TextRead(t, r, P, p, m, n, e)
<1>1. Covers(t, s, P, n, L) /\ Behind(P, n, L) /\ LoopsOpen(t, P, p, m, L)
  BY DEF TextRead
<1>2. s[n].kind \in {"cell", "tape"} /\ c \notin {"[", "]"}
  BY DEF MergedRun
<1>3. P[n] \in Nat /\ P[n] < L /\ Stands(t, s[n], P[n], L)
  <2>1. n \in 1..n /\ Until(P, n, L, n) = L
    BY DEF Until
  <2> QED
    BY <1>1, <2>1 DEF Covers
<1>4. Stands(t, r[n], P[n], e)
  <2>1. PICK a, x, y : a = P[n] /\ x = s[n] /\ y = r[n]
    OBVIOUS
  <2>2. a \in Nat /\ a < L /\ x.arg \in Int /\ Stands(t, x, a, L) /\ y.kind = x.kind
        /\ MergedRun(c, e - L, x, y)
    BY <1>3, <2>1
  <2>3. Stands(t, y, a, e)
    BY <2>2, MoreStands
  <2> QED
    BY <2>1, <2>3
<1>5. Covers(t, r, P, n, e)
  <2>1. \A i \in 1..(n - 1) : r[i] = s[i]
    BY DEF Agree
  <2>2. r[n].kind # "loop_start"
    BY <1>2
  <2> QED
    BY <1>1, <1>4, <2>1, <2>2, GrowCovers
<1>6. Behind(P, n, e)
  <2>1. L <= e
    OBVIOUS
  <2> QED
    BY <1>1, <2>1, BehindMore
<1>7. LoopsOpen(t, P, p, m, e)
  <2>1. Agree(P, P, n) /\ L <= e
    BY DEF Agree
  <2> QED
    BY <1>1, <1>2, <2>1, QuietOpen
<1> QED
  BY <1>5, <1>6, <1>7 DEF TextRead

\* One bracket is an operation.
LEMMA BracketStands ==
  ASSUME NEW t, NEW L \in Nat, NEW c, NEW op, t[L + 1] = c,
         \/ c = "[" /\ op.kind = "loop_start"
         \/ c = "]" /\ op.kind = "loop_end"
  PROVE  Stands(t, op, L, L + 1)
<1>1. Only(t, {}, L + 1, L + 1)
  BY DEF Only
<1> QED
  BY <1>1 DEF Stands, OneOf

\* '['
LEMMA StartText ==
  ASSUME NEW t, NEW s, NEW r, NEW P, NEW Q, NEW p, NEW q, NEW m \in Nat, NEW n \in Nat,
         NEW L \in Nat,
         TextRead(t, s, P, p, m, n, L), Inside(p, m, n), Partners(s, n), Agree(r, s, n),
         r[n + 1] = Op("loop_start", 0), Agree(Q, P, n), Q[n + 1] = L, t[L + 1] = "[",
         Agree(q, p, m), q[m + 1] = n
  PROVE  TextRead(t, r, Q, q, m + 1, n + 1, L + 1)
<1>1. Covers(t, s, P, n, L) /\ Behind(P, n, L) /\ LoopsOpen(t, P, p, m, L)
  BY DEF TextRead
<1>2. r[n + 1].kind = "loop_start" /\ r[n + 1].arg = 0
  BY DEF Op
<1>3. PICK e \in Nat : e = L + 1 /\ L < e
  OBVIOUS
<1>4. Stands(t, r[n + 1], L, e)
  BY <1>2, <1>3, BracketStands
<1>5. Covers(t, r, Q, n + 1, e)
  <2>1. \A i \in 1..n : Q[i] = P[i]
    BY DEF Agree
  <2>2. \A i \in 1..n : s[i].kind = r[i].kind /\ (r[i] = s[i] \/ r[i].kind = "loop_start")
    BY DEF Agree
  <2>3. ASSUME NEW i \in 1..(n + 1), IsClosed(r, i)
        PROVE  i <= n /\ r[i] = s[i] /\ i + s[i].arg \in 1..n
    <3>1. i \in 1..n
      <4>1. i \in 1..n \/ i = n + 1
        OBVIOUS
      <4> QED
        BY <1>2, <2>3, <4>1 DEF IsClosed
    <3>2. r[i] = s[i]
      BY <3>1 DEF Agree
    <3>3. IsClosed(s, i)
      BY <2>3, <3>2 DEF IsClosed
    <3> QED
      BY <3>1, <3>2, <3>3 DEF Partners
  <2> QED
    BY <1>1, <1>3, <1>4, <2>1, <2>2, <2>3, AddCovers
<1>6. Behind(Q, n + 1, e)
  BY <1>1, <1>3, BehindNext
<1>7. LoopsOpen(t, Q, q, m + 1, L + 1)
  <2>1. /\ \A k \in 1..m : P[p[k] + 1] \in Nat /\ P[p[k] + 1] <= L
        /\ \A k \in 1..m : Q[p[k] + 1] = P[p[k] + 1]
    BY <1>1, StackBehind, SMTT(30)
  <2>2. \A k \in 1..m : Q[q[k] + 1] = P[p[k] + 1]
    BY <2>1 DEF Agree
  <2>3. Q[q[m + 1] + 1] = L
    OBVIOUS
  <2> QED
    BY <1>1, <2>1, <2>2, <2>3, OpenOpen
<1> QED
  BY <1>3, <1>5, <1>6, <1>7 DEF TextRead

\* ']' with an open loop.
LEMMA EndText ==
  ASSUME NEW t, NEW s, NEW r, NEW P, NEW Q, NEW p, NEW q, NEW m \in Nat \ {0}, NEW n \in Nat,
         NEW L \in Nat,
         TextRead(t, s, P, p, m, n, L), Inside(p, m, n), Partners(s, n),
         \A i \in 1..n : i # p[m] + 1 => r[i] = s[i],
         s[p[m] + 1].kind = "loop_start", r[p[m] + 1] = Op("loop_start", n - p[m]),
         r[n + 1].kind = "loop_end", Agree(Q, P, n), Q[n + 1] = L, t[L + 1] = "]",
         Agree(q, p, m - 1)
  PROVE  TextRead(t, r, Q, q, m - 1, n + 1, L + 1)
<1>1. Covers(t, s, P, n, L) /\ Behind(P, n, L) /\ LoopsOpen(t, P, p, m, L)
  BY DEF TextRead
<1>2. PICK e \in Nat : e = L + 1 /\ L < e
  OBVIOUS
<1>3. PICK h : h = p[m] + 1
  OBVIOUS
<1>4. /\ h \in 1..n /\ p[m] \in Nat /\ \A i \in 1..n : i # h => r[i] = s[i]
      /\ s[h].kind = "loop_start" /\ r[h].kind = "loop_start" /\ r[h].arg = n - p[m]
      /\ h + r[h].arg = n + 1
  <2>1. m \in 1..m
    OBVIOUS
  <2>2. p[m] \in Nat /\ p[m] < n
    BY <2>1 DEF Inside
  <2>3. r[h].kind = "loop_start" /\ r[h].arg = n - p[m]
    BY <1>3 DEF Op
  <2> QED
    BY <1>3, <2>2, <2>3
<1>5. Stands(t, r[n + 1], L, e)
  BY <1>2, BracketStands
<1>6. /\ \A k \in 1..m : P[p[k] + 1] \in Nat /\ P[p[k] + 1] <= L
      /\ \A k \in 1..m : Q[p[k] + 1] = P[p[k] + 1]
  <2>1. /\ m \in Nat /\ n \in Nat /\ L \in Nat
        /\ Behind(P, n, L) /\ Inside(p, m, n) /\ Agree(Q, P, n)
    BY <1>1
  <2> QED
    BY ONLY <2>1, StackBehind
<1>7. /\ LoopsOpen(t, Q, q, m - 1, L + 1)
      /\ Encloses(t, P[p[m] + 1] + 1, L + 1)
  <2>1. \A k \in 1..(m - 1) : Q[q[k] + 1] = P[p[k] + 1]
    <3> TAKE k \in 1..(m - 1)
    <3>1. k \in 1..m /\ q[k] = p[k]
      BY DEF Agree
    <3> QED
      BY <1>6, <3>1
  <2> QED
    BY <1>1, <1>6, <2>1, CloseOpen
<1>8. Encloses(t, Q[h] + 1, Q[h + r[h].arg] + 1)
  <2>1. Q[h] = P[p[m] + 1] /\ Q[h + r[h].arg] = L
    <3>1. Q[h] = P[h]
      BY <1>4 DEF Agree
    <3> QED
      BY <1>3, <1>4, <3>1
  <2> QED
    BY <1>7, <2>1
<1>9. Covers(t, r, Q, n + 1, e)
  <2>1. \A i \in 1..n : Q[i] = P[i]
    BY DEF Agree
  <2>2. \A i \in 1..n : s[i].kind = r[i].kind /\ (r[i] = s[i] \/ r[i].kind = "loop_start")
    <3> TAKE i \in 1..n
    <3>1. i = h \/ i # h
      OBVIOUS
    <3> QED
      BY <1>4, <3>1
  <2>3. ASSUME NEW i \in 1..(n + 1), IsClosed(r, i)
        PROVE  \/ i <= n /\ r[i] = s[i] /\ i + s[i].arg \in 1..n
               \/ Encloses(t, Q[i] + 1, Q[i + r[i].arg] + 1)
    <3>1. CASE i = h
      BY <1>8, <3>1
    <3>2. CASE i # h
      <4>1. i \in 1..n
        <5>1. i \in 1..n \/ i = n + 1
          OBVIOUS
        <5>2. r[n + 1].kind # "loop_start"
          OBVIOUS
        <5> QED
          BY <2>3, <5>1, <5>2 DEF IsClosed
      <4>2. r[i] = s[i]
        BY <1>4, <3>2, <4>1
      <4>3. IsClosed(s, i)
        BY <2>3, <4>2 DEF IsClosed
      <4> QED
        BY <4>1, <4>2, <4>3 DEF Partners
    <3> QED
      BY <3>1, <3>2
  <2> QED
    BY <1>1, <1>2, <1>5, <2>1, <2>2, <2>3, AddCovers
<1>10. Behind(Q, n + 1, e)
  BY <1>1, <1>2, BehindNext
<1> QED
  BY <1>2, <1>7, <1>9, <1>10 DEF TextRead

---------------------------------------------------------------------------
(* The text behind the parser *)

\* How many characters of the text the first n of f are.
Rank(f, n) == Cardinality(Kept(f, n))

\* t holds the live characters of f.
Reads(t, f) ==
  /\ Len(t) = Rank(f, Len(f))
  /\ \A i \in Kept(f, Len(f)) : t[Rank(f, i)] = f[i]

\* The n characters behind a are c, and live.
LiveRun(f, c, a, n) == \A k \in 1..n : Live(f, a + k) /\ f[a + k] = c

LEMMA RankType ==
  ASSUME NEW f, NEW n \in Nat
  PROVE  Rank(f, n) \in Nat
BY KeptFinite DEF Rank

LEMMA RankRun ==
  ASSUME NEW f \in Seq(Char), NEW t, NEW a \in Nat, NEW n \in Nat, NEW c,
         Reads(t, f), a + n <= Len(f), LiveRun(f, c, a, n)
  PROVE  /\ Rank(f, a + n) = Rank(f, a) + n
         /\ Same(t, c, Rank(f, a), Rank(f, a) + n)
<1> DEFINE T == {k \in 0..n : Rank(f, a + k) # Rank(f, a) + k}
<1>1. T \subseteq Nat
  OBVIOUS
<1>2. T = {}
  <2> SUFFICES ASSUME T # {} PROVE FALSE
    OBVIOUS
  <2>1. PICK k \in T : \A j \in T : k <= j
    <3> HIDE DEF T
    <3> QED
      BY <1>1, LeastNat
  <2>2. k \in 0..n /\ Rank(f, a + k) # Rank(f, a) + k
    BY <2>1
  <2>3. k # 0
    <3>1. a + 0 = a /\ Rank(f, a) \in Nat
      BY RankType
    <3> QED
      BY <2>2, <3>1
  <2>4. PICK j \in 0..n : k = j + 1
    <3>1. k - 1 \in 0..n /\ k = (k - 1) + 1
      BY <2>2, <2>3
    <3> QED
      BY <3>1
  <2>5. j \notin T
    <3> HIDE DEF T
    <3>1. ~(k <= j)
      BY <2>4
    <3> QED
      BY <2>1, <3>1
  <2>6. Rank(f, a + j) = Rank(f, a) + j
    BY <2>5
  <2>7. Live(f, a + k)
    <3>1. k \in 1..n
      BY <2>2, <2>3
    <3> QED
      BY <3>1 DEF LiveRun
  <2>8. PICK b \in Nat : b = a + j
    BY <2>4
  <2>9. a + k = b + 1
    BY <2>4, <2>8
  <2>10. Rank(f, b + 1) = Rank(f, b) + 1
    BY <2>7, <2>9, KeptNext DEF Rank
  <2>11. Rank(f, a) \in Nat
    BY RankType
  <2> QED
    BY <2>2, <2>4, <2>6, <2>8, <2>9, <2>10, <2>11
<1>3. \A k \in 0..n : Rank(f, a + k) = Rank(f, a) + k
  BY <1>2
<1>4. Rank(f, a) \in Nat /\ Len(f) \in Nat
  BY RankType
<1>5. ASSUME NEW k \in (Rank(f, a) + 1)..(Rank(f, a) + n) PROVE t[k] = c
  <2>1. PICK j \in 1..n : k = Rank(f, a) + j
    <3>1. k - Rank(f, a) \in 1..n /\ k = Rank(f, a) + (k - Rank(f, a))
      BY <1>4
    <3> QED
      BY <3>1
  <2>2. Live(f, a + j) /\ f[a + j] = c
    BY DEF LiveRun
  <2>3. a + j \in Kept(f, Len(f))
    BY <1>4, <2>2 DEF Kept
  <2>4. Rank(f, a + j) = k
    BY <1>3, <2>1
  <2> QED
    BY <2>2, <2>3, <2>4 DEF Reads
<1> HIDE DEF T
<1>6. Rank(f, a + n) = Rank(f, a) + n
  BY <1>3
<1> QED
  BY <1>5, <1>6 DEF Same

LEMMA RankSkip ==
  ASSUME NEW f, NEW a \in Nat, NEW e \in Nat, a <= e, \A i \in (a + 1)..e : ~Live(f, i)
  PROVE  Rank(f, e) = Rank(f, a)
<1>1. \A i \in 1..e : i \in 1..a \/ i \in (a + 1)..e
  OBVIOUS
<1>2. \A i \in 1..a : i \in 1..e
  OBVIOUS
<1>3. Kept(f, e) = Kept(f, a)
  BY <1>1, <1>2 DEF Kept
<1> QED
  BY <1>3 DEF Rank

LEMMA TextReads ==
  ASSUME file \in Seq(Char), NEW t, t = Text
  PROVE  Reads(t, file) /\ Len(t) \in Nat
<1>1. PICK f, n : f = file /\ n = Len(f)
  OBVIOUS
<1>2. n \in Nat
  BY <1>1
<1>3. Len(t) = Cardinality(Kept(f, n)) /\ \A i \in Kept(f, n) : t[Cardinality(Kept(f, i))] = f[i]
  BY <1>1, <1>2, TextIs
<1> QED
  BY <1>1, <1>2, <1>3, RankType DEF Reads, Rank

LEMMA TextSame ==
  ASSUME file' = file
  PROVE  Text' = Text
BY DEF Text, Effective, ChunkStart

\* The run at ptr.
LEMMA RunIs ==
  ASSUME TypeOK, ReadInv, pc = "parse", NEW c, NEW count \in 1..(Len(buffer) - ptr),
         c # "nul", \A i \in 1..count : buffer[ptr + i] = c
  PROVE  /\ Offset \in Nat /\ count \in Nat /\ count > 0 /\ Offset + count <= Len(file)
         /\ LiveRun(file, c, Offset, count)
<1>1. /\ ptr \in Nat /\ fpos \in Nat /\ Len(buffer) \in Nat /\ Len(buffer) <= fpos
      /\ count \in Nat /\ count > 0 /\ ptr + count <= Len(buffer)
      /\ fpos <= Len(file) /\ Len(file) \in Nat
  BY DEF TypeOK
<1>2. \A i \in 1..(ptr + count) : buffer[i] # "nul"
  <2> TAKE i \in 1..(ptr + count)
  <2>1. CASE i \in 1..ptr
    BY <2>1 DEF ReadInv
  <2>2. CASE i \notin 1..ptr
    <3>1. i - ptr \in 1..count /\ i = ptr + (i - ptr)
      BY <1>1, <2>2
    <3> QED
      BY <3>1
  <2> QED
    BY <2>1, <2>2
<1>3. Offset \in Nat /\ Offset + count <= Len(file)
  BY <1>1 DEF Offset
<1>4. ASSUME NEW k \in 1..count PROVE Live(file, Offset + k) /\ file[Offset + k] = c
  <2>1. PICK j : j = ptr + k
    OBVIOUS
  <2>2. j \in 1..Len(buffer) /\ (fpos - Len(buffer)) + j = Offset + k
    BY <1>1, <2>1 DEF Offset
  <2>3. \A i \in 1..j : buffer[i] # "nul"
    BY <1>1, <1>2, <2>1
  <2>4. buffer[j] = c
    BY <2>1
  <2>5. /\ Live(file, (fpos - Len(buffer)) + j) <=> \A i \in 1..j : buffer[i] # "nul"
        /\ file[(fpos - Len(buffer)) + j] = buffer[j]
    BY <2>2, LiveIs
  <2> QED
    BY <2>2, <2>3, <2>4, <2>5
<1> QED
  BY <1>1, <1>3, <1>4 DEF LiveRun

\* Where in the text the operations with these places in f start.
Places(f, s) == [i \in 1..Len(s) |-> Rank(f, s[i])]

\* The first n operations of s stand for t; loops that are not patched are
\* not closed in it.
Means(t, s, P, n) ==
  /\ Covers(t, s, P, n, Len(t))
  /\ Behind(P, n, Len(t))
  /\ \A i \in 1..n : s[i] = Op("loop_start", 0) => StaysOpen(t, P[i] + 1, Len(t))

\* What was parsed stands for what was read.
ReadText(L) == TextRead(Text, ir, Places(file, src), patch, Len(patch), Len(src), L)

TextInv ==
  /\ pc = "read" => ReadText(Rank(file, fpos))
  /\ pc = "parse" => ReadText(Rank(file, Offset))
  /\ pc = "parsed" => Means(Text, ir, Places(file, src), Len(src))

LEMMA PlacesNext ==
  ASSUME NEW f, NEW s \in Seq(Nat), NEW x \in Nat, NEW r, r = Append(s, x)
  PROVE  /\ Len(s) \in Nat /\ Len(r) = Len(s) + 1
         /\ Agree(Places(f, r), Places(f, s), Len(s))
         /\ Places(f, r)[Len(s) + 1] = Rank(f, x)
<1>1. Len(s) \in Nat /\ Len(r) = Len(s) + 1 /\ r[Len(s) + 1] = x /\ \A i \in 1..Len(s) : r[i] = s[i]
  OBVIOUS
<1>2. \A i \in 1..Len(s) : i \in 1..Len(r)
  BY <1>1
<1> QED
  BY <1>1, <1>2 DEF Places, Agree

LEMMA ParserFacts ==
  ASSUME IInv
  PROVE  /\ Len(src) \in Nat /\ Len(ir) = Len(src) /\ Len(patch) \in Nat
         /\ ir \in Seq(OpType) /\ src \in Seq(Nat) /\ patch \in Seq(Nat) /\ file \in Seq(Char)
         /\ Inside(patch, Len(patch), Len(src))
         /\ Partners(ir, Len(src))
<1>1. TypeOK
  BY DEF IInv
<1>2. /\ Len(src) \in Nat /\ Len(ir) = Len(src) /\ Len(patch) \in Nat
      /\ ir \in Seq(OpType) /\ src \in Seq(Nat) /\ patch \in Seq(Nat) /\ file \in Seq(Char)
  BY <1>1 DEF TypeOK
<1>3. Inside(patch, Len(patch), Len(src))
  <2> SUFFICES ASSUME NEW k \in 1..Len(patch) PROVE patch[k] \in Nat /\ patch[k] < Len(src)
    BY DEF Inside
  <2>1. patch[k] < Len(ir)
    BY DEF IInv, PatchesOpen, StackIsOpen
  <2> QED
    BY <1>2, <2>1
<1>4. Partners(ir, Len(src))
  <2> SUFFICES ASSUME NEW i \in 1..Len(src), IsClosed(ir, i) PROVE i + ir[i].arg \in 1..Len(src)
    BY DEF Partners
  <2>1. ir[i].arg > 0 /\ i + ir[i].arg <= Len(ir)
    BY <1>2 DEF IInv, DeltasMatch, LoopsMatched
  <2>2. ir[i].arg \in Int
    BY <1>1, <1>2, ArrayFacts
  <2> QED
    BY <1>2, <2>1, <2>2
<1> QED
  BY <1>2, <1>3, <1>4

LEMMA OffsetType ==
  ASSUME TypeOK
  PROVE  Offset \in Nat
<1>1. ptr \in Nat /\ fpos \in Nat /\ Len(buffer) \in Nat /\ Len(buffer) <= fpos
  BY DEF TypeOK
<1> QED
  BY <1>1 DEF Offset

\* What Push does.
LEMMA PushFacts ==
  ASSUME IInv, NEW kind \in Kind, NEW arg \in Int, Push(kind, arg), file' = file
  PROVE  /\ Len(src') = Len(src) + 1
         /\ Agree(Places(file', src'), Places(file, src), Len(src))
         /\ Places(file', src')[Len(src) + 1] = Rank(file, Offset)
         /\ Agree(ir', ir, Len(src)) /\ ir'[Len(src) + 1] = Op(kind, arg)
<1>1. Offset \in Nat
  BY OffsetType DEF IInv
<1>2. PICK x \in Nat : x = Offset
  BY <1>1
<1>3. src \in Seq(Nat) /\ ir \in Seq(OpType) /\ Len(ir) = Len(src)
  BY ParserFacts
<1>4. PICK r, f : r = src' /\ f = file
  OBVIOUS
<1>5. r = Append(src, x)
  BY <1>2, <1>4 DEF Push
<1>6. /\ Len(r) = Len(src) + 1
      /\ Agree(Places(f, r), Places(f, src), Len(src))
      /\ Places(f, r)[Len(src) + 1] = Rank(f, x)
  BY <1>3, <1>5, PlacesNext
<1>7. PICK u, op : u = ir' /\ op = Op(kind, arg)
  OBVIOUS
<1>8. op \in OpType /\ u = Append(ir, op)
  BY <1>7 DEF Push, Op, OpType
<1>9. u[Len(ir) + 1] = op /\ \A i \in 1..Len(ir) : u[i] = ir[i]
  BY <1>3, <1>8, AppendOp
<1> QED
  BY <1>2, <1>3, <1>4, <1>6, <1>7, <1>9 DEF Agree

\* What a run of count characters at ptr does to the text that was read.
LEMMA RunRead ==
  ASSUME IInv, ReadInv, pc = "parse", NEW c, NEW count \in 1..(Len(buffer) - ptr),
         c # "nul", \A i \in 1..count : buffer[ptr + i] = c,
         ptr' = ptr + count, UNCHANGED <<file, fpos, buffer>>
  PROVE  \E L, e \in Nat : /\ L = Rank(file, Offset) /\ e = Rank(file', Offset')
                           /\ L < e /\ e - L = count /\ Same(Text, c, L, e)
<1>1. TypeOK /\ file \in Seq(Char)
  BY DEF IInv, TypeOK
<1>2. /\ Offset \in Nat /\ count \in Nat /\ count > 0 /\ Offset + count <= Len(file)
      /\ LiveRun(file, c, Offset, count)
  BY <1>1, RunIs
<1>3. PICK t : t = Text
  OBVIOUS
<1>4. Reads(t, file)
  BY <1>1, <1>3, TextReads
<1>5. PICK a \in Nat : a = Offset
  BY <1>2
<1>6. /\ Rank(file, a + count) = Rank(file, a) + count
      /\ Same(t, c, Rank(file, a), Rank(file, a) + count)
  BY <1>1, <1>2, <1>4, <1>5, RankRun
<1>7. Offset' = a + count
  <2>1. ptr \in Nat /\ fpos \in Nat /\ Len(buffer) \in Nat
    BY <1>1 DEF TypeOK
  <2> QED
    BY <1>5, <2>1 DEF Offset
<1>8. PICK L \in Nat : L = Rank(file, a)
  BY RankType
<1>9. L + count \in Nat /\ L < L + count /\ (L + count) - L = count
  BY <1>2
<1> QED
  BY <1>3, <1>5, <1>6, <1>7, <1>8, <1>9

\* The operation a run is pushed as.
PushedAs(c, kind) ==
  \/ c = "," /\ kind = "read"
  \/ c = "." /\ kind = "write"

LEMMA PushRunText ==
  ASSUME IInv, ReadInv, TextInv, NEW c, NEW kind, PushRun(c, kind), PushedAs(c, kind)
  PROVE  TextInv'
<1>1. PICK count \in 1..(Len(buffer) - ptr) :
        count_char(c, count) /\ Push(kind, count) /\ ptr' = ptr + count
  BY DEF PushRun
<1>2. pc = "parse" /\ UNCHANGED <<file, fpos, buffer, patch, pc>> /\ c # "nul" /\ c \notin {"[", "]"}
  BY DEF PushRun, PushedAs
<1>3. \A i \in 1..count : buffer[ptr + i] = c
  BY <1>1 DEF count_char
<1>4. PICK L \in Nat, e \in Nat : /\ L = Rank(file, Offset) /\ e = Rank(file', Offset')
                                  /\ L < e /\ e - L = count /\ Same(Text, c, L, e)
  BY <1>1, <1>2, <1>3, RunRead
<1>6. PICK t, n, m, P, Q : /\ t = Text /\ n = Len(src) /\ m = Len(patch)
                           /\ P = Places(file, src) /\ Q = Places(file', src')
  OBVIOUS
<1>7. /\ n \in Nat /\ m \in Nat /\ ir \in Seq(OpType) /\ src \in Seq(Nat) /\ Len(ir) = n
      /\ Inside(patch, m, n) /\ Partners(ir, n)
  BY <1>6, ParserFacts
<1>8. count \in Int /\ kind \in {"read", "write"}
  <2>1. kind \in {"read", "write"}
    BY DEF PushedAs
  <2>2. count \in Int
    <3>1. TypeOK
      BY DEF IInv
    <3>2. ptr \in Nat /\ Len(buffer) \in Nat
      BY <3>1 DEF TypeOK
    <3> QED
      BY <1>1, <3>2
  <2> QED
    BY <2>1, <2>2
<1>9. /\ Len(src') = n + 1 /\ Agree(Q, P, n) /\ Q[n + 1] = L
      /\ Agree(ir', ir, n) /\ ir'[n + 1] = Op(kind, count)
  <2>1. kind \in Kind /\ count \in Int
    BY <1>8 DEF Kind
  <2> QED
    BY <1>1, <1>2, <1>4, <1>6, <2>1, PushFacts
<1>11. ir'[n + 1].kind # "loop_start"
  <2>1. Op(kind, count).kind = kind
    BY OpFields
  <2> QED
    BY <1>8, <1>9, <2>1
<1>12. Stands(t, ir'[n + 1], L, e)
  <2>1. RunOf(c, e - L, Op(kind, count))
    BY <1>4 DEF RunOf, PushedAs
  <2> QED
    BY <1>4, <1>6, <1>9, <2>1, RunStands
<1>13. TextRead(t, ir, P, patch, m, n, L)
  BY <1>2, <1>4, <1>6 DEF TextInv, ReadText
<1>14. PICK s, r, p : s = ir /\ r = ir' /\ p = patch
  OBVIOUS
<1>15. TextRead(t, r, Q, p, m, n + 1, e)
  <2>1. /\ L < e /\ TextRead(t, s, P, p, m, n, L) /\ Inside(p, m, n) /\ Partners(s, n)
        /\ Agree(r, s, n) /\ r[n + 1].kind # "loop_start" /\ Agree(Q, P, n) /\ Q[n + 1] = L
        /\ Stands(t, r[n + 1], L, e) /\ Same(t, c, L, e) /\ c \notin {"[", "]"}
        /\ m \in Nat /\ n \in Nat /\ L \in Nat /\ e \in Nat
    BY <1>2, <1>4, <1>6, <1>7, <1>9, <1>11, <1>12, <1>13, <1>14
  <2> QED
    BY ONLY <2>1, PushText
<1>16. Text' = t
  BY <1>2, <1>6, TextSame
<1>17. ReadText(Rank(file, Offset))'
  BY <1>2, <1>4, <1>6, <1>9, <1>14, <1>15, <1>16 DEF ReadText
<1> QED
  BY <1>2, <1>17 DEF TextInv

\* What a run is added as, or pushed.
AddedAs(c, kind, sign) ==
  \/ c = "+" /\ kind = "cell" /\ sign = 1
  \/ c = "-" /\ kind = "cell" /\ sign = -1
  \/ c = ">" /\ kind = "tape" /\ sign = 1
  \/ c = "<" /\ kind = "tape" /\ sign = -1

\* What MergeLast does.
Merges(r, s, delta) == r = [s EXCEPT ![Len(s)].arg = @ + delta]

LEMMA MergeFacts ==
  ASSUME NEW s \in Seq(OpType), NEW n \in Nat \ {0}, NEW delta \in Int, NEW r,
         Len(s) = n, Merges(r, s, delta)
  PROVE  /\ Agree(r, s, n - 1) /\ r[n].kind = s[n].kind
         /\ s[n].arg \in Int /\ r[n].arg = s[n].arg + delta
<1>1. Len(s) > 0
  OBVIOUS
<1>2. r[Len(s)].kind = s[Len(s)].kind /\ \A i \in 1..(Len(s) - 1) : r[i] = s[i]
  BY <1>1, AddToLast DEF Merges
<1>3. s[n] \in OpType
  BY <1>1
<1>4. s[n].arg \in Int
  BY <1>3 DEF OpType
<1>5. r[n] = [s[n] EXCEPT !.arg = @ + delta]
  BY <1>1 DEF Merges
<1>6. r[n].arg = s[n].arg + delta
  BY <1>3, <1>5, SMTT(30) DEF OpType
<1> QED
  BY <1>2, <1>4, <1>6 DEF Agree

LEMMA AddRunText ==
  ASSUME IInv, ReadInv, TextInv, NEW c, NEW kind, NEW sign,
         AddRun(c, kind, sign), AddedAs(c, kind, sign)
  PROVE  TextInv'
<1>1. PICK count \in 1..(Len(buffer) - ptr) :
        /\ count_char(c, count) /\ ptr' = ptr + count
        /\ IF LastIs(kind) THEN MergeLast(sign * count) ELSE Push(kind, sign * count)
  BY DEF AddRun
<1>2. /\ pc = "parse" /\ UNCHANGED <<file, fpos, buffer, patch, pc>>
      /\ c # "nul" /\ c \notin {"[", "]"}
  BY DEF AddRun, AddedAs
<1>3. \A i \in 1..count : buffer[ptr + i] = c
  BY <1>1 DEF count_char
<1>4. PICK L \in Nat, e \in Nat : /\ L = Rank(file, Offset) /\ e = Rank(file', Offset')
                                  /\ L < e /\ e - L = count /\ Same(Text, c, L, e)
  BY <1>1, <1>2, <1>3, RunRead
<1>6. PICK t, n, m, P, Q : /\ t = Text /\ n = Len(src) /\ m = Len(patch)
                           /\ P = Places(file, src) /\ Q = Places(file', src')
  OBVIOUS
<1>7. /\ n \in Nat /\ m \in Nat /\ ir \in Seq(OpType) /\ src \in Seq(Nat) /\ Len(ir) = n
      /\ Inside(patch, m, n) /\ Partners(ir, n)
  BY <1>6, ParserFacts
<1>8. count \in Int /\ count > 0 /\ kind \in {"cell", "tape"} /\ sign \in {1, -1}
  <2>1. kind \in {"cell", "tape"} /\ sign \in {1, -1}
    BY DEF AddedAs
  <2>2. count \in Int /\ count > 0
    <3>1. TypeOK
      BY DEF IInv
    <3>2. ptr \in Nat /\ Len(buffer) \in Nat
      BY <3>1 DEF TypeOK
    <3> QED
      BY <1>1, <3>2
  <2> QED
    BY <2>1, <2>2
<1>9. PICK delta \in Int : delta = sign * count /\ (sign = 1 => delta = count) /\ (sign = -1 => delta = -count)
  BY <1>8
<1>10. TextRead(t, ir, P, patch, m, n, L)
  BY <1>2, <1>4, <1>6 DEF TextInv, ReadText
<1>11. PICK s, r, p : s = ir /\ r = ir' /\ p = patch
  OBVIOUS
<1>12. Text' = t
  BY <1>2, <1>6, TextSame
<1>13. CASE LastIs(kind)
  <2>1. /\ n # 0 /\ s[n].kind = kind
        /\ Merges(r, s, delta) /\ src' = src
    BY <1>1, <1>7, <1>6, <1>9, <1>11, <1>13 DEF MergeLast, LastIs, Merges
  <2>2. /\ Agree(r, s, n - 1) /\ r[n].kind = s[n].kind
        /\ s[n].arg \in Int /\ r[n].arg = s[n].arg + delta
    <3>1. /\ n \in Nat \ {0} /\ s \in Seq(OpType) /\ Len(s) = n /\ delta \in Int
          /\ Merges(r, s, delta)
      BY <1>7, <1>9, <1>11, <2>1
    <3> QED
      BY ONLY <3>1, MergeFacts
  <2>3. MergedRun(c, e - L, s[n], r[n])
    <3>1. PICK o, u : o = s[n] /\ u = r[n]
      OBVIOUS
    <3>2. o.kind = kind /\ o.arg \in Int /\ u.arg = o.arg + delta
      BY <2>1, <2>2, <3>1
    <3>3. MergedRun(c, count, o, u)
      BY <1>8, <1>9, <3>2 DEF MergedRun, AddedAs
    <3> QED
      BY <1>4, <3>1, <3>3
  <2>4. TextRead(t, r, P, p, m, n, e)
    <3>1. /\ L < e /\ TextRead(t, s, P, p, m, n, L) /\ Inside(p, m, n)
          /\ Agree(r, s, n - 1) /\ r[n].kind = s[n].kind /\ s[n].arg \in Int
          /\ MergedRun(c, e - L, s[n], r[n]) /\ Same(t, c, L, e)
          /\ m \in Nat /\ n \in Nat \ {0} /\ L \in Nat /\ e \in Nat
      BY <1>4, <1>6, <1>7, <1>10, <1>11, <2>1, <2>2, <2>3
    <3> QED
      BY ONLY <3>1, MergeText
  <2>5. ReadText(Rank(file, Offset))'
    BY <1>2, <1>4, <1>6, <1>11, <1>12, <2>1, <2>4 DEF ReadText
  <2> QED
    BY <1>2, <2>5 DEF TextInv
<1>14. CASE ~LastIs(kind)
  <2>1. Push(kind, delta) /\ kind \in Kind /\ file' = file
    BY <1>1, <1>2, <1>8, <1>9, <1>14 DEF Kind
  <2>2. /\ Len(src') = n + 1 /\ Agree(Q, P, n) /\ Q[n + 1] = L
        /\ Agree(ir', ir, n) /\ ir'[n + 1] = Op(kind, delta)
    BY <1>4, <1>6, <2>1, PushFacts
  <2>3. ir'[n + 1].kind # "loop_start"
    <3>1. Op(kind, delta).kind = kind
      BY OpFields
    <3> QED
      BY <1>8, <2>2, <3>1
  <2>4. Stands(t, ir'[n + 1], L, e)
    <3>1. RunOf(c, count, Op(kind, delta))
      BY <1>9 DEF RunOf, AddedAs
    <3>2. RunOf(c, e - L, Op(kind, delta))
      BY <1>4, <3>1
    <3> QED
      BY <1>4, <1>6, <2>2, <3>2, RunStands
  <2>5. TextRead(t, r, Q, p, m, n + 1, e)
    <3>1. /\ L < e /\ TextRead(t, s, P, p, m, n, L) /\ Inside(p, m, n) /\ Partners(s, n)
          /\ Agree(r, s, n) /\ r[n + 1].kind # "loop_start" /\ Agree(Q, P, n) /\ Q[n + 1] = L
          /\ Stands(t, r[n + 1], L, e) /\ Same(t, c, L, e) /\ c \notin {"[", "]"}
          /\ m \in Nat /\ n \in Nat /\ L \in Nat /\ e \in Nat
      BY <1>2, <1>4, <1>6, <1>7, <1>10, <1>11, <2>2, <2>3, <2>4
    <3> QED
      BY ONLY <3>1, PushText
  <2>6. ReadText(Rank(file, Offset))'
    BY <1>2, <1>4, <1>6, <1>11, <1>12, <2>2, <2>5 DEF ReadText
  <2> QED
    BY <1>2, <2>6 DEF TextInv
<1> QED
  BY <1>13, <1>14

\* The bracket at ptr.
LEMMA BracketRead ==
  ASSUME IInv, ReadInv, pc = "parse", NEW c, c # "nul", At(c),
         ptr' = ptr + 1, UNCHANGED <<file, fpos, buffer>>
  PROVE  \E L \in Nat : /\ L = Rank(file, Offset) /\ L + 1 = Rank(file', Offset')
                        /\ Text[L + 1] = c
<1>1. TypeOK
  BY DEF IInv
<1>2. ptr \in Nat /\ Len(buffer) \in Nat /\ ptr < Len(buffer) /\ buffer[ptr + 1] = c
  BY <1>1 DEF TypeOK, At
<1>3. 1 \in 1..(Len(buffer) - ptr) /\ \A i \in 1..1 : buffer[ptr + i] = c
  BY <1>2
<1>4. PICK L \in Nat, e \in Nat : /\ L = Rank(file, Offset) /\ e = Rank(file', Offset')
                                  /\ L < e /\ e - L = 1 /\ Same(Text, c, L, e)
  BY <1>3, RunRead
<1>5. e = L + 1 /\ e \in (L + 1)..e
  BY <1>4
<1> QED
  BY <1>4, <1>5 DEF Same

LEMMA LoopStartText ==
  ASSUME IInv, ReadInv, TextInv, ParseLoopStart
  PROVE  TextInv'
<1>1. /\ pc = "parse" /\ At("[") /\ ptr' = ptr + 1 /\ UNCHANGED <<file, fpos, buffer, pc>>
      /\ patch' = Append(patch, Len(ir)) /\ Push("loop_start", 0)
  BY DEF ParseLoopStart
<1>2. PICK L \in Nat : /\ L = Rank(file, Offset) /\ L + 1 = Rank(file', Offset')
                       /\ Text[L + 1] = "["
  BY <1>1, BracketRead
<1>3. PICK t, n, m, P, Q : /\ t = Text /\ n = Len(src) /\ m = Len(patch)
                           /\ P = Places(file, src) /\ Q = Places(file', src')
  OBVIOUS
<1>4. /\ n \in Nat /\ m \in Nat /\ ir \in Seq(OpType) /\ src \in Seq(Nat) /\ Len(ir) = n
      /\ Inside(patch, m, n) /\ Partners(ir, n) /\ patch \in Seq(Nat)
  BY <1>3, ParserFacts
<1>5. TextRead(t, ir, P, patch, m, n, L)
  BY <1>1, <1>2, <1>3 DEF TextInv, ReadText
<1>6. /\ Len(src') = n + 1 /\ Agree(Q, P, n) /\ Q[n + 1] = L
      /\ Agree(ir', ir, n) /\ ir'[n + 1] = Op("loop_start", 0)
  <2>1. "loop_start" \in Kind /\ 0 \in Int
    BY DEF Kind
  <2> QED
    BY <1>1, <1>2, <1>3, <2>1, PushFacts
<1>7. PICK s, r, p, q : s = ir /\ r = ir' /\ p = patch /\ q = patch'
  OBVIOUS
<1>8. Len(q) = m + 1 /\ Agree(q, p, m) /\ q[m + 1] = n
  <2>1. q = Append(p, n) /\ p \in Seq(Nat)
    BY <1>1, <1>4, <1>7
  <2>2. Len(q) = Len(p) + 1 /\ q[Len(p) + 1] = n /\ \A i \in 1..Len(p) : q[i] = p[i]
    BY <1>4, <2>1, AppendNat
  <2> QED
    BY <1>3, <1>7, <2>2 DEF Agree
<1>9. TextRead(t, r, Q, q, m + 1, n + 1, L + 1)
  <2>1. /\ TextRead(t, s, P, p, m, n, L) /\ Inside(p, m, n) /\ Partners(s, n) /\ Agree(r, s, n)
        /\ r[n + 1] = Op("loop_start", 0) /\ Agree(Q, P, n) /\ Q[n + 1] = L /\ t[L + 1] = "["
        /\ Agree(q, p, m) /\ q[m + 1] = n /\ m \in Nat /\ n \in Nat /\ L \in Nat
    BY <1>2, <1>3, <1>4, <1>5, <1>6, <1>7, <1>8
  <2> QED
    BY ONLY <2>1, StartText
<1>10. Text' = t
  BY <1>1, <1>3, TextSame
<1>11. ReadText(Rank(file, Offset))'
  BY <1>2, <1>3, <1>6, <1>7, <1>8, <1>9, <1>10 DEF ReadText
<1> QED
  BY <1>1, <1>11 DEF TextInv

LEMMA LoopEndText ==
  ASSUME IInv, ReadInv, TextInv, ParseLoopEnd
  PROVE  TextInv'
<1>1. /\ pc = "parse" /\ At("]") /\ ptr' = ptr + 1 /\ UNCHANGED <<file, fpos, buffer, pc>>
      /\ Len(patch) > 0 /\ patch' = SubSeq(patch, 1, Len(patch) - 1) /\ src' = Append(src, Offset)
      /\ ir' = Append([ir EXCEPT ![patch[Len(patch)] + 1] =
                         Op("loop_start", Len(ir) - patch[Len(patch)])],
                      Op("loop_end", -(Len(ir) - patch[Len(patch)])))
  BY DEF ParseLoopEnd, Popped, Innermost, Delta
<1>2. PICK L \in Nat : /\ L = Rank(file, Offset) /\ L + 1 = Rank(file', Offset')
                       /\ Text[L + 1] = "]"
  BY <1>1, BracketRead
<1>3. PICK t, n, m, P, Q : /\ t = Text /\ n = Len(src) /\ m = Len(patch)
                           /\ P = Places(file, src) /\ Q = Places(file', src')
  OBVIOUS
<1>4. /\ n \in Nat /\ m \in Nat \ {0} /\ ir \in Seq(OpType) /\ src \in Seq(Nat) /\ Len(ir) = n
      /\ Inside(patch, m, n) /\ Partners(ir, n) /\ patch \in Seq(Nat)
  <2>1. /\ Len(src) \in Nat /\ Len(ir) = Len(src) /\ Len(patch) \in Nat
        /\ ir \in Seq(OpType) /\ src \in Seq(Nat) /\ patch \in Seq(Nat)
        /\ Inside(patch, Len(patch), Len(src))
        /\ Partners(ir, Len(src))
    BY ParserFacts
  <2> QED
    BY <1>1, <1>3, <2>1
<1>5. TextRead(t, ir, P, patch, m, n, L)
  BY <1>1, <1>2, <1>3 DEF TextInv, ReadText
<1>6. Len(src') = n + 1 /\ Agree(Q, P, n) /\ Q[n + 1] = L
  <2>1. TypeOK
    BY DEF IInv
  <2>2. PICK x \in Nat : x = Offset
    BY <2>1, OffsetType
  <2>3. PICK f, u : f = file /\ u = src'
    OBVIOUS
  <2>4. u = Append(src, x)
    BY <1>1, <2>2, <2>3
  <2>5. Len(u) = Len(src) + 1 /\ Agree(Places(f, u), Places(f, src), Len(src))
        /\ Places(f, u)[Len(src) + 1] = Rank(f, x)
    BY <1>4, <2>4, PlacesNext
  <2> QED
    BY <1>1, <1>2, <1>3, <2>2, <2>3, <2>5
<1>7. PICK s, r, p, q, addr : s = ir /\ r = ir' /\ p = patch /\ q = patch' /\ addr = p[m]
  OBVIOUS
<1>8. addr \in 0..(n - 1) /\ addr \in Nat /\ s[addr + 1] = Op("loop_start", 0)
  <2>1. m \in 1..m
    BY <1>4
  <2>2. p[m] \in Nat /\ p[m] < n
    BY <1>4, <1>7, <2>1 DEF Inside
  <2>3. ir[patch[m] + 1] = Op("loop_start", 0)
    BY <1>3, <2>1 DEF IInv, PatchesOpen, StackIsOpen
  <2> QED
    BY <1>4, <1>7, <2>2, <2>3
<1>9. /\ r[n + 1] = Op("loop_end", -(n - addr)) /\ r[addr + 1] = Op("loop_start", n - addr)
      /\ \A i \in 1..n : i # addr + 1 => r[i] = s[i]
  <2>1. PICK delta \in Int : delta = n - addr
    BY <1>4, <1>8
  <2>2. r = Append([s EXCEPT ![addr + 1] = Op("loop_start", delta)], Op("loop_end", -delta))
    BY <1>1, <1>3, <1>4, <1>7, <2>1
  <2>3. s \in Seq(OpType) /\ addr \in 0..(Len(s) - 1) /\ Len(s) = n
    BY <1>4, <1>7, <1>8
  <2>4. /\ r[Len(s) + 1] = Op("loop_end", -delta) /\ r[addr + 1] = Op("loop_start", delta)
        /\ \A i \in 1..Len(s) : i # addr + 1 => r[i] = s[i]
    BY <2>2, <2>3, PatchAndPush
  <2> QED
    BY <2>1, <2>3, <2>4
<1>10. s[addr + 1].kind = "loop_start" /\ r[n + 1].kind = "loop_end"
  BY <1>8, <1>9, OpFields
<1>11. Len(q) = m - 1 /\ Agree(q, p, m - 1)
  <2>1. PICK b \in Nat : b = m - 1
    BY <1>4
  <2>2. p \in Seq(Nat) /\ b <= Len(p) /\ q = SubSeq(p, 1, b)
    BY <1>1, <1>3, <1>4, <1>7, <2>1
  <2>3. Len(SubSeq(p, 1, b)) = b /\ \A i \in 1..b : SubSeq(p, 1, b)[i] = p[i]
    BY <2>2, Prefix
  <2> QED
    BY <2>1, <2>2, <2>3 DEF Agree
<1>12. TextRead(t, r, Q, q, m - 1, n + 1, L + 1)
  <2>1. /\ TextRead(t, s, P, p, m, n, L) /\ Inside(p, m, n) /\ Partners(s, n)
        /\ \A i \in 1..n : i # p[m] + 1 => r[i] = s[i]
        /\ s[p[m] + 1].kind = "loop_start" /\ r[p[m] + 1] = Op("loop_start", n - p[m])
        /\ r[n + 1].kind = "loop_end" /\ Agree(Q, P, n) /\ Q[n + 1] = L /\ t[L + 1] = "]"
        /\ Agree(q, p, m - 1) /\ m \in Nat \ {0} /\ n \in Nat /\ L \in Nat
    BY <1>2, <1>3, <1>4, <1>5, <1>6, <1>7, <1>9, <1>10, <1>11
  <2> QED
    BY ONLY <2>1, EndText
<1>13. Text' = t
  BY <1>1, <1>3, TextSame
<1>14. ReadText(Rank(file, Offset))'
  BY <1>2, <1>3, <1>6, <1>7, <1>11, <1>12, <1>13 DEF ReadText
<1> QED
  BY <1>1, <1>14 DEF TextInv

LEMMA OtherRunText ==
  ASSUME IInv, ReadInv, TextInv, ParseOther
  PROVE  TextInv'
<1>1. PICK count \in 1..(Len(buffer) - ptr) : count_char("other", count) /\ ptr' = ptr + count
  BY DEF ParseOther
<1>2. pc = "parse" /\ UNCHANGED <<file, fpos, buffer, ir, patch, pc, src>>
  BY DEF ParseOther
<1>3. \A i \in 1..count : buffer[ptr + i] = "other"
  BY <1>1 DEF count_char
<1>4. PICK L \in Nat, e \in Nat : /\ L = Rank(file, Offset) /\ e = Rank(file', Offset')
                                  /\ L < e /\ e - L = count /\ Same(Text, "other", L, e)
  BY <1>1, <1>2, <1>3, RunRead
<1>5. PICK t, n, m, P : t = Text /\ n = Len(src) /\ m = Len(patch) /\ P = Places(file, src)
  OBVIOUS
<1>6. n \in Nat /\ m \in Nat /\ Inside(patch, m, n)
  BY <1>5, ParserFacts
<1>7. TextRead(t, ir, P, patch, m, n, L)
  BY <1>2, <1>4, <1>5 DEF TextInv, ReadText
<1>8. PICK s, p : s = ir /\ p = patch
  OBVIOUS
<1>9. TextRead(t, s, P, p, m, n, e)
  <2>1. /\ L <= e /\ TextRead(t, s, P, p, m, n, L) /\ Inside(p, m, n) /\ Same(t, "other", L, e)
        /\ m \in Nat /\ n \in Nat /\ L \in Nat /\ e \in Nat
    BY <1>4, <1>5, <1>6, <1>7, <1>8
  <2> QED
    BY ONLY <2>1, OtherText
<1>10. Text' = t
  BY <1>2, <1>5, TextSame
<1>11. ReadText(Rank(file, Offset))'
  BY <1>2, <1>4, <1>5, <1>8, <1>9, <1>10 DEF ReadText
<1> QED
  BY <1>2, <1>11 DEF TextInv

\* At the end of the file the open loops are those that nothing closes.
LEMMA TextReadMeans ==
  ASSUME IInv, NEW t, NEW P, TextRead(t, ir, P, patch, Len(patch), Len(src), Len(t))
  PROVE  Means(t, ir, P, Len(src))
<1>1. /\ Covers(t, ir, P, Len(src), Len(t)) /\ Behind(P, Len(src), Len(t))
      /\ LoopsOpen(t, P, patch, Len(patch), Len(t))
  BY DEF TextRead
<1>2. Len(ir) = Len(src)
  BY ParserFacts
<1>3. ASSUME NEW i \in 1..Len(src), ir[i] = Op("loop_start", 0)
      PROVE  StaysOpen(t, P[i] + 1, Len(t))
  <2>1. StackIsOpen(ir, patch)
    BY DEF IInv, PatchesOpen
  <2>2. PICK k \in 1..Len(patch) : patch[k] = i - 1
    BY <1>2, <1>3, <2>1 DEF StackIsOpen
  <2>3. patch[k] + 1 = i
    BY <2>2
  <2>4. StaysOpen(t, P[patch[k] + 1] + 1, Len(t))
    BY <1>1, <2>2 DEF LoopsOpen
  <2> QED
    BY <2>3, <2>4
<1> QED
  BY <1>1, <1>3 DEF Means

LEMMA ReturnText ==
  ASSUME IInv, ReadInv, TextInv, ParseReturn
  PROVE  TextInv'
<1>1. /\ pc = "parse" /\ (ptr < Len(buffer) => buffer[ptr + 1] = "nul")
      /\ pc' = IF Len(buffer) > 0 THEN "read" ELSE "parsed"
      /\ UNCHANGED <<file, fpos, buffer, ptr, ir, patch, src>>
  BY DEF ParseReturn, At
<1>2. TypeOK
  BY DEF IInv
<1>3. /\ ptr \in Nat /\ fpos \in Nat /\ Len(buffer) \in Nat /\ Len(buffer) <= fpos
      /\ ptr <= Len(buffer) /\ fpos <= Len(file) /\ Len(file) \in Nat
      /\ buffer \in Seq(Char) /\ file \in Seq(Char)
  BY <1>2 DEF TypeOK
<1>4. PICK n \in Nat : n = Offset
  BY <1>2, OffsetType
<1>5. n <= fpos
  BY <1>3, <1>4 DEF Offset
<1>6. ASSUME NEW i \in (n + 1)..fpos PROVE ~Live(file, i)
  <2>1. PICK k : k = i - (fpos - Len(buffer))
    OBVIOUS
  <2>2. /\ ptr < Len(buffer) /\ k \in 1..Len(buffer) /\ ptr + 1 \in 1..k
        /\ i = (fpos - Len(buffer)) + k
    BY <1>3, <1>4, <2>1 DEF Offset
  <2>3. ~(\A j \in 1..k : buffer[j] # "nul")
    BY <1>1, <2>2
  <2>4. Live(file, (fpos - Len(buffer)) + k) <=> \A j \in 1..k : buffer[j] # "nul"
    BY <1>1, <1>2, <2>2, LiveIs
  <2> QED
    BY <2>2, <2>3, <2>4
<1>7. Rank(file, fpos) = Rank(file, n)
  BY <1>3, <1>5, <1>6, RankSkip
<1>8. ReadText(Rank(file, fpos))
  BY <1>1, <1>4, <1>7 DEF TextInv
<1>9. PICK t : t = Text
  OBVIOUS
<1>10. Text' = t
  BY <1>1, <1>9, TextSame
<1>11. CASE Len(buffer) > 0
  <2>1. pc' = "read"
    BY <1>1, <1>11
  <2>2. ReadText(Rank(file, fpos))'
    BY <1>1, <1>8, <1>9, <1>10 DEF ReadText
  <2> QED
    BY <2>1, <2>2 DEF TextInv
<1>12. CASE ~(Len(buffer) > 0)
  <2>1. buffer = <<>> /\ pc' = "parsed"
    BY <1>1, <1>3, <1>12
  <2>2. fpos = Len(file)
    BY <1>1, <2>1 DEF ReadInv
  <2>3. Len(t) = Rank(file, fpos)
    BY <1>3, <1>9, <2>2, TextReads DEF Reads
  <2>4. TextRead(t, ir, Places(file, src), patch, Len(patch), Len(src), Len(t))
    BY <1>8, <1>9, <2>3 DEF ReadText
  <2>5. Means(t, ir, Places(file, src), Len(src))
    BY <2>4, TextReadMeans
  <2>6. Means(Text, ir, Places(file, src), Len(src))'
    BY <1>1, <1>10, <2>5
  <2> QED
    BY <2>1, <2>6 DEF TextInv
<1> QED
  BY <1>11, <1>12

LEMMA FreadText ==
  ASSUME IInv, ReadInv, TextInv, Fread
  PROVE  TextInv'
<1>1. /\ pc = "read" /\ fpos' = Smaller(fpos + BUFLEN, Len(file))
      /\ buffer' = SubSeq(file, fpos + 1, fpos') /\ ptr' = 0 /\ pc' = "parse"
      /\ UNCHANGED <<file, ir, patch, src>>
  BY DEF Fread
<1>2. TypeOK
  BY DEF IInv
<1>3. file \in Seq(Char) /\ fpos \in Nat /\ fpos <= Len(file) /\ Len(file) \in Nat
  BY <1>2 DEF TypeOK
<1>4. PICK g : g = fpos'
  OBVIOUS
<1>5. g \in Nat /\ fpos <= g /\ g <= Len(file)
  BY <1>1, <1>3, <1>4, BuflenAssumption DEF Smaller
<1>6. PICK l : l = Len(buffer')
  OBVIOUS
<1>7. l = g - fpos
  <2>1. Len(SubSeq(file, fpos + 1, g)) = g - fpos
    BY <1>3, <1>5, Segment
  <2> QED
    BY <1>1, <1>4, <1>6, <2>1
<1>8. Offset' = fpos
  <2>1. Offset' = (g - l) + 0
    BY <1>1, <1>4, <1>6 DEF Offset
  <2>2. (g - l) + 0 = fpos
    BY <1>3, <1>5, <1>7
  <2> QED
    BY <2>1, <2>2
<1>9. Text' = Text
  BY <1>1, TextSame
<1>10. ReadText(Rank(file, fpos))
  BY <1>1 DEF TextInv
<1>11. ReadText(Rank(file, Offset))'
  BY <1>1, <1>8, <1>9, <1>10 DEF ReadText
<1> QED
  BY <1>1, <1>11 DEF TextInv

\* A step of the parser.
LEMMA ParseText ==
  ASSUME IInv, ReadInv, TextInv, Parse
  PROVE  TextInv'
<1>1. ParseRead \/ ParseWrite => TextInv'
  BY PushRunText DEF ParseRead, ParseWrite, PushedAs
<1>2. ParsePlus \/ ParseMinus \/ ParseRight \/ ParseLeft => TextInv'
  BY AddRunText DEF ParsePlus, ParseMinus, ParseRight, ParseLeft, AddedAs
<1>3. ParseUnmatched => TextInv'
  BY DEF ParseUnmatched, TextInv
<1> QED
  BY <1>1, <1>2, <1>3, LoopStartText, LoopEndText, OtherRunText, ReturnText, FreadText
     DEF Parse, ParseChar

LEMMA InitText ==
  ASSUME Init
  PROVE  TextInv
<1>1. pc = "read" /\ fpos = 0 /\ ir = <<>> /\ patch = <<>> /\ src = <<>>
  BY DEF Init
<1>2. Rank(file, 0) = 0
  <2>1. Kept(file, 0) = {}
    BY DEF Kept
  <2> QED
    BY <2>1, FS_EmptySet DEF Rank
<1>3. Len(src) = 0 /\ Len(patch) = 0
  BY <1>1
<1>4. PICK t, P : t = Text /\ P = Places(file, src)
  OBVIOUS
<1>5. Covers(t, ir, P, 0, 0)
  BY DEF Covers, Until, Only
<1>6. Behind(P, 0, 0) /\ LoopsOpen(t, P, patch, 0, 0)
  BY DEF Behind, LoopsOpen
<1>7. TextRead(t, ir, P, patch, 0, 0, 0)
  BY <1>5, <1>6 DEF TextRead
<1>8. ReadText(Rank(file, fpos))
  BY <1>1, <1>2, <1>3, <1>4, <1>7 DEF ReadText
<1> QED
  BY <1>1, <1>8 DEF TextInv

---------------------------------------------------------------------------
(* Folds over a text or an IR as iterations *)

\* What ir_ctx_dump_bf prints for the operations s.
Dump(s) == FoldLeft(DumpStep, <<>>, s)

\* The steps of the two folds, and what the folds return.
FoldStep(kind, acc, x) == IF kind = "dump" THEN DumpStep(acc, x) ELSE NormalStep(acc, x)

FoldOf(kind, s) == IF kind = "dump" THEN Dump(s) ELSE Normal(s)

\* The table a fold over s is defined by: a result for every set of places.
IsFold(t, kind, s, n) ==
  t = [d \in SUBSET (1..n) |-> IF d = {} THEN <<>>
                               ELSE FoldStep(kind, t[d \ {Max(d)}], s[Max(d)])]

LEMMA MaxIs ==
  ASSUME NEW n \in Nat, NEW d, d \subseteq 1..n, d # {}
  PROVE  Max(d) \in d /\ \A y \in d : Max(d) >= y
<1> DEFINE T == {u \in Nat : \A y \in d : u >= y}
<1>1. n \in T /\ T \subseteq Nat
  OBVIOUS
<1>2. PICK x \in T : \A y \in T : x <= y
  <2> HIDE DEF T
  <2> QED
    BY <1>1, LeastNat
<1>3. x \in d
  <2> SUFFICES ASSUME x \notin d PROVE FALSE
    OBVIOUS
  <2>1. PICK y \in d : TRUE
    OBVIOUS
  <2>2. x \in Nat /\ x >= y /\ y \in Nat /\ y > 0
    BY <1>2
  <2>3. x - 1 \in Nat
    BY <2>2
  <2>4. \A z \in d : x - 1 >= z
    <3> TAKE z \in d
    <3>1. x >= z /\ x # z /\ z \in Nat /\ x \in Nat
      BY <1>2
    <3> QED
      BY <3>1
  <2>5. x - 1 \in T
    BY <2>3, <2>4
  <2> QED
    BY <1>2, <2>2, <2>5
<1>4. \E y \in d : \A z \in d : y >= z
  BY <1>2, <1>3
<1> QED
  BY <1>4 DEF Max

LEMMA FoldGrows ==
  ASSUME NEW kind, NEW s, NEW n \in Nat, NEW g, IsFold(g, kind, s, n)
  PROVE  \E t : IsFold(t, kind, s, n + 1)
<1> DEFINE B(t, d) == IF d = {} THEN <<>> ELSE FoldStep(kind, t[d \ {Max(d)}], s[Max(d)])
           f == [d \in SUBSET (1..(n + 1)) |-> B(g, d)]
<1>1. \A d \in SUBSET (1..n) : f[d] = g[d]
  <2> TAKE d \in SUBSET (1..n)
  <2>1. d \in SUBSET (1..(n + 1))
    OBVIOUS
  <2>2. g[d] = B(g, d)
    BY DEF IsFold
  <2> QED
    BY <2>1, <2>2
<1>2. ASSUME NEW d \in SUBSET (1..(n + 1)), d # {} PROVE d \ {Max(d)} \in SUBSET (1..n)
  <2>1. PICK x : x = Max(d)
    OBVIOUS
  <2>2. n + 1 \in Nat
    OBVIOUS
  <2>3. x \in d /\ \A y \in d : x >= y
    BY <1>2, <2>1, <2>2, MaxIs
  <2>4. \A y \in d : y \in 1..(n + 1) /\ x \in 1..(n + 1) /\ x >= y
    BY <2>3
  <2>5. \A y \in d : y # x => y \in 1..n
    BY <2>4
  <2> QED
    BY <2>1, <2>5
<1>3. \A d \in SUBSET (1..(n + 1)) : d # {} => f[d \ {Max(d)}] = g[d \ {Max(d)}]
  BY <1>1, <1>2
<1>4. f = [d \in SUBSET (1..(n + 1)) |-> B(f, d)]
  BY <1>3
<1> HIDE DEF f
<1> QED
  BY <1>4 DEF IsFold

LEMMA FoldExists ==
  ASSUME NEW kind, NEW s, NEW n \in Nat
  PROVE  \E t : IsFold(t, kind, s, n)
<1> DEFINE T == {k \in Nat : ~\E t : IsFold(t, kind, s, k)}
<1>1. 0 \notin T
  <2> DEFINE f == [d \in SUBSET (1..0) |-> <<>>]
  <2>1. \A d \in SUBSET (1..0) : d = {}
    OBVIOUS
  <2>2. IsFold(f, kind, s, 0)
    BY <2>1 DEF IsFold
  <2> QED
    BY <2>2
<1>2. T = {}
  <2> SUFFICES ASSUME T # {} PROVE FALSE
    OBVIOUS
  <2>1. PICK k \in T : \A y \in T : k <= y
    <3>1. T \subseteq Nat
      OBVIOUS
    <3> HIDE DEF T
    <3> QED
      BY <3>1, LeastNat
  <2>2. k \in Nat /\ k # 0
    BY <1>1
  <2>3. PICK j \in Nat : k = j + 1
    <3>1. k - 1 \in Nat /\ k = (k - 1) + 1
      BY <2>2
    <3> QED
      BY <3>1
  <2>4. j \notin T
    <3> HIDE DEF T
    <3>1. ~(k <= j)
      BY <2>3
    <3> QED
      BY <2>1, <3>1
  <2>5. PICK t : IsFold(t, kind, s, j)
    BY <2>4
  <2>6. \E u : IsFold(u, kind, s, j + 1)
    BY <2>5, FoldGrows
  <2> QED
    BY <2>3, <2>6
<1> QED
  BY <1>2

\* The fold, element by element.
Folded(g, kind, s, n) ==
  /\ g[0] = <<>>
  /\ \A i \in 1..n : g[i] = FoldStep(kind, g[i - 1], s[i])

LEMMA FoldedIs ==
  ASSUME NEW kind, NEW s, NEW n \in Nat, NEW t, IsFold(t, kind, s, n)
  PROVE  \E g : Folded(g, kind, s, n) /\ g[n] = t[1..n]
<1> DEFINE g == [i \in 0..n |-> t[1..i]]
<1>1. \A d \in SUBSET (1..n) : t[d] = IF d = {} THEN <<>>
                                      ELSE FoldStep(kind, t[d \ {Max(d)}], s[Max(d)])
  BY DEF IsFold
<1>2. t[1..0] = <<>>
  <2>1. 1..0 = {} /\ {} \in SUBSET (1..n)
    OBVIOUS
  <2> QED
    BY <1>1, <2>1
<1>3. ASSUME NEW i \in 1..n PROVE t[1..i] = FoldStep(kind, t[1..(i - 1)], s[i])
  <2>1. 1..i \in SUBSET (1..n) /\ 1..i # {} /\ i \in 1..i /\ i \in Nat
    OBVIOUS
  <2>2. PICK x : x = Max(1..i)
    OBVIOUS
  <2>3. x \in 1..i /\ \A y \in 1..i : x >= y
    BY <2>1, <2>2, MaxIs
  <2>4. x = i
    BY <2>1, <2>3
  <2>5. (1..i) \ {i} = 1..(i - 1)
    OBVIOUS
  <2> QED
    BY <1>1, <2>1, <2>2, <2>4, <2>5
<1>4. \A i \in 1..n : i \in 0..n /\ i - 1 \in 0..n
  OBVIOUS
<1>5. g[0] = <<>> /\ g[n] = t[1..n] /\ \A i \in 1..n : g[i] = FoldStep(kind, g[i - 1], s[i])
  BY <1>2, <1>3, <1>4
<1> QED
  BY <1>5 DEF Folded

\* Both folds, each with the table of its own steps.
LEMMA FoldIs ==
  ASSUME NEW kind \in {"dump", "normal"}, NEW s, NEW n \in Nat, DOMAIN s = 1..n
  PROVE  \E g : Folded(g, kind, s, n) /\ g[n] = FoldOf(kind, s)
<1> DEFINE D(t) == [d \in SUBSET (1..n) |->
                      IF d = {} THEN <<>> ELSE DumpStep(t[d \ {Max(d)}], s[Max(d)])]
           N(t) == [d \in SUBSET (1..n) |->
                      IF d = {} THEN <<>> ELSE NormalStep(t[d \ {Max(d)}], s[Max(d)])]
           K(t) == [d \in SUBSET (1..n) |->
                      IF d = {} THEN <<>> ELSE FoldStep(kind, t[d \ {Max(d)}], s[Max(d)])]
           B(t) == IF kind = "dump" THEN D(t) ELSE N(t)
           p == CHOOSE t : t = D(t)
           q == CHOOSE t : t = N(t)
           f == IF kind = "dump" THEN p ELSE q
<1>1. PICK t : IsFold(t, kind, s, n)
  BY FoldExists
<1>2. \A u : K(u) = B(u)
  BY DEF FoldStep
<1>3. Dump(s) = p[1..n]
  BY DEF Dump, FoldLeft, MapThenFoldSet
<1>4. Normal(s) = q[1..n]
  BY DEF Normal, FoldLeft, MapThenFoldSet
<1>5. t = K(t)
  BY <1>1 DEF IsFold
<1>6. kind = "dump" => p = D(p)
  <2> HIDE DEF D, N, K
  <2>1. kind = "dump" => t = D(t)
    BY <1>2, <1>5
  <2> QED
    BY <2>1
<1>7. kind # "dump" => q = N(q)
  <2> HIDE DEF D, N, K
  <2>1. kind # "dump" => t = N(t)
    BY <1>2, <1>5
  <2> QED
    BY <2>1
<1> HIDE DEF p, q, D, N, K
<1>8. f = K(f) /\ FoldOf(kind, s) = f[1..n]
  BY <1>2, <1>3, <1>4, <1>6, <1>7 DEF FoldOf
<1> HIDE DEF f
<1>9. IsFold(f, kind, s, n)
  BY <1>8 DEF IsFold, K
<1> QED
  BY <1>8, <1>9, FoldedIs

\* Two folds over the same steps are the same.
LEMMA FoldsAgree ==
  ASSUME NEW kind, NEW r, NEW s, NEW n \in Nat, NEW g, NEW h,
         Folded(g, kind, r, n), Folded(h, kind, s, n),
         \A i \in 1..n : \A acc : FoldStep(kind, acc, r[i]) = FoldStep(kind, acc, s[i])
  PROVE  \A i \in 0..n : g[i] = h[i]
<1> DEFINE T == {k \in 0..n : g[k] # h[k]}
<1>1. T = {}
  <2> SUFFICES ASSUME T # {} PROVE FALSE
    OBVIOUS
  <2>1. PICK k \in T : \A y \in T : k <= y
    <3>1. T \subseteq Nat
      OBVIOUS
    <3> HIDE DEF T
    <3> QED
      BY <3>1, LeastNat
  <2>2. k \in 1..n /\ g[k] # h[k] /\ k - 1 \in 0..n /\ ~(k <= k - 1)
    BY DEF Folded
  <2>3. g[k - 1] = h[k - 1]
    <3>1. k - 1 \notin T
      <4> HIDE DEF T
      <4> QED
        BY <2>1, <2>2
    <3> QED
      BY <2>2, <3>1
  <2>4. /\ g[k] = FoldStep(kind, g[k - 1], r[k])
        /\ h[k] = FoldStep(kind, h[k - 1], s[k])
    BY <2>2 DEF Folded
  <2> QED
    BY <2>2, <2>3, <2>4
<1> QED
  BY <1>1

\* A fold over one element more.
LEMMA FoldAppend ==
  ASSUME NEW kind \in {"dump", "normal"}, NEW S, NEW s \in Seq(S), NEW x \in S
  PROVE  FoldOf(kind, Append(s, x)) = FoldStep(kind, FoldOf(kind, s), x)
<1>1. PICK r, n : r = Append(s, x) /\ n = Len(s)
  OBVIOUS
<1>2. /\ n \in Nat /\ n + 1 \in Nat /\ DOMAIN s = 1..n /\ DOMAIN r = 1..(n + 1)
      /\ r[n + 1] = x /\ \A i \in 1..n : r[i] = s[i]
  BY <1>1
<1>3. PICK g : Folded(g, kind, s, n) /\ g[n] = FoldOf(kind, s)
  BY <1>2, FoldIs
<1>4. PICK h : Folded(h, kind, r, n + 1) /\ h[n + 1] = FoldOf(kind, r)
  BY <1>2, FoldIs
<1>5. \A i \in 1..n : i \in 1..(n + 1)
  BY <1>2
<1>6. Folded(h, kind, r, n)
  BY <1>4, <1>5 DEF Folded
<1>7. \A i \in 0..n : g[i] = h[i]
  BY <1>2, <1>3, <1>6, FoldsAgree
<1>8. n \in 0..n /\ n + 1 \in 1..(n + 1) /\ (n + 1) - 1 = n
  BY <1>2
<1>9. h[n + 1] = FoldStep(kind, h[n], r[n + 1])
  BY <1>4, <1>8 DEF Folded
<1> QED
  BY <1>1, <1>2, <1>3, <1>4, <1>7, <1>8, <1>9

LEMMA FoldEmpty ==
  ASSUME NEW kind \in {"dump", "normal"}
  PROVE  FoldOf(kind, <<>>) = <<>>
<1>1. DOMAIN <<>> = 1..0 /\ 0 \in Nat
  OBVIOUS
<1>2. PICK g : Folded(g, kind, <<>>, 0) /\ g[0] = FoldOf(kind, <<>>)
  BY <1>1, FoldIs
<1> QED
  BY <1>2 DEF Folded

---------------------------------------------------------------------------
(* Normal forms *)

\* The characters of sources and of dumps.
Letters == Char \cup {"#"}

\* No two neighbours cancel.
Reduced(u) ==
  /\ u \in Seq(Letters)
  /\ \A i \in 1..(Len(u) - 1) : ~Cancels(u[i], u[i + 1])

\* Every command has at most one inverse, the inverse of that.
LEMMA InverseIs ==
  /\ \A a, b : Cancels(a, b) => Cancels(b, a) /\ a \in Letters /\ b \in Letters
                                /\ a # "other" /\ b # "other"
  /\ \A a, b, c : Cancels(a, b) /\ Cancels(a, c) => b = c
<1>1. \A a, b : Cancels(a, b) <=> \/ a = "+" /\ b = "-"
                                  \/ a = "-" /\ b = "+"
                                  \/ a = ">" /\ b = "<"
                                  \/ a = "<" /\ b = ">"
  BY DEF Cancels
<1> QED
  BY <1>1 DEF Letters, Char

LEMMA FrontIs ==
  ASSUME NEW u \in Seq(Letters), u # <<>>
  PROVE  /\ Len(u) \in Nat /\ Len(u) > 0 /\ Front(u) \in Seq(Letters)
         /\ Len(Front(u)) = Len(u) - 1
         /\ \A i \in 1..(Len(u) - 1) : Front(u)[i] = u[i]
<1>1. Len(u) \in Nat /\ Len(u) > 0 /\ Len(u) - 1 \in Nat /\ Len(u) - 1 <= Len(u)
  BY EmptySeq
<1> QED
  BY <1>1, Prefix DEF Front

LEMMA StepReduced ==
  ASSUME NEW u, Reduced(u), NEW c \in Letters
  PROVE  Reduced(NormalStep(u, c))
<1>1. u \in Seq(Letters) /\ Len(u) \in Nat /\ \A i \in 1..(Len(u) - 1) : ~Cancels(u[i], u[i + 1])
  BY DEF Reduced
<1>2. CASE c = "other"
  BY <1>2 DEF NormalStep
<1>3. CASE c # "other" /\ u # <<>> /\ Cancels(Last(u), c)
  <2>1. PICK v : v = Front(u)
    OBVIOUS
  <2>2. /\ Len(u) > 0 /\ v \in Seq(Letters) /\ Len(v) = Len(u) - 1
        /\ \A i \in 1..(Len(u) - 1) : v[i] = u[i]
    BY <1>1, <1>3, <2>1, FrontIs
  <2>3. ASSUME NEW i \in 1..(Len(v) - 1) PROVE ~Cancels(v[i], v[i + 1])
    <3>1. i \in 1..(Len(u) - 1) /\ i + 1 \in 1..(Len(u) - 1)
      BY <1>1, <2>2
    <3> QED
      BY <1>1, <2>2, <3>1
  <2>4. Reduced(v)
    BY <2>2, <2>3 DEF Reduced
  <2> QED
    BY <1>3, <2>1, <2>4 DEF NormalStep
<1>4. CASE c # "other" /\ ~(u # <<>> /\ Cancels(Last(u), c))
  <2>1. PICK v : v = Append(u, c)
    OBVIOUS
  <2>2. /\ v \in Seq(Letters) /\ Len(v) = Len(u) + 1 /\ v[Len(u) + 1] = c
        /\ \A i \in 1..Len(u) : v[i] = u[i]
    BY <1>1, <2>1, AppendProperties
  <2>3. ASSUME NEW i \in 1..(Len(v) - 1) PROVE ~Cancels(v[i], v[i + 1])
    <3>1. i \in 1..Len(u)
      BY <1>1, <2>2
    <3>2. CASE i < Len(u)
      <4>1. i \in 1..(Len(u) - 1) /\ i + 1 \in 1..Len(u)
        BY <1>1, <3>1, <3>2
      <4> QED
        BY <1>1, <2>2, <3>1, <4>1
    <3>3. CASE i = Len(u)
      <4>1. u # <<>>
        BY <1>1, <3>1
      <4>2. v[i] = Last(u) /\ v[i + 1] = c
        BY <2>2, <3>1, <3>3 DEF Last
      <4> QED
        BY <1>4, <4>1, <4>2
    <3> QED
      BY <1>1, <3>1, <3>2, <3>3
  <2>4. Reduced(v)
    BY <2>2, <2>3 DEF Reduced
  <2> QED
    BY <1>4, <2>1, <2>4 DEF NormalStep
<1> QED
  BY <1>2, <1>3, <1>4

LEMMA NormalReduced ==
  ASSUME NEW s \in Seq(Letters)
  PROVE  Reduced(Normal(s))
<1>1. PICK n : n = Len(s)
  OBVIOUS
<1>2. n \in Nat /\ DOMAIN s = 1..n /\ \A i \in 1..n : s[i] \in Letters
  BY <1>1
<1>3. PICK g : Folded(g, "normal", s, n) /\ g[n] = FoldOf("normal", s)
  BY <1>2, FoldIs
<1>4. g[0] = <<>> /\ \A i \in 1..n : g[i] = NormalStep(g[i - 1], s[i])
  BY <1>3 DEF Folded, FoldStep
<1>5. Reduced(<<>>)
  <2>1. <<>> \in Seq(Letters) /\ Len(<<>>) = 0
    BY EmptySeq
  <2>2. \A i \in 1..(Len(<<>>) - 1) : FALSE
    BY <2>1
  <2> QED
    BY <2>1, <2>2 DEF Reduced
<1> DEFINE T == {k \in 0..n : ~Reduced(g[k])}
<1>6. T = {}
  <2> SUFFICES ASSUME T # {} PROVE FALSE
    OBVIOUS
  <2>1. PICK k \in T : \A y \in T : k <= y
    <3>1. T \subseteq Nat
      OBVIOUS
    <3> HIDE DEF T
    <3> QED
      BY <3>1, LeastNat
  <2>2. k \in 1..n /\ ~Reduced(g[k]) /\ k - 1 \in 0..n /\ ~(k <= k - 1)
    <3>1. k \in 0..n /\ ~Reduced(g[k]) /\ k # 0
      BY <1>4, <1>5
    <3> HIDE DEF T
    <3> QED
      BY <1>2, <3>1
  <2>3. Reduced(g[k - 1])
    <3>1. k - 1 \notin T
      <4> HIDE DEF T
      <4> QED
        BY <2>1, <2>2
    <3> QED
      BY <2>2, <3>1
  <2>4. Reduced(NormalStep(g[k - 1], s[k]))
    BY <1>2, <2>2, <2>3, StepReduced
  <2> QED
    BY <1>4, <2>2, <2>4
<1>7. Reduced(g[n])
  BY <1>2, <1>6
<1> QED
  BY <1>3, <1>7 DEF FoldOf

\* A command and its inverse behind a reduced text leave it as it was.
LEMMA StepUndone ==
  ASSUME NEW u, Reduced(u), NEW x, NEW y, Cancels(x, y)
  PROVE  NormalStep(NormalStep(u, y), x) = u
<1>1. u \in Seq(Letters) /\ Len(u) \in Nat /\ \A i \in 1..(Len(u) - 1) : ~Cancels(u[i], u[i + 1])
  BY DEF Reduced
<1>2. /\ Cancels(y, x) /\ x \in Letters /\ y \in Letters /\ x # "other" /\ y # "other"
      /\ \A z : Cancels(z, y) => z = x
      /\ \A z : Cancels(z, x) => z = y
  BY InverseIs
<1>3. CASE u # <<>> /\ Cancels(Last(u), y)
  <2>1. PICK v : v = Front(u)
    OBVIOUS
  <2>2. /\ Len(u) > 0 /\ v \in Seq(Letters) /\ Len(v) = Len(u) - 1
        /\ \A i \in 1..(Len(u) - 1) : v[i] = u[i]
    BY <1>1, <1>3, <2>1, FrontIs
  <2>3. NormalStep(u, y) = v /\ u[Len(u)] = x
    BY <1>2, <1>3, <2>1 DEF NormalStep, Last
  <2>4. ~(v # <<>> /\ Cancels(Last(v), x))
    <3> SUFFICES ASSUME v # <<>> PROVE ~Cancels(Last(v), x)
      OBVIOUS
    <3>1. Len(v) > 0
      BY <2>2, EmptySeq
    <3>2. Len(u) - 1 \in 1..(Len(u) - 1) /\ (Len(u) - 1) + 1 = Len(u)
      BY <1>1, <2>2, <3>1
    <3>3. ~Cancels(u[Len(u) - 1], u[Len(u)])
      BY <1>1, <3>2
    <3>4. Last(v) = u[Len(u) - 1]
      BY <2>2, <3>2 DEF Last
    <3> QED
      BY <2>3, <3>3, <3>4
  <2>5. NormalStep(v, x) = Append(v, x)
    BY <1>2, <2>4 DEF NormalStep
  <2>6. Append(v, x) = u
    <3>1. PICK w : w = Append(v, x)
      OBVIOUS
    <3>2. /\ w \in Seq(Letters) /\ Len(w) = Len(v) + 1 /\ w[Len(v) + 1] = x
          /\ \A i \in 1..Len(v) : w[i] = v[i]
      BY <1>2, <2>2, <3>1, AppendProperties
    <3>3. Len(w) = Len(u)
      BY <1>1, <2>2, <3>2
    <3>4. ASSUME NEW i \in 1..Len(w) PROVE w[i] = u[i]
      <4>1. i \in 1..Len(v) \/ i = Len(u)
        BY <1>1, <2>2, <3>3
      <4>2. Len(v) + 1 = Len(u) /\ Len(v) = Len(u) - 1
        BY <1>1, <2>2
      <4> QED
        BY <2>2, <2>3, <3>2, <4>1, <4>2
    <3> QED
      BY <1>1, <3>1, <3>2, <3>3, <3>4, SeqEqual
  <2> QED
    BY <2>3, <2>5, <2>6
<1>4. CASE ~(u # <<>> /\ Cancels(Last(u), y))
  <2>1. PICK v : v = Append(u, y)
    OBVIOUS
  <2>2. /\ v \in Seq(Letters) /\ v # <<>> /\ Len(v) = Len(u) + 1 /\ v[Len(u) + 1] = y
        /\ \A i \in 1..Len(u) : v[i] = u[i]
    BY <1>1, <1>2, <2>1, AppendProperties
  <2>3. NormalStep(u, y) = v
    BY <1>2, <1>4, <2>1 DEF NormalStep
  <2>4. Last(v) = y
    BY <2>2 DEF Last
  <2>5. NormalStep(v, x) = Front(v)
    BY <1>2, <2>2, <2>4 DEF NormalStep
  <2>6. Front(v) = u
    <3>1. PICK w : w = Front(v)
      OBVIOUS
    <3>2. /\ w \in Seq(Letters) /\ Len(w) = Len(v) - 1
          /\ \A i \in 1..(Len(v) - 1) : w[i] = v[i]
      BY <2>2, <3>1, FrontIs
    <3>3. Len(v) - 1 = Len(u)
      BY <1>1, <2>2
    <3>4. Len(w) = Len(u) /\ \A i \in 1..Len(w) : w[i] = u[i]
      BY <2>2, <3>2, <3>3
    <3> QED
      BY <1>1, <3>1, <3>2, <3>4, SeqEqual
  <2> QED
    BY <2>3, <2>5, <2>6
<1> QED
  BY <1>3, <1>4

---------------------------------------------------------------------------
(* Runs of equal characters *)

LEMMA PutccIs ==
  ASSUME NEW c \in Letters, NEW n \in Nat
  PROVE  /\ putcc(c, n) \in Seq(Letters) /\ Len(putcc(c, n)) = n
         /\ \A i \in 1..n : putcc(c, n)[i] = c
<1>1. PICK s : s = [j \in 1..n |-> c]
  OBVIOUS
<1>2. s \in Seq(Letters) /\ Len(s) = n /\ \A i \in 1..n : s[i] = c
  BY <1>1
<1> QED
  BY <1>1, <1>2 DEF putcc

\* n characters c behind s.
Put(s, c, n) == s \o putcc(c, n)

LEMMA PutNext ==
  ASSUME NEW s \in Seq(Letters), NEW c \in Letters, NEW n \in Nat
  PROVE  /\ Put(s, c, n) \in Seq(Letters)
         /\ Put(s, c, 0) = s
         /\ Put(s, c, n + 1) = Append(Put(s, c, n), c)
<1>1. PICK p, q, o : p = putcc(c, n) /\ q = putcc(c, n + 1) /\ o = putcc(c, 0)
  OBVIOUS
<1>2. n + 1 \in Nat /\ 0 \in Nat /\ Len(s) \in Nat
  OBVIOUS
<1>3. /\ p \in Seq(Letters) /\ Len(p) = n /\ \A i \in 1..n : p[i] = c
      /\ q \in Seq(Letters) /\ Len(q) = n + 1 /\ \A i \in 1..(n + 1) : q[i] = c
      /\ o \in Seq(Letters) /\ Len(o) = 0
  BY <1>1, <1>2, PutccIs
<1>4. PICK u, v, w : u = s \o p /\ v = s \o q /\ w = Append(u, c)
  OBVIOUS
<1>5. /\ u \in Seq(Letters) /\ Len(u) = Len(s) + n
      /\ \A i \in 1..(Len(s) + n) : u[i] = IF i <= Len(s) THEN s[i] ELSE p[i - Len(s)]
  BY <1>3, <1>4, ConcatProperties
<1>6. /\ v \in Seq(Letters) /\ Len(v) = Len(s) + (n + 1)
      /\ \A i \in 1..(Len(s) + (n + 1)) : v[i] = IF i <= Len(s) THEN s[i] ELSE q[i - Len(s)]
  BY <1>3, <1>4, ConcatProperties
<1>7. /\ w \in Seq(Letters) /\ Len(w) = Len(u) + 1 /\ w[Len(u) + 1] = c
      /\ \A i \in 1..Len(u) : w[i] = u[i]
  BY <1>4, <1>5, AppendProperties
<1>8. Len(v) = Len(w)
  BY <1>2, <1>5, <1>6, <1>7
<1>9. ASSUME NEW i \in 1..Len(v) PROVE v[i] = w[i]
  <2>1. i \in 1..(Len(s) + (n + 1)) /\ (i \in 1..(Len(s) + n) \/ i = Len(u) + 1)
    BY <1>2, <1>5, <1>6
  <2>2. CASE i <= Len(s)
    <3>1. i \in 1..(Len(s) + n) /\ i \in 1..Len(u)
      BY <1>2, <1>5, <2>1, <2>2
    <3> QED
      BY <1>5, <1>6, <1>7, <2>1, <2>2, <3>1
  <2>3. CASE ~(i <= Len(s))
    <3>1. v[i] = c
      <4>1. i - Len(s) \in 1..(n + 1)
        BY <1>2, <2>1, <2>3
      <4> QED
        BY <1>3, <1>6, <2>1, <2>3, <4>1
    <3>2. CASE i = Len(u) + 1
      BY <1>7, <3>1, <3>2
    <3>3. CASE i \in 1..(Len(s) + n)
      <4>1. i - Len(s) \in 1..n /\ i \in 1..Len(u)
        BY <1>2, <1>5, <2>3, <3>3
      <4> QED
        BY <1>3, <1>5, <1>7, <2>3, <3>1, <3>3, <4>1
    <3> QED
      BY <2>1, <3>2, <3>3
  <2> QED
    BY <2>2, <2>3
<1>10. v = w
  BY <1>6, <1>7, <1>8, <1>9, SeqEqual
<1>11. s \o o = s
  <2>1. o = <<>>
    BY <1>3, EmptySeq
  <2> QED
    BY <2>1, ConcatEmptySeq
<1> QED
  BY <1>1, <1>4, <1>5, <1>10, <1>11 DEF Put

\* The normal form of a text and one character more.
LEMMA NormalAppend ==
  ASSUME NEW s \in Seq(Letters), NEW c \in Letters
  PROVE  Normal(Append(s, c)) = NormalStep(Normal(s), c)
<1>1. "normal" \in {"dump", "normal"} /\ "normal" # "dump"
  OBVIOUS
<1>2. FoldOf("normal", Append(s, c)) = FoldStep("normal", FoldOf("normal", s), c)
  BY <1>1, FoldAppend
<1> QED
  BY <1>1, <1>2 DEF FoldOf, FoldStep

\* The same run behind texts with the same normal form.
LEMMA PutNormal ==
  ASSUME NEW s \in Seq(Letters), NEW r \in Seq(Letters), NEW c \in Letters, NEW n \in Nat,
         Normal(s) = Normal(r)
  PROVE  Normal(Put(s, c, n)) = Normal(Put(r, c, n))
<1> DEFINE T == {k \in Nat : Normal(Put(s, c, k)) # Normal(Put(r, c, k))}
<1>1. T = {}
  <2> SUFFICES ASSUME T # {} PROVE FALSE
    OBVIOUS
  <2>1. PICK k \in T : \A y \in T : k <= y
    <3>1. T \subseteq Nat
      OBVIOUS
    <3> HIDE DEF T
    <3> QED
      BY <3>1, LeastNat
  <2>2. k \in Nat /\ k # 0
    BY PutNext
  <2>3. PICK j \in Nat : k = j + 1
    <3>1. k - 1 \in Nat /\ k = (k - 1) + 1
      BY <2>2
    <3> QED
      BY <3>1
  <2>4. Normal(Put(s, c, j)) = Normal(Put(r, c, j))
    <3>1. j \notin T
      <4> HIDE DEF T
      <4>1. ~(k <= j)
        BY <2>3
      <4> QED
        BY <2>1, <4>1
    <3> QED
      BY <3>1
  <2>5. /\ Put(s, c, j) \in Seq(Letters) /\ Put(s, c, k) = Append(Put(s, c, j), c)
        /\ Put(r, c, j) \in Seq(Letters) /\ Put(r, c, k) = Append(Put(r, c, j), c)
    <3>1. Put(s, c, j) \in Seq(Letters) /\ Put(s, c, j + 1) = Append(Put(s, c, j), c)
      BY PutNext, ZenonT(40)
    <3>2. Put(r, c, j) \in Seq(Letters) /\ Put(r, c, j + 1) = Append(Put(r, c, j), c)
      BY PutNext
    <3> QED
      BY <2>3, <3>1, <3>2
  <2>6. Normal(Put(s, c, k)) = Normal(Put(r, c, k))
    BY <2>4, <2>5, NormalAppend
  <2> QED
    BY <2>6
<1> QED
  BY <1>1

\* Comments do not count.
LEMMA PutOther ==
  ASSUME NEW s \in Seq(Letters), NEW n \in Nat
  PROVE  Normal(Put(s, "other", n)) = Normal(s)
<1> DEFINE T == {k \in Nat : Normal(Put(s, "other", k)) # Normal(s)}
<1>1. "other" \in Letters
  BY DEF Letters, Char
<1>2. T = {}
  <2> SUFFICES ASSUME T # {} PROVE FALSE
    OBVIOUS
  <2>1. PICK k \in T : \A y \in T : k <= y
    <3>1. T \subseteq Nat
      OBVIOUS
    <3> HIDE DEF T
    <3> QED
      BY <3>1, LeastNat
  <2>2. k \in Nat /\ k # 0
    BY <1>1, PutNext
  <2>3. PICK j \in Nat : k = j + 1
    <3>1. k - 1 \in Nat /\ k = (k - 1) + 1
      BY <2>2
    <3> QED
      BY <3>1
  <2>4. Normal(Put(s, "other", j)) = Normal(s)
    <3>1. j \notin T
      <4> HIDE DEF T
      <4>1. ~(k <= j)
        BY <2>3
      <4> QED
        BY <2>1, <4>1
    <3> QED
      BY <3>1
  <2>5. Put(s, "other", j) \in Seq(Letters) /\ Put(s, "other", k) = Append(Put(s, "other", j), "other")
    BY <1>1, <2>3, PutNext
  <2>6. Normal(Put(s, "other", k)) = NormalStep(Normal(s), "other")
    BY <1>1, <2>4, <2>5, NormalAppend
  <2>7. Normal(Put(s, "other", k)) = Normal(s)
    BY <2>6 DEF NormalStep
  <2> QED
    BY <2>7
<1> QED
  BY <1>2

\* k times x, or its inverse y if k is negative.
Signed(s, x, y, k) == IF k < 0 THEN Put(s, y, -k) ELSE Put(s, x, k)

LEMMA SignedNext ==
  ASSUME NEW s \in Seq(Letters), NEW x, NEW y, Cancels(x, y), NEW k \in Int
  PROVE  /\ Signed(s, x, y, k) \in Seq(Letters)
         /\ Normal(Signed(s, x, y, k + 1)) = NormalStep(Normal(Signed(s, x, y, k)), x)
<1>1. x \in Letters /\ y \in Letters
  BY InverseIs
<1>2. CASE k >= 0
  <2>1. k \in Nat /\ k + 1 \in Nat /\ ~(k < 0) /\ ~(k + 1 < 0)
    BY <1>2
  <2>2. Signed(s, x, y, k) = Put(s, x, k) /\ Signed(s, x, y, k + 1) = Put(s, x, k + 1)
    BY <2>1 DEF Signed
  <2>3. Put(s, x, k) \in Seq(Letters) /\ Put(s, x, k + 1) = Append(Put(s, x, k), x)
    BY <1>1, <2>1, PutNext
  <2> QED
    BY <1>1, <2>2, <2>3, NormalAppend
<1>3. CASE k < 0
  <2>1. PICK j \in Nat : j = -k - 1
    BY <1>3
  <2>2. -k = j + 1 /\ k + 1 <= 0 /\ (k + 1 < 0 => -(k + 1) = j) /\ (k + 1 >= 0 => j = 0 /\ k + 1 = 0)
    BY <1>3, <2>1
  <2>3. /\ Put(s, y, j) \in Seq(Letters) /\ Put(s, y, j + 1) = Append(Put(s, y, j), y)
        /\ Put(s, y, 0) = s /\ Put(s, x, 0) = s
    BY <1>1, PutNext
  <2>8. Put(s, y, j + 1) \in Seq(Letters)
    <3>1. j + 1 \in Nat
      OBVIOUS
    <3> QED
      BY <1>1, <3>1, PutNext
  <2>4. Signed(s, x, y, k) = Put(s, y, j + 1)
    BY <1>3, <2>2 DEF Signed
  <2>5. Signed(s, x, y, k + 1) = Put(s, y, j)
    <3>1. CASE k + 1 < 0
      BY <2>2, <3>1 DEF Signed
    <3>2. CASE ~(k + 1 < 0)
      BY <2>2, <2>3, <3>2 DEF Signed
    <3> QED
      BY <3>1, <3>2
  <2>6. Reduced(Normal(Put(s, y, j)))
    BY <2>3, NormalReduced
  <2>7. Normal(Put(s, y, j + 1)) = NormalStep(Normal(Put(s, y, j)), y)
    BY <1>1, <2>3, NormalAppend
  <2> QED
    BY <2>4, <2>5, <2>6, <2>7, <2>8, StepUndone
<1> QED
  BY <1>2, <1>3

\* Merging a run of x into k times x.
LEMMA SignedMore ==
  ASSUME NEW s \in Seq(Letters), NEW x, NEW y, Cancels(x, y), NEW k \in Int, NEW n \in Nat
  PROVE  Normal(Signed(s, x, y, k + n)) = Normal(Put(Signed(s, x, y, k), x, n))
<1> DEFINE w == Signed(s, x, y, k)
           T == {j \in Nat : Normal(Signed(s, x, y, k + j)) # Normal(Put(w, x, j))}
<1>1. x \in Letters /\ w \in Seq(Letters)
  BY InverseIs, SignedNext
<1>2. w = Signed(s, x, y, k + 0)
  <2>1. k + 0 = k
    OBVIOUS
  <2> QED
    BY <2>1
<1> HIDE DEF w
<1>3. T = {}
  <2> SUFFICES ASSUME T # {} PROVE FALSE
    OBVIOUS
  <2>1. PICK j \in T : \A z \in T : j <= z
    <3>1. T \subseteq Nat
      OBVIOUS
    <3> HIDE DEF T
    <3> QED
      BY <3>1, LeastNat
  <2>2. j \in Nat /\ j # 0
    BY <1>1, <1>2, PutNext
  <2>3. PICK i \in Nat : j = i + 1
    <3>1. j - 1 \in Nat /\ j = (j - 1) + 1
      BY <2>2
    <3> QED
      BY <3>1
  <2>4. Normal(Signed(s, x, y, k + i)) = Normal(Put(w, x, i))
    <3>1. i \notin T
      <4> HIDE DEF T
      <4>1. ~(j <= i)
        BY <2>3
      <4> QED
        BY <2>1, <4>1
    <3> QED
      BY <3>1
  <2>5. k + i \in Int /\ (k + i) + 1 = k + j
    BY <2>3
  <2>6. Normal(Signed(s, x, y, k + j)) = NormalStep(Normal(Signed(s, x, y, k + i)), x)
    <3>1. Normal(Signed(s, x, y, (k + i) + 1)) = NormalStep(Normal(Signed(s, x, y, k + i)), x)
      BY <2>5, SignedNext
    <3> QED
      BY <2>5, <3>1
  <2>7. Normal(Put(w, x, j)) = NormalStep(Normal(Put(w, x, i)), x)
    <3>1. Put(w, x, i) \in Seq(Letters) /\ Put(w, x, i + 1) = Append(Put(w, x, i), x)
      BY <1>1, PutNext
    <3>2. Normal(Append(Put(w, x, i), x)) = NormalStep(Normal(Put(w, x, i)), x)
      BY <1>1, <3>1, NormalAppend
    <3> QED
      BY <2>3, <3>1, <3>2
  <2> QED
    BY <2>4, <2>6, <2>7
<1>4. Normal(Signed(s, x, y, k + n)) = Normal(Put(w, x, n))
  BY <1>3
<1> QED
  BY <1>4 DEF w

---------------------------------------------------------------------------
(* The printed text *)

LEMMA DumpOpIs ==
  ASSUME NEW op \in OpType
  PROVE  DumpOp(op) \in Seq(Letters)
<1>1. op.arg \in Int
  BY DEF OpType
<1>2. \A c \in {",", ".", "-", "+", "<", ">", "[", "]", "#"} : c \in Letters
  BY DEF Letters, Char
<1>3. ASSUME NEW c \in Letters, NEW n \in Int PROVE putcc(c, n) \in Seq(Letters)
  <2>1. CASE n \in Nat
    BY <2>1, PutccIs
  <2>2. CASE n \notin Nat
    <3>1. \A j : j \in 1..n <=> j \in 1..0
      BY <2>2
    <3>2. putcc(c, n) = putcc(c, 0)
      BY <3>1 DEF putcc
    <3> QED
      BY <3>2, PutccIs
  <2> QED
    BY <2>1, <2>2
<1>4. -op.arg \in Int
  BY <1>1
<1>5. <<"[">> \in Seq(Letters) /\ <<"]">> \in Seq(Letters)
  <2>1. ASSUME NEW c \in Letters PROVE <<c>> \in Seq(Letters)
    OBVIOUS
  <2> QED
    BY <1>2, <2>1
<1>6. CASE op.kind = "read"
  BY <1>1, <1>2, <1>3, <1>6 DEF DumpOp
<1>7. CASE op.kind = "write"
  BY <1>1, <1>2, <1>3, <1>7 DEF DumpOp
<1>8. CASE op.kind = "cell"
  <2>1. DumpOp(op) = IF op.arg < 0 THEN putcc("-", -op.arg) ELSE putcc("+", op.arg)
    BY <1>8 DEF DumpOp
  <2>2. putcc("-", -op.arg) \in Seq(Letters) /\ putcc("+", op.arg) \in Seq(Letters)
    BY <1>1, <1>2, <1>3, <1>4
  <2> QED
    BY <2>1, <2>2
<1>9. CASE op.kind = "tape"
  <2>1. DumpOp(op) = IF op.arg < 0 THEN putcc("<", -op.arg) ELSE putcc(">", op.arg)
    BY <1>9 DEF DumpOp
  <2>2. putcc("<", -op.arg) \in Seq(Letters) /\ putcc(">", op.arg) \in Seq(Letters)
    BY <1>1, <1>2, <1>3, <1>4
  <2> QED
    BY <2>1, <2>2
<1>10. CASE op.kind = "loop_start"
  BY <1>5, <1>10 DEF DumpOp
<1>11. CASE op.kind = "loop_end"
  BY <1>5, <1>11 DEF DumpOp
<1>12. CASE op.kind \notin {"read", "write", "cell", "tape", "loop_start", "loop_end"}
  <2>1. DumpOp(op) = putcc("#", op.arg)
    BY <1>12 DEF DumpOp
  <2> QED
    BY <1>1, <1>2, <1>3, <2>1
<1> QED
  BY <1>6, <1>7, <1>8, <1>9, <1>10, <1>11, <1>12

LEMMA DumpType ==
  ASSUME NEW s \in Seq(OpType)
  PROVE  Dump(s) \in Seq(Letters)
<1>1. PICK n : n = Len(s)
  OBVIOUS
<1>2. n \in Nat /\ DOMAIN s = 1..n /\ \A i \in 1..n : s[i] \in OpType
  BY <1>1
<1>3. PICK g : Folded(g, "dump", s, n) /\ g[n] = FoldOf("dump", s)
  BY <1>2, FoldIs
<1>4. g[0] = <<>> /\ \A i \in 1..n : g[i] = g[i - 1] \o DumpOp(s[i])
  BY <1>3 DEF Folded, FoldStep, DumpStep
<1> DEFINE T == {k \in 0..n : g[k] \notin Seq(Letters)}
<1>5. T = {}
  <2> SUFFICES ASSUME T # {} PROVE FALSE
    OBVIOUS
  <2>1. PICK k \in T : \A y \in T : k <= y
    <3>1. T \subseteq Nat
      OBVIOUS
    <3> HIDE DEF T
    <3> QED
      BY <3>1, LeastNat
  <2>2. k \in 1..n /\ g[k] \notin Seq(Letters) /\ k - 1 \in 0..n /\ ~(k <= k - 1)
    <3>1. k \in 0..n /\ g[k] \notin Seq(Letters) /\ k # 0
      <4>1. <<>> \in Seq(Letters)
        BY EmptySeq
      <4> QED
        BY <1>4, <4>1
    <3> HIDE DEF T
    <3> QED
      BY <1>2, <3>1
  <2>3. g[k - 1] \in Seq(Letters)
    <3>1. k - 1 \notin T
      <4> HIDE DEF T
      <4> QED
        BY <2>1, <2>2
    <3> QED
      BY <2>2, <3>1
  <2>4. DumpOp(s[k]) \in Seq(Letters)
    BY <1>2, <2>2, DumpOpIs
  <2>5. g[k - 1] \o DumpOp(s[k]) \in Seq(Letters)
    BY <2>3, <2>4, ConcatProperties
  <2> QED
    BY <1>4, <2>2, <2>5
<1>6. g[n] \in Seq(Letters)
  BY <1>2, <1>5
<1> QED
  BY <1>3, <1>6 DEF FoldOf

LEMMA DumpAppend ==
  ASSUME NEW s \in Seq(OpType), NEW op \in OpType
  PROVE  Dump(Append(s, op)) = Dump(s) \o DumpOp(op)
<1>1. FoldOf("dump", Append(s, op)) = FoldStep("dump", FoldOf("dump", s), op)
  BY FoldAppend
<1> QED
  BY <1>1 DEF FoldOf, FoldStep, DumpStep

\* Operations that are printed alike make the same text.
LEMMA DumpSame ==
  ASSUME NEW r \in Seq(OpType), NEW s \in Seq(OpType), Len(r) = Len(s),
         \A i \in 1..Len(s) : DumpOp(r[i]) = DumpOp(s[i])
  PROVE  Dump(r) = Dump(s)
<1>1. PICK n : n = Len(s)
  OBVIOUS
<1>2. n \in Nat /\ DOMAIN s = 1..n /\ DOMAIN r = 1..n /\ n \in 0..n
  BY <1>1
<1>3. PICK kind \in {"dump", "normal"} : kind = "dump"
  OBVIOUS
<1>4. PICK g : Folded(g, kind, r, n) /\ g[n] = FoldOf(kind, r)
  BY <1>2, FoldIs
<1>5. PICK h : Folded(h, kind, s, n) /\ h[n] = FoldOf(kind, s)
  BY <1>2, FoldIs
<1>6. \A i \in 1..n : \A acc : FoldStep(kind, acc, r[i]) = FoldStep(kind, acc, s[i])
  BY <1>1, <1>3 DEF FoldStep, DumpStep
<1>7. \A i \in 0..n : g[i] = h[i]
  BY <1>2, <1>4, <1>5, <1>6, FoldsAgree
<1> QED
  BY <1>2, <1>3, <1>4, <1>5, <1>7 DEF FoldOf

\* Two IRs that differ in the last operation only.
LEMMA SplitLast ==
  ASSUME NEW r \in Seq(OpType), NEW s \in Seq(OpType), NEW n, Len(r) = n, Len(s) = n, n > 0,
         \A i \in 1..(n - 1) : r[i] = s[i]
  PROVE  \E w \in Seq(OpType) : s = Append(w, s[n]) /\ r = Append(w, r[n])
<1>1. PICK w : w = SubSeq(s, 1, n - 1)
  OBVIOUS
<1>2. n \in Nat /\ n - 1 \in Nat /\ n - 1 <= n /\ n > 0 /\ s[n] \in OpType /\ r[n] \in OpType
  BY <1>1
<1>3. w \in Seq(OpType) /\ Len(w) = n - 1 /\ \A i \in 1..(n - 1) : w[i] = s[i]
  BY <1>1, <1>2, Prefix
<1>4. ASSUME NEW u \in Seq(OpType), Len(u) = n, \A i \in 1..(n - 1) : u[i] = s[i]
      PROVE  u = Append(w, u[n])
  <2>1. u[n] \in OpType
    BY <1>2, <1>4
  <2>2. PICK v : v = Append(w, u[n])
    OBVIOUS
  <2>3. v \in Seq(OpType) /\ Len(v) = Len(w) + 1 /\ v[Len(w) + 1] = u[n] /\ \A i \in 1..Len(w) : v[i] = w[i]
    BY <1>3, <2>1, <2>2, AppendProperties
  <2>4. Len(v) = n /\ Len(w) + 1 = n
    BY <1>2, <1>3, <2>3
  <2>5. ASSUME NEW i \in 1..Len(u) PROVE u[i] = v[i]
    <3>1. i \in 1..(n - 1) \/ i = n
      BY <1>2, <1>4
    <3> QED
      BY <1>3, <1>4, <2>3, <2>4, <3>1
  <2> QED
    BY <1>4, <2>2, <2>3, <2>4, <2>5, SeqEqual
<1>5. s = Append(w, s[n]) /\ r = Append(w, r[n])
  BY <1>4
<1> QED
  BY <1>3, <1>5

---------------------------------------------------------------------------
(* The text that was read *)

\* What is dropped does not count.
LEMMA EffectiveSkip ==
  ASSUME NEW a \in Nat, NEW e \in Nat, a <= e, \A i \in (a + 1)..e : ~Live(file, i)
  PROVE  Effective(e) = Effective(a)
<1>1. \A i \in 1..e : i \in 1..a \/ i \in (a + 1)..e
  OBVIOUS
<1>2. \A i \in 1..a : i \in 1..e
  OBVIOUS
<1>3. Kept(file, e) = Kept(file, a)
  BY <1>1, <1>2 DEF Kept
<1> QED
  BY <1>3, EffectiveForm

LEMMA EffectiveType ==
  ASSUME file \in Seq(Char), NEW n \in Nat, n <= Len(file)
  PROVE  Effective(n) \in Seq(Letters)
<1>1. PICK f, t : f = file /\ t = Effective(n)
  OBVIOUS
<1>2. t \in Seq(Char)
  <2>1. f \in Seq(Char) /\ n <= Len(f)
    BY <1>1
  <2> QED
    BY <1>1, <2>1, EffectiveChars
<1>3. Len(t) \in Nat /\ \A i \in 1..Len(t) : t[i] \in Letters
  BY <1>2 DEF Letters
<1>4. t \in Seq(Letters)
  BY <1>2, <1>3
<1> QED
  BY <1>1, <1>4

\* One live character more.
LEMMA EffectiveNext ==
  ASSUME file \in Seq(Char), NEW n \in Nat, n + 1 <= Len(file), Live(file, n + 1)
  PROVE  Effective(n + 1) = Append(Effective(n), file[n + 1])
<1>1. PICK f, s, t, m, c : /\ f = file /\ s = Effective(n) /\ t = Effective(n + 1)
                           /\ m = Cardinality(Kept(f, n)) /\ c = f[n + 1]
  OBVIOUS
<1>2. n + 1 \in Nat /\ n <= Len(f) /\ n + 1 \in 1..Len(f) /\ Len(f) \in Nat
  BY <1>1
<1>3. c \in Char
  BY <1>1, <1>2
<1>4. /\ s \in Seq(Char) /\ Len(s) = m
      /\ \A i \in Kept(f, n) : s[Cardinality(Kept(f, i))] = f[i]
  <2>1. f \in Seq(Char) /\ n <= Len(f)
    BY <1>1, <1>2
  <2>2. s \in Seq(Char) /\ Len(s) = Cardinality(Kept(f, n))
    BY <1>1, <2>1, EffectiveReads, EffectiveChars
  <2>3. ASSUME NEW i \in Kept(f, n) PROVE s[Cardinality(Kept(f, i))] = f[i]
    BY <1>1, <2>3, EffectiveAt
  <2> QED
    BY <1>1, <2>2, <2>3
<1>5. /\ t \in Seq(Char) /\ Len(t) = Cardinality(Kept(f, n + 1))
      /\ \A i \in Kept(f, n + 1) : t[Cardinality(Kept(f, i))] = f[i]
  <2>1. f \in Seq(Char) /\ n + 1 <= Len(f)
    BY <1>1
  <2>2. t \in Seq(Char) /\ Len(t) = Cardinality(Kept(f, n + 1))
    BY <1>1, <1>2, <2>1, EffectiveReads, EffectiveChars
  <2>3. ASSUME NEW i \in Kept(f, n + 1) PROVE t[Cardinality(Kept(f, i))] = f[i]
    BY <1>1, <1>2, <2>3, EffectiveAt
  <2> QED
    BY <2>2, <2>3
<1>6. m \in Nat /\ Cardinality(Kept(f, n + 1)) = m + 1
  BY <1>1, KeptFinite, KeptNext
<1>7. t[m + 1] = c
  <2>1. n + 1 \in Kept(f, n + 1)
    BY <1>1 DEF Kept
  <2> QED
    BY <1>1, <1>5, <1>6, <2>1
<1>8. ASSUME NEW k \in 1..m PROVE t[k] = s[k]
  <2>1. PICK i \in Kept(f, n) : Cardinality(Kept(f, i)) = k
    BY <1>1, KeptAll
  <2>2. i \in Kept(f, n + 1)
    <3>1. i \in 1..n /\ i \in 1..(n + 1) /\ Live(f, i)
      BY DEF Kept
    <3> QED
      BY <3>1 DEF Kept
  <2> QED
    BY <1>4, <1>5, <2>1, <2>2
<1>9. PICK u : u = Append(s, c)
  OBVIOUS
<1>10. u \in Seq(Char) /\ Len(u) = m + 1 /\ u[m + 1] = c /\ \A i \in 1..m : u[i] = s[i]
  BY <1>3, <1>4, <1>9, AppendProperties
<1>11. ASSUME NEW i \in 1..Len(t) PROVE t[i] = u[i]
  <2>1. i \in 1..m \/ i = m + 1
    BY <1>5, <1>6
  <2> QED
    BY <1>7, <1>8, <1>10, <2>1
<1>12. t = u
  BY <1>5, <1>6, <1>10, <1>11, SeqEqual
<1> QED
  BY <1>1, <1>9, <1>12

\* A run more.
LEMMA EffectiveRun ==
  ASSUME file \in Seq(Char), NEW a \in Nat, NEW n \in Nat, a + n <= Len(file),
         NEW c \in Letters, LiveRun(file, c, a, n)
  PROVE  Effective(a + n) = Put(Effective(a), c, n)
<1>1. PICK s : s = Effective(a)
  OBVIOUS
<1>2. s \in Seq(Letters)
  <2>1. a <= Len(file)
    OBVIOUS
  <2> QED
    BY <1>1, <2>1, EffectiveType
<1> DEFINE T == {k \in 0..n : Effective(a + k) # Put(s, c, k)}
<1>3. T = {}
  <2> SUFFICES ASSUME T # {} PROVE FALSE
    OBVIOUS
  <2>1. PICK k \in T : \A y \in T : k <= y
    <3>1. T \subseteq Nat
      OBVIOUS
    <3> HIDE DEF T
    <3> QED
      BY <3>1, LeastNat
  <2>2. k \in 0..n /\ Effective(a + k) # Put(s, c, k)
    BY <2>1
  <2>3. k # 0
    <3>1. a + 0 = a /\ 0 \in Nat
      OBVIOUS
    <3>2. Put(s, c, 0) = s
      BY <1>2, <3>1, PutNext
    <3> QED
      BY <1>1, <2>2, <3>1, <3>2
  <2>4. PICK j \in 0..n : k = j + 1
    <3>1. k - 1 \in 0..n /\ k = (k - 1) + 1
      BY <2>2, <2>3
    <3> QED
      BY <3>1
  <2>5. Effective(a + j) = Put(s, c, j)
    <3>1. j \notin T
      <4> HIDE DEF T
      <4>1. ~(k <= j)
        BY <2>4
      <4> QED
        BY <2>1, <4>1
    <3> QED
      BY <3>1
  <2>6. PICK b \in Nat : b = a + j
    BY <2>4
  <2>7. b + 1 = a + k /\ b + 1 <= Len(file) /\ k \in 1..n
    <3>1. Len(file) \in Nat
      OBVIOUS
    <3> QED
      BY <2>2, <2>3, <2>4, <2>6, <3>1
  <2>8. Live(file, b + 1) /\ file[b + 1] = c
    BY <2>7 DEF LiveRun
  <2>9. Effective(b + 1) = Append(Effective(b), c)
    BY <2>7, <2>8, EffectiveNext
  <2>10. Put(s, c, j + 1) = Append(Put(s, c, j), c)
    <3>1. j \in Nat
      BY <2>4
    <3> QED
      BY <1>2, <3>1, PutNext
  <2> QED
    BY <2>2, <2>4, <2>5, <2>6, <2>7, <2>9, <2>10
<1>4. Effective(a + n) = Put(s, c, n)
  BY <1>3
<1> QED
  BY <1>1, <1>4

---------------------------------------------------------------------------
(* The dump of what was read *)

\* What ir_ctx_dump_bf prints stands for the text that was read, and what
\* is behind it in the chunk is dropped when ir_ctx_parse returns.
DumpInv ==
  /\ DumpsSource
  /\ pc = "read" => \A i \in (Offset + 1)..fpos : ~Live(file, i)

LEMMA DumpsIs == DumpsSource <=> Normal(Dump(ir)) = Normal(Effective(Offset))
BY DEF DumpsSource, ir_ctx_dump_bf, Dump

\* A step that reads up to n and leaves r.
LEMMA DumpNext ==
  ASSUME file' = file, NEW n, Offset' = n, NEW r, ir' = r, pc' # "read",
         Normal(Dump(r)) = Normal(Effective(n))
  PROVE  DumpInv'
<1>1. Effective(Offset)' = Effective(n)
  BY DEF Effective, ChunkStart
<1>2. Normal(Effective(Offset))' = Normal(Effective(n))
  BY <1>1 DEF Normal
<1>3. Normal(Dump(ir))' = Normal(Dump(r))
  BY DEF Normal, Dump
<1>4. DumpsSource'
  BY <1>2, <1>3 DEF DumpsSource, ir_ctx_dump_bf, Dump
<1> QED
  BY <1>4 DEF DumpInv

\* The run at ptr.
LEMMA RunRest ==
  ASSUME IInv, ReadInv, DumpInv, pc = "parse", NEW c \in Letters, c # "nul",
         NEW count \in 1..(Len(buffer) - ptr), \A i \in 1..count : buffer[ptr + i] = c,
         ptr' = ptr + count, UNCHANGED <<file, fpos, buffer>>
  PROVE  \E n \in Nat : /\ Offset' = n /\ count \in Nat
                        /\ Dump(ir) \in Seq(Letters)
                        /\ Normal(Put(Dump(ir), c, count)) = Normal(Effective(n))
                        /\ Normal(Effective(n)) = Normal(Put(Effective(Offset), c, count))
                        /\ Effective(Offset) \in Seq(Letters)
<1>1. TypeOK /\ file \in Seq(Char) /\ ir \in Seq(OpType)
  BY DEF IInv, TypeOK
<1>2. /\ Offset \in Nat /\ count \in Nat /\ count > 0 /\ Offset + count <= Len(file)
      /\ LiveRun(file, c, Offset, count)
  BY <1>1, RunIs
<1>3. PICK a \in Nat : a = Offset
  BY <1>2
<1>4. Effective(a + count) = Put(Effective(a), c, count)
  BY <1>1, <1>2, <1>3, EffectiveRun
<1>5. Effective(a) \in Seq(Letters)
  <2>1. a <= Len(file)
    BY <1>1, <1>2, <1>3
  <2> QED
    BY <1>1, <2>1, EffectiveType
<1>6. Dump(ir) \in Seq(Letters)
  BY <1>1, DumpType
<1>7. Normal(Dump(ir)) = Normal(Effective(a))
  BY <1>3, DumpsIs DEF DumpInv
<1>8. Normal(Put(Dump(ir), c, count)) = Normal(Put(Effective(a), c, count))
  BY <1>2, <1>5, <1>6, <1>7, PutNormal
<1>9. Offset' = a + count /\ a + count \in Nat
  <2>1. ptr \in Nat /\ fpos \in Nat /\ Len(buffer) \in Nat
    BY <1>1 DEF TypeOK
  <2> QED
    BY <1>2, <1>3, <2>1 DEF Offset
<1> QED
  BY <1>2, <1>3, <1>4, <1>5, <1>6, <1>8, <1>9

LEMMA PushRunDump ==
  ASSUME IInv, ReadInv, DumpInv, NEW c, NEW kind, PushRun(c, kind), PushedAs(c, kind)
  PROVE  DumpInv'
<1>1. PICK count \in 1..(Len(buffer) - ptr) :
        count_char(c, count) /\ Push(kind, count) /\ ptr' = ptr + count
  BY DEF PushRun
<1>2. /\ pc = "parse" /\ UNCHANGED <<file, fpos, buffer, patch, pc>>
      /\ c # "nul" /\ c \in Letters /\ kind \in Kind
  BY DEF PushRun, PushedAs, Letters, Char, Kind
<1>3. \A i \in 1..count : buffer[ptr + i] = c
  BY <1>1 DEF count_char
<1>4. PICK n \in Nat : /\ Offset' = n /\ count \in Nat
                       /\ Normal(Put(Dump(ir), c, count)) = Normal(Effective(n))
  BY <1>1, <1>2, <1>3, RunRest
<1>5. PICK op, r : op = Op(kind, count) /\ r = ir'
  OBVIOUS
<1>6. op \in OpType /\ r = Append(ir, op)
  BY <1>1, <1>2, <1>4, <1>5 DEF Push, Op, OpType
<1>7. DumpOp(op) = putcc(c, count)
  <2>1. op.kind = kind /\ op.arg = count
    BY <1>5, OpFields
  <2> QED
    BY <2>1 DEF DumpOp, PushedAs
<1>8. ir \in Seq(OpType)
  BY DEF IInv, TypeOK
<1>9. Dump(r) = Put(Dump(ir), c, count)
  BY <1>6, <1>7, <1>8, DumpAppend DEF Put
<1> QED
  BY <1>2, <1>4, <1>5, <1>9, DumpNext

\* The operation that '+', '-', '>' or '<' is counted in, behind w.
LEMMA AddedDump ==
  ASSUME NEW c, NEW kind, NEW sign, AddedAs(c, kind, sign)
  PROVE  \E d : /\ Cancels(c, d)
                /\ \A k \in Int, op \in OpType, w \in Seq(Letters) :
                     (op.kind = kind /\ op.arg = sign * k) =>
                       w \o DumpOp(op) = Signed(w, c, d, k)
<1>1. PICK x, y : \/ x = "+" /\ y = "-" /\ kind = "cell"
                  \/ x = ">" /\ y = "<" /\ kind = "tape"
  BY DEF AddedAs
<1>2. \/ c = x /\ sign = 1
      \/ c = y /\ sign = -1
  <2>1. CASE kind = "cell"
    BY <1>1, <2>1 DEF AddedAs
  <2>2. CASE kind = "tape"
    BY <1>1, <2>2 DEF AddedAs
  <2> QED
    BY <1>1, <2>1, <2>2
<1>3. Cancels(x, y) /\ Cancels(y, x)
  BY <1>1 DEF Cancels
<1>4. ASSUME NEW op \in OpType, op.kind = kind
      PROVE  op.arg \in Int /\ DumpOp(op) = IF op.arg < 0 THEN putcc(y, -op.arg) ELSE putcc(x, op.arg)
  <2>1. op.arg \in Int
    BY DEF OpType
  <2>2. CASE kind = "cell"
    BY <1>1, <1>4, <2>1, <2>2 DEF DumpOp
  <2>3. CASE kind = "tape"
    BY <1>1, <1>4, <2>1, <2>3 DEF DumpOp
  <2> QED
    BY <1>1, <2>1, <2>2, <2>3
<1>5. CASE c = x /\ sign = 1
  <2>1. ASSUME NEW k \in Int, NEW op \in OpType, NEW w, op.kind = kind, op.arg = sign * k
        PROVE  w \o DumpOp(op) = Signed(w, c, y, k)
    <3>1. op.arg = k
      BY <1>5, <2>1
    <3> QED
      BY <1>4, <1>5, <2>1, <3>1 DEF Signed, Put
  <2> QED
    BY <1>3, <1>5, <2>1
<1>6. CASE c = y /\ sign = -1
  <2>1. ASSUME NEW k \in Int, NEW op \in OpType, NEW w \in Seq(Letters), op.kind = kind,
               op.arg = sign * k
        PROVE  w \o DumpOp(op) = Signed(w, c, x, k)
    <3>1. op.arg = -k /\ -op.arg = k
      BY <1>6, <2>1
    <3>2. x \in Letters /\ y \in Letters
      BY <1>3, InverseIs
    <3>3. CASE k = 0
      <4>1. op.arg = 0
        BY <3>1, <3>3
      <4>2. w \o DumpOp(op) = Put(w, x, 0)
        BY <1>4, <2>1, <4>1 DEF Put
      <4>3. Signed(w, c, x, k) = Put(w, c, 0)
        BY <3>3 DEF Signed
      <4>4. 0 \in Nat
        OBVIOUS
      <4>5. Put(w, x, 0) = w /\ Put(w, c, 0) = w
        BY <1>6, <3>2, <4>4, PutNext
      <4> QED
        BY <4>2, <4>3, <4>5
    <3>4. CASE k < 0
      <4>1. ~(op.arg < 0)
        BY <3>1, <3>4
      <4>2. DumpOp(op) = putcc(x, -k)
        BY <1>4, <2>1, <3>1, <4>1
      <4> QED
        BY <3>4, <4>2 DEF Signed, Put
    <3>5. CASE k > 0
      <4>1. op.arg < 0 /\ ~(k < 0)
        BY <3>1, <3>5
      <4>2. DumpOp(op) = putcc(y, k)
        BY <1>4, <2>1, <3>1, <4>1
      <4> QED
        BY <1>6, <4>1, <4>2 DEF Signed, Put
    <3> QED
      BY <3>3, <3>4, <3>5
  <2> QED
    BY <1>3, <1>6, <2>1
<1> QED
  BY <1>2, <1>5, <1>6

LEMMA AddRunDump ==
  ASSUME IInv, ReadInv, DumpInv, NEW c, NEW kind, NEW sign,
         AddRun(c, kind, sign), AddedAs(c, kind, sign)
  PROVE  DumpInv'
<1>1. PICK count \in 1..(Len(buffer) - ptr) :
        /\ count_char(c, count) /\ ptr' = ptr + count
        /\ IF LastIs(kind) THEN MergeLast(sign * count) ELSE Push(kind, sign * count)
  BY DEF AddRun
<1>2. /\ pc = "parse" /\ UNCHANGED <<file, fpos, buffer, patch, pc>>
      /\ c # "nul" /\ c \in Letters /\ kind \in Kind /\ sign \in {1, -1}
  BY DEF AddRun, AddedAs, Letters, Char, Kind
<1>3. \A i \in 1..count : buffer[ptr + i] = c
  BY <1>1 DEF count_char
<1>4. PICK n \in Nat : /\ Offset' = n /\ count \in Nat
                       /\ Dump(ir) \in Seq(Letters)
                       /\ Normal(Put(Dump(ir), c, count)) = Normal(Effective(n))
  BY <1>1, <1>2, <1>3, RunRest
<1>5. PICK d : /\ Cancels(c, d)
               /\ \A k \in Int, op \in OpType, w \in Seq(Letters) :
                    (op.kind = kind /\ op.arg = sign * k) => w \o DumpOp(op) = Signed(w, c, d, k)
  BY AddedDump
<1>6. ir \in Seq(OpType) /\ count \in Int /\ count >= 0
  BY <1>4 DEF IInv, TypeOK
<1>7. PICK s, r, l : s = ir /\ r = ir' /\ l = Len(ir)
  OBVIOUS
<1>8. PICK delta \in Int : /\ delta = sign * count
                           /\ sign = 1 => delta = count
                           /\ sign = -1 => delta = -count
  BY <1>2, <1>6
<1>9. CASE LastIs(kind)
  <2>1. l > 0 /\ l \in Nat /\ s[l].kind = kind /\ r = [s EXCEPT ![Len(s)].arg = @ + delta]
    BY <1>1, <1>6, <1>7, <1>8, <1>9 DEF LastIs, MergeLast
  <2>2. r \in Seq(OpType) /\ Len(r) = l /\ r[l].kind = kind /\ \A i \in 1..(l - 1) : r[i] = s[i]
    <3>1. /\ s \in Seq(OpType) /\ Len(s) = l /\ l \in Nat /\ l > 0 /\ delta \in Int
          /\ r = [s EXCEPT ![Len(s)].arg = @ + delta] /\ s[l].kind = kind
      BY <1>6, <1>7, <2>1
    <3> QED
      BY ONLY <3>1, AddToLast, SMTT(40)
  <2>3. s[l].arg \in Int /\ r[l].arg = s[l].arg + delta
    <3>1. Merges(r, s, delta) /\ l \in Nat \ {0} /\ Len(s) = l /\ s \in Seq(OpType)
      BY <1>6, <1>7, <2>1 DEF Merges
    <3> QED
      BY <3>1, MergeFacts
  <2>4. PICK w \in Seq(OpType) : s = Append(w, s[l]) /\ r = Append(w, r[l])
    <3>1. s \in Seq(OpType) /\ Len(s) = l /\ l > 0
      BY <1>6, <1>7, <2>1
    <3> QED
      BY ONLY <2>2, <3>1, SplitLast, ZenonT(60)
  <2>5. PICK p, q : p = s[l] /\ q = r[l]
    OBVIOUS
  <2>6. p \in OpType /\ q \in OpType /\ p.kind = kind /\ q.kind = kind /\ p.arg \in Int
        /\ q.arg = p.arg + delta
    <3>1. s \in Seq(OpType) /\ Len(s) = l /\ l \in 1..l
      <4>1. s \in Seq(OpType) /\ Len(s) = l
        BY <1>6, <1>7
      <4>2. l \in 1..l
        BY ONLY <2>1
      <4> QED
        BY <4>1, <4>2
    <3>2. s[l] \in OpType /\ r[l] \in OpType
      BY ONLY <2>2, <3>1
    <3> QED
      BY <2>1, <2>2, <2>3, <2>5, <3>2
  <2>7. PICK k \in Int : p.arg = sign * k
    <3>1. CASE sign = 1
      <4>1. p.arg = 1 * p.arg
        BY <2>6
      <4> QED
        BY <2>6, <3>1, <4>1
    <3>2. CASE sign = -1
      <4>1. -p.arg \in Int /\ p.arg = (-1) * (-p.arg)
        BY <2>6
      <4> QED
        BY <3>2, <4>1
    <3> QED
      BY <1>2, <3>1, <3>2
  <2>8. q.arg = sign * (k + count) /\ k + count \in Int
    <3>1. CASE sign = 1
      BY <1>6, <1>8, <2>6, <2>7, <3>1
    <3>2. CASE sign = -1
      BY <1>6, <1>8, <2>6, <2>7, <3>2
    <3> QED
      BY <1>2, <3>1, <3>2
  <2>9. PICK v \in Seq(Letters) : v = Dump(w)
    BY DumpType
  <2>10. Dump(s) = Signed(v, c, d, k)
    <3>1. Dump(s) = v \o DumpOp(p)
      BY <2>4, <2>5, <2>6, <2>9, DumpAppend
    <3> QED
      BY <1>5, <2>6, <2>7, <2>9, <3>1
  <2>11. Dump(r) = Signed(v, c, d, k + count)
    <3>1. Dump(r) = v \o DumpOp(q)
      BY <2>4, <2>5, <2>6, <2>9, DumpAppend
    <3> QED
      BY <1>5, <2>6, <2>8, <2>9, <3>1
  <2>12. Normal(Dump(r)) = Normal(Put(Dump(s), c, count))
    BY <1>4, <1>5, <2>10, <2>11, SignedMore
  <2> QED
    BY <1>2, <1>4, <1>7, <2>12, DumpNext
<1>10. CASE ~LastIs(kind)
  <2>1. PICK op : op = Op(kind, delta)
    OBVIOUS
  <2>2. op \in OpType /\ r = Append(s, op) /\ op.kind = kind /\ op.arg = sign * count
    BY <1>1, <1>2, <1>7, <1>8, <1>10, <2>1 DEF Push, Op, OpType
  <2>3. Dump(r) = Signed(Dump(s), c, d, count)
    BY <1>4, <1>5, <1>6, <1>7, <2>2, DumpAppend
  <2>4. Dump(r) = Put(Dump(s), c, count)
    BY <1>6, <2>3 DEF Signed
  <2> QED
    BY <1>2, <1>4, <1>7, <2>4, DumpNext
<1> QED
  BY <1>9, <1>10

\* A bracket at ptr.
LEMMA BracketRest ==
  ASSUME IInv, ReadInv, DumpInv, pc = "parse", NEW c \in {"[", "]"}, At(c),
         ptr' = ptr + 1, UNCHANGED <<file, fpos, buffer>>
  PROVE  \E n \in Nat : /\ Offset' = n
                        /\ Normal(Dump(ir) \o <<c>>) = Normal(Effective(n))
<1>1. TypeOK
  BY DEF IInv
<1>2. ptr \in Nat /\ Len(buffer) \in Nat /\ ptr < Len(buffer) /\ buffer[ptr + 1] = c
  BY <1>1 DEF TypeOK, At
<1>3. PICK count \in 1..(Len(buffer) - ptr) : count = 1
  BY <1>2
<1>4. \A i \in 1..count : buffer[ptr + i] = c
  BY <1>2, <1>3
<1>5. c \in Letters /\ c # "nul" /\ ptr' = ptr + count
  BY <1>3 DEF Letters, Char
<1>6. PICK n \in Nat : Offset' = n /\ Normal(Put(Dump(ir), c, count)) = Normal(Effective(n))
  BY <1>4, <1>5, RunRest
<1>7. putcc(c, 1) = <<c>>
  BY DEF putcc
<1> QED
  BY <1>3, <1>6, <1>7 DEF Put

LEMMA LoopStartDump ==
  ASSUME IInv, ReadInv, DumpInv, ParseLoopStart
  PROVE  DumpInv'
<1>1. /\ pc = "parse" /\ At("[") /\ ptr' = ptr + 1 /\ UNCHANGED <<file, fpos, buffer, pc>>
      /\ Push("loop_start", 0)
  BY DEF ParseLoopStart
<1>2. PICK n \in Nat : Offset' = n /\ Normal(Dump(ir) \o <<"[">>) = Normal(Effective(n))
  BY <1>1, BracketRest
<1>3. PICK op, r : op = Op("loop_start", 0) /\ r = ir'
  OBVIOUS
<1>4. op \in OpType /\ r = Append(ir, op) /\ ir \in Seq(OpType)
  BY <1>1, <1>3 DEF Push, Op, OpType, Kind, IInv, TypeOK
<1>5. DumpOp(op) = <<"[">>
  <2>1. op.kind = "loop_start"
    BY <1>3, OpFields
  <2> QED
    BY <2>1 DEF DumpOp
<1>6. Dump(r) = Dump(ir) \o <<"[">>
  BY <1>4, <1>5, DumpAppend
<1> QED
  BY <1>1, <1>2, <1>3, <1>6, DumpNext

LEMMA LoopEndDump ==
  ASSUME IInv, ReadInv, DumpInv, ParseLoopEnd
  PROVE  DumpInv'
<1>1. PICK addr, delta : addr = Innermost /\ delta = Delta(addr)
  OBVIOUS
<1>2. /\ pc = "parse" /\ At("]") /\ ptr' = ptr + 1 /\ UNCHANGED <<file, fpos, buffer, pc>>
      /\ Len(patch) > 0
      /\ ir' = Append([ir EXCEPT ![addr + 1] = Op("loop_start", delta)], Op("loop_end", -delta))
  BY <1>1 DEF ParseLoopEnd
<1>3. PICK n \in Nat : Offset' = n /\ Normal(Dump(ir) \o <<"]">>) = Normal(Effective(n))
  BY <1>2, BracketRest
<1>4. ir \in Seq(OpType) /\ patch \in Seq(Nat) /\ Len(ir) \in Nat
  BY DEF IInv, TypeOK
<1>5. addr \in 0..(Len(ir) - 1) /\ ir[addr + 1] = Op("loop_start", 0) /\ delta \in Int
  <2>1. Len(patch) \in 1..Len(patch) /\ patch[Len(patch)] \in Nat
    BY <1>2, <1>4
  <2>2. patch[Len(patch)] < Len(ir) /\ ir[patch[Len(patch)] + 1] = Op("loop_start", 0)
    BY <2>1 DEF IInv, PatchesOpen, StackIsOpen
  <2> QED
    BY <1>1, <1>4, <2>1, <2>2 DEF Innermost, Delta
<1>6. PICK s, x, z, u, r : /\ s = ir /\ x = Op("loop_start", delta) /\ z = Op("loop_end", -delta)
                           /\ u = [ir EXCEPT ![addr + 1] = x] /\ r = ir'
  OBVIOUS
<1>7. x \in OpType /\ z \in OpType /\ x.kind = "loop_start" /\ z.kind = "loop_end"
  BY <1>5, <1>6 DEF Op, OpType, Kind
<1>8. /\ u \in Seq(OpType) /\ Len(u) = Len(s) /\ u[addr + 1] = x
      /\ \A i \in 1..Len(s) : i # addr + 1 => u[i] = s[i]
  <2>1. addr + 1 \in 1..Len(s)
    BY <1>4, <1>5, <1>6
  <2> QED
    BY <1>4, <1>6, <1>7, <2>1, Replaced
<1>9. ASSUME NEW i \in 1..Len(s) PROVE DumpOp(u[i]) = DumpOp(s[i])
  <2>1. CASE i = addr + 1
    <3>1. u[i].kind = "loop_start" /\ s[i].kind = "loop_start"
      BY <1>5, <1>6, <1>7, <1>8, <2>1 DEF Op
    <3> QED
      BY <3>1 DEF DumpOp
  <2>2. CASE i # addr + 1
    BY <1>8, <2>2
  <2> QED
    BY <2>1, <2>2
<1>10. Dump(u) = Dump(s)
  BY <1>4, <1>6, <1>8, <1>9, DumpSame
<1>11. DumpOp(z) = <<"]">>
  BY <1>7 DEF DumpOp
<1>12. r = Append(u, z)
  BY <1>2, <1>6
<1>13. Dump(r) = Dump(ir) \o <<"]">>
  BY <1>6, <1>7, <1>8, <1>10, <1>11, <1>12, DumpAppend
<1> QED
  BY <1>2, <1>3, <1>6, <1>13, DumpNext

LEMMA OtherRunDump ==
  ASSUME IInv, ReadInv, DumpInv, ParseOther
  PROVE  DumpInv'
<1>1. PICK count \in 1..(Len(buffer) - ptr) : count_char("other", count) /\ ptr' = ptr + count
  BY DEF ParseOther
<1>2. pc = "parse" /\ UNCHANGED <<file, fpos, buffer, ir, patch, pc>> /\ "other" \in Letters
  BY DEF ParseOther, Letters, Char
<1>3. \A i \in 1..count : buffer[ptr + i] = "other"
  BY <1>1 DEF count_char
<1>4. PICK n \in Nat : /\ Offset' = n /\ count \in Nat
                       /\ Normal(Effective(n)) = Normal(Put(Effective(Offset), "other", count))
                       /\ Effective(Offset) \in Seq(Letters)
  BY <1>1, <1>2, <1>3, RunRest
<1>5. Normal(Effective(n)) = Normal(Effective(Offset))
  BY <1>4, PutOther
<1>6. Normal(Dump(ir)) = Normal(Effective(n))
  BY <1>5, DumpsIs DEF DumpInv
<1>7. PICK r : r = ir
  OBVIOUS
<1> QED
  BY <1>2, <1>4, <1>6, <1>7, DumpNext

LEMMA ReturnDump ==
  ASSUME IInv, ReadInv, DumpInv, ParseReturn \/ ParseUnmatched
  PROVE  DumpInv'
<1>1. /\ pc = "parse" /\ UNCHANGED <<file, fpos, buffer, ptr, ir, patch, src>>
      /\ pc' = "read" => (ptr < Len(buffer) => buffer[ptr + 1] = "nul")
  BY DEF ParseReturn, ParseUnmatched, At
<1>2. DumpsSource'
  BY <1>1 DEF DumpInv, DumpsSource, ir_ctx_dump_bf, Effective, ChunkStart, Offset, Normal
<1>3. TypeOK
  BY DEF IInv
<1>4. /\ ptr \in Nat /\ fpos \in Nat /\ Len(buffer) \in Nat /\ Len(buffer) <= fpos
      /\ ptr <= Len(buffer)
  BY <1>3 DEF TypeOK
<1>5. ASSUME pc' = "read", NEW i \in (Offset + 1)..fpos PROVE ~Live(file, i)
  <2>1. PICK k : k = i - (fpos - Len(buffer))
    OBVIOUS
  <2>2. /\ ptr < Len(buffer) /\ k \in 1..Len(buffer) /\ ptr + 1 \in 1..k
        /\ i = (fpos - Len(buffer)) + k
    BY <1>4, <2>1 DEF Offset
  <2>3. ~(\A j \in 1..k : buffer[j] # "nul")
    BY <1>1, <1>5, <2>2
  <2>4. Live(file, (fpos - Len(buffer)) + k) <=> \A j \in 1..k : buffer[j] # "nul"
    BY <1>1, <1>3, <2>2, LiveIs
  <2> QED
    BY <2>2, <2>3, <2>4
<1>6. (\A i \in (Offset + 1)..fpos : ~Live(file, i))' <=> \A i \in (Offset + 1)..fpos : ~Live(file, i)
  BY <1>1 DEF Offset, Live, ChunkStart
<1> QED
  BY <1>2, <1>5, <1>6 DEF DumpInv

LEMMA FreadDump ==
  ASSUME IInv, ReadInv, DumpInv, Fread
  PROVE  DumpInv'
<1>1. /\ pc = "read" /\ fpos' = Smaller(fpos + BUFLEN, Len(file))
      /\ buffer' = SubSeq(file, fpos + 1, fpos') /\ ptr' = 0 /\ pc' = "parse"
      /\ UNCHANGED <<file, ir, patch, src>>
  BY DEF Fread
<1>2. TypeOK
  BY DEF IInv
<1>3. /\ file \in Seq(Char) /\ fpos \in Nat /\ fpos <= Len(file) /\ Len(file) \in Nat
      /\ ptr \in Nat /\ Len(buffer) \in Nat /\ ptr <= Len(buffer) /\ Len(buffer) <= fpos
  BY <1>2 DEF TypeOK
<1>4. PICK g, l, n : g = fpos' /\ l = Len(buffer') /\ n = fpos
  OBVIOUS
<1>5. g \in Nat /\ fpos <= g /\ g <= Len(file)
  BY <1>1, <1>3, <1>4, BuflenAssumption DEF Smaller
<1>6. l = g - fpos
  <2>1. Len(SubSeq(file, fpos + 1, g)) = g - fpos
    BY <1>3, <1>5, Segment
  <2> QED
    BY <1>1, <1>4, <2>1
<1>7. Offset' = n
  <2>1. Offset' = (g - l) + 0
    BY <1>1, <1>4 DEF Offset
  <2>2. (g - l) + 0 = n
    <3>1. g \in Nat /\ n \in Nat /\ l = g - n
      BY <1>3, <1>4, <1>5, <1>6
    <3> QED
      BY ONLY <3>1
  <2> QED
    BY <2>1, <2>2
<1>8. PICK a \in Nat : a = Offset
  BY <1>2, OffsetType
<1>9. a <= n /\ n \in Nat
  BY <1>3, <1>4, <1>8 DEF Offset
<1>10. Effective(n) = Effective(a)
  <2>1. \A i \in (a + 1)..n : ~Live(file, i)
    BY <1>1, <1>4, <1>8 DEF DumpInv
  <2> QED
    BY <1>9, <2>1, EffectiveSkip
<1>11. Normal(Dump(ir)) = Normal(Effective(n))
  BY <1>8, <1>10, DumpsIs DEF DumpInv
<1>12. PICK r : r = ir
  OBVIOUS
<1> QED
  BY <1>1, <1>7, <1>11, <1>12, DumpNext

\* A step of the parser.
LEMMA ParseDump ==
  ASSUME IInv, ReadInv, DumpInv, Parse
  PROVE  DumpInv'
<1>1. ParseRead \/ ParseWrite => DumpInv'
  BY PushRunDump DEF ParseRead, ParseWrite, PushedAs
<1>2. ParsePlus \/ ParseMinus \/ ParseRight \/ ParseLeft => DumpInv'
  BY AddRunDump DEF ParsePlus, ParseMinus, ParseRight, ParseLeft, AddedAs
<1> QED
  BY <1>1, <1>2, LoopStartDump, LoopEndDump, OtherRunDump, ReturnDump, FreadDump
     DEF Parse, ParseChar

\* The invariant of the parser alone.
SourceInv == IInv /\ ReadInv /\ DepthInv /\ DumpInv

LEMMA SourceInvInit == Init => SourceInv
<1> SUFFICES ASSUME Init PROVE SourceInv
  OBVIOUS
<1>1. IInv /\ ReadInv /\ DepthInv
  BY InitIInv, InitRead
<1>2. fpos = 0 /\ buffer = <<>> /\ ptr = 0 /\ ir = <<>>
  BY DEF Init
<1>3. PICK n : n = Offset
  OBVIOUS
<1>4. n = 0
  <2>1. PICK l : l = Len(buffer)
    OBVIOUS
  <2>2. l = 0
    BY <1>2, <2>1
  <2>3. n = (fpos - l) + ptr
    BY <1>3, <2>1 DEF Offset
  <2>4. n = (0 - 0) + 0
    BY <1>2, <2>2, <2>3
  <2> QED
    BY ONLY <2>4
<1>5. Effective(n) = <<>>
  <2>1. Kept(file, 0) = {}
    BY DEF Kept
  <2>2. Cardinality(Kept(file, 0)) = 0
    BY <2>1, FS_EmptySet
  <2>3. PICK t : t = Effective(n)
    OBVIOUS
  <2>4. t = InOrder(file, Kept(file, n))
    BY <2>3, EffectiveForm
  <2>5. \E h : t = [k \in 1..0 |-> h[k]]
    <3> DEFINE h == [k \in 1..0 |-> t[k]]
    <3>1. t = [k \in 1..0 |-> file[CHOOSE i \in Kept(file, 0) : Cardinality(Kept(file, 0) \cap 1..i) = k]]
      BY <1>4, <2>2, <2>4 DEF InOrder
    <3>2. t = [k \in 1..0 |-> h[k]]
      BY <3>1
    <3> QED
      BY <3>2
  <2>6. t = <<>>
    BY <2>5
  <2> QED
    BY <2>3, <2>6
<1>6. Dump(ir) = <<>>
  BY <1>2, FoldEmpty DEF FoldOf
<1>7. DumpsSource
  BY <1>3, <1>5, <1>6, DumpsIs
<1>8. \A i \in (Offset + 1)..fpos : FALSE
  BY <1>2, <1>3, <1>4
<1> QED
  BY <1>1, <1>7, <1>8 DEF SourceInv, DumpInv

LEMMA SourceInvNext == SourceInv /\ [Next]_vars => SourceInv'
<1> SUFFICES ASSUME SourceInv, [Next]_vars PROVE SourceInv'
  OBVIOUS
<1>1. IInv'
  BY NextIInv DEF SourceInv
<1>2. CASE Parse
  BY <1>1, <1>2, ParseStep, ParseDump DEF SourceInv
<1>3. CASE UNCHANGED vars
  <2>1. UNCHANGED <<file, fpos, buffer, ptr, ir, patch, pc, src>>
    BY <1>3 DEF vars
  <2>2. ReadInv'
    BY <2>1 DEF SourceInv, ReadInv
  <2>3. DepthInv'
    BY <2>1 DEF SourceInv, DepthInv, Offset, Depth, Lives, Live, ChunkStart
  <2>4. DumpsSource'
    BY <2>1 DEF SourceInv, DumpInv, DumpsSource, ir_ctx_dump_bf, Effective, ChunkStart, Offset,
                Normal
  <2>5. DumpInv'
    BY <2>1, <2>4 DEF SourceInv, DumpInv, Offset, Live, ChunkStart
  <2> QED
    BY <1>1, <2>2, <2>3, <2>5 DEF SourceInv
<1> QED
  BY <1>2, <1>3 DEF Next, Finished

(***************************************************************************)
(* For every source file and every chunk size, whatever ir_ctx_parse has   *)
(* built, printed by ir_ctx_dump_bf, is what it has read up to comments    *)
(* and cancelled commands.                                                 *)
(***************************************************************************)
THEOREM SpecDumpsSource == Spec => []DumpsSource
<1>1. SourceInv => DumpsSource
  BY DEF SourceInv, DumpInv
<1> QED
  BY <1>1, SourceInvInit, SourceInvNext, PTL DEF Spec

---------------------------------------------------------------------------
(* The machine over many characters *)

\* A step of Ahead.
Onward(t, x) == IF x.pos >= Len(t) THEN x ELSE Machine!Char(t, x)

\* f is the table that Ahead makes.
Table(t, m, n, f) == f = [k \in 0..n |-> IF k = 0 THEN m ELSE Onward(t, f[k - 1])]

LEMMA TableUnique ==
  ASSUME NEW t, NEW m, NEW n \in Nat, NEW f, NEW g, Table(t, m, n, f), Table(t, m, n, g)
  PROVE  f = g
<1> DEFINE T == {k \in 0..n : f[k] # g[k]}
<1>1. /\ f = [k \in 0..n |-> f[k]] /\ g = [k \in 0..n |-> g[k]]
      /\ \A k \in 0..n : f[k] = IF k = 0 THEN m ELSE Onward(t, f[k - 1])
      /\ \A k \in 0..n : g[k] = IF k = 0 THEN m ELSE Onward(t, g[k - 1])
  BY DEF Table
<1>2. T = {}
  <2> SUFFICES ASSUME T # {} PROVE FALSE
    OBVIOUS
  <2>1. PICK k \in T : \A y \in T : k <= y
    <3>1. T \subseteq Nat
      OBVIOUS
    <3> HIDE DEF T
    <3> QED
      BY <3>1, LeastNat
  <2>2. k \in 0..n /\ f[k] # g[k]
    BY <2>1
  <2>3. k # 0
    BY <1>1, <2>2
  <2>4. PICK j : j = k - 1
    OBVIOUS
  <2>5. j \in 0..n /\ ~(k <= j)
    BY <2>2, <2>3, <2>4
  <2>6. f[j] = g[j]
    <3>1. j \notin T
      <4> HIDE DEF T
      <4> QED
        BY <2>1, <2>5
    <3> QED
      BY <2>5, <3>1
  <2>7. f[k] = Onward(t, f[j]) /\ g[k] = Onward(t, g[j])
    BY <1>1, <2>2, <2>3, <2>4
  <2> QED
    BY <2>2, <2>6, <2>7
<1> HIDE DEF T
<1>3. \A k \in 0..n : f[k] = g[k]
  BY <1>2 DEF T
<1> QED
  BY <1>1, <1>3

LEMMA TableNext ==
  ASSUME NEW t, NEW m, NEW n \in Nat, NEW f, NEW g, Table(t, m, n, f),
         g = [k \in 0..(n + 1) |-> IF k = 0 THEN m ELSE Onward(t, f[k - 1])]
  PROVE  Table(t, m, n + 1, g) /\ g[n + 1] = Onward(t, f[n])
<1>1. \A k \in 0..n : f[k] = IF k = 0 THEN m ELSE Onward(t, f[k - 1])
  BY DEF Table
<1>2. \A k \in 0..n : g[k] = f[k]
  BY <1>1
<1>3. \A k \in 0..(n + 1) : k # 0 => k - 1 \in 0..n
  OBVIOUS
<1>4. \A k \in 0..(n + 1) : k # 0 => g[k - 1] = f[k - 1]
  BY <1>2, <1>3
<1>5. g = [k \in 0..(n + 1) |-> IF k = 0 THEN m ELSE Onward(t, g[k - 1])]
  BY <1>4
<1>6. g[n + 1] = Onward(t, f[n])
  <2>1. n + 1 \in 0..(n + 1) /\ n + 1 # 0 /\ (n + 1) - 1 = n
    OBVIOUS
  <2> QED
    BY <2>1
<1> QED
  BY <1>5, <1>6 DEF Table

LEMMA TableExists ==
  ASSUME NEW t, NEW m, NEW n \in Nat
  PROVE  \E f : Table(t, m, n, f)
<1> DEFINE T == {k \in Nat : ~(\E f : Table(t, m, k, f))}
<1>1. T = {}
  <2> SUFFICES ASSUME T # {} PROVE FALSE
    OBVIOUS
  <2>1. PICK k \in T : \A y \in T : k <= y
    <3>1. T \subseteq Nat
      OBVIOUS
    <3> HIDE DEF T
    <3> QED
      BY <3>1, LeastNat
  <2>2. k \in Nat /\ ~(\E f : Table(t, m, k, f))
    BY <2>1
  <2>3. k # 0
    <3> SUFFICES ASSUME k = 0 PROVE FALSE
      OBVIOUS
    <3>1. PICK f : f = [i \in 0..0 |-> m]
      OBVIOUS
    <3>2. \A i \in 0..0 : i = 0
      OBVIOUS
    <3>3. f = [i \in 0..0 |-> IF i = 0 THEN m ELSE Onward(t, f[i - 1])]
      BY <3>1, <3>2
    <3>4. Table(t, m, 0, f)
      BY <3>3 DEF Table
    <3> QED
      BY <2>2, <3>4
  <2>4. PICK j \in Nat : k = j + 1
    <3>1. k - 1 \in Nat /\ k = (k - 1) + 1
      BY <2>2, <2>3
    <3> QED
      BY <3>1
  <2>5. PICK f : Table(t, m, j, f)
    <3>1. ~(k <= j)
      BY <2>4
    <3>2. j \notin T
      <4> HIDE DEF T
      <4> QED
        BY <2>1, <3>1
    <3> QED
      BY <3>2
  <2>6. PICK g : g = [i \in 0..(j + 1) |-> IF i = 0 THEN m ELSE Onward(t, f[i - 1])]
    OBVIOUS
  <2>7. Table(t, m, j + 1, g)
    BY <2>5, <2>6, TableNext
  <2> QED
    BY <2>2, <2>4, <2>7
<1> QED
  BY <1>1

LEMMA AheadIs ==
  ASSUME NEW t, NEW m, NEW n \in Nat, NEW f, Table(t, m, n, f)
  PROVE  Machine!Ahead(t, m, n) = f[n]
<1> DEFINE step(g) == [k \in 0..n |-> IF k = 0 THEN m ELSE Onward(t, g[k - 1])]
<1>1. Machine!Ahead(t, m, n) = (CHOOSE g : g = step(g))[n]
  BY DEF Machine!Ahead, Onward
<1>2. \A g : g = step(g) <=> Table(t, m, n, g)
  BY DEF Table
<1>3. \A g : Table(t, m, n, g) => g = f
  BY TableUnique
<1> HIDE DEF step
<1>4. (CHOOSE g : g = step(g)) = f
  BY <1>2, <1>3, Zenon
<1> QED
  BY <1>1, <1>4

\* No character.
LEMMA AheadZero ==
  ASSUME NEW t, NEW m
  PROVE  Machine!Ahead(t, m, 0) = m
<1>1. PICK f : Table(t, m, 0, f)
  BY TableExists
<1>2. f[0] = m
  BY <1>1 DEF Table
<1> QED
  BY <1>1, <1>2, AheadIs

\* One more character.
LEMMA AheadNext ==
  ASSUME NEW t, NEW m, NEW n \in Nat
  PROVE  Machine!Ahead(t, m, n + 1) = Onward(t, Machine!Ahead(t, m, n))
<1>1. PICK f : Table(t, m, n, f)
  BY TableExists
<1>2. PICK g : g = [k \in 0..(n + 1) |-> IF k = 0 THEN m ELSE Onward(t, f[k - 1])]
  OBVIOUS
<1>3. Table(t, m, n + 1, g) /\ g[n + 1] = Onward(t, f[n])
  BY <1>1, <1>2, TableNext
<1>4. Machine!Ahead(t, m, n) = f[n]
  BY <1>1, AheadIs
<1>5. PICK e \in Nat : e = n + 1
  OBVIOUS
<1>6. Machine!Ahead(t, m, e) = g[e]
  BY <1>3, <1>5, AheadIs
<1> QED
  BY <1>3, <1>4, <1>5, <1>6

\* A table that follows the machine ends where it does.
LEMMA AheadRun ==
  ASSUME NEW t, NEW m, NEW q \in Nat, NEW F, F[0] = m,
         \A k \in 0..q : k < q => F[k + 1] = Onward(t, F[k])
  PROVE  Machine!Ahead(t, m, q) = F[q]
<1> DEFINE T == {k \in 0..q : Machine!Ahead(t, m, k) # F[k]}
<1>1. T = {}
  <2> SUFFICES ASSUME T # {} PROVE FALSE
    OBVIOUS
  <2>1. PICK k \in T : \A y \in T : k <= y
    <3>1. T \subseteq Nat
      OBVIOUS
    <3> HIDE DEF T
    <3> QED
      BY <3>1, LeastNat
  <2>2. k \in 0..q /\ Machine!Ahead(t, m, k) # F[k]
    BY <2>1
  <2>3. k # 0
    BY <2>2, AheadZero
  <2>4. PICK j \in 0..q : k = j + 1 /\ j < q
    <3>1. k - 1 \in 0..q /\ k = (k - 1) + 1 /\ k - 1 < q
      BY <2>2, <2>3
    <3> QED
      BY <3>1
  <2>5. Machine!Ahead(t, m, j) = F[j]
    <3>1. ~(k <= j)
      BY <2>4
    <3>2. j \notin T
      <4> HIDE DEF T
      <4> QED
        BY <2>1, <3>1
    <3> QED
      BY <2>4, <3>2
  <2>6. Machine!Ahead(t, m, j + 1) = Onward(t, Machine!Ahead(t, m, j))
    BY <2>4, AheadNext
  <2> QED
    BY <2>2, <2>4, <2>5, <2>6
<1> HIDE DEF T
<1>2. q \in 0..q
  OBVIOUS
<1> QED
  BY <1>1, <1>2 DEF T

\* The machine goes on from where the first character led.
LEMMA AheadAfter ==
  ASSUME NEW t, NEW m, NEW q \in Nat
  PROVE  Machine!Ahead(t, m, q + 1) = Machine!Ahead(t, Onward(t, m), q)
<1> DEFINE x == Onward(t, m)
           F == [k \in 0..q |-> Machine!Ahead(t, m, k + 1)]
<1>1. F[0] = x
  <2>1. Machine!Ahead(t, m, 0 + 1) = Onward(t, Machine!Ahead(t, m, 0))
    BY AheadNext
  <2> QED
    BY <2>1, AheadZero
<1>2. \A k \in 0..q : k < q => F[k + 1] = Onward(t, F[k])
  <2> TAKE k \in 0..q
  <2> HAVE k < q
  <2>1. PICK j \in Nat : j = k + 1 /\ j \in 0..q
    OBVIOUS
  <2>2. Machine!Ahead(t, m, j + 1) = Onward(t, Machine!Ahead(t, m, j))
    BY AheadNext
  <2> QED
    BY <2>1, <2>2
<1>3. F[q] = Machine!Ahead(t, m, q + 1)
  OBVIOUS
<1> HIDE DEF F, x
<1>4. Machine!Ahead(t, x, q) = F[q]
  BY <1>1, <1>2, AheadRun
<1> QED
  BY <1>3, <1>4 DEF x

---------------------------------------------------------------------------
(* Arithmetic *)

LEMMA ModUnique ==
  ASSUME NEW M \in Nat \ {0}, NEW a \in Int, NEW q \in Int, NEW s \in 0..(M - 1), a = M * q + s
  PROVE  a % M = s
<1> DEFINE l == a \div M
           u == a % M
<1>1. a = M * l + u /\ l \in Int /\ u \in 0..(M - 1)
  OBVIOUS
<1> HIDE DEF l, u
<1>2. M * q - M * l = M * (q - l) /\ q - l \in Int
  BY <1>1
<1>3. M * (q - l) = u - s
  BY <1>1, <1>2
<1>4. CASE q - l >= 1
  <2>1. M * (q - l) >= M
    BY <1>2, <1>4
  <2> QED
    BY <1>1, <1>3, <2>1
<1>5. CASE q - l <= -1
  <2>1. M * (q - l) <= -M
    BY <1>2, <1>5
  <2> QED
    BY <1>1, <1>3, <2>1
<1>6. CASE q - l = 0
  <2>1. u = s
    BY <1>1, <1>3, <1>6
  <2> QED
    BY <2>1 DEF u
<1> QED
  BY <1>2, <1>4, <1>5, <1>6

LEMMA ModType ==
  ASSUME NEW M \in Nat \ {0}, NEW a \in Int
  PROVE  a % M \in 0..(M - 1) /\ \E q \in Int : a = M * q + (a % M)
<1>1. a % M \in 0..(M - 1) /\ a \div M \in Int /\ a = M * (a \div M) + (a % M)
  OBVIOUS
<1> QED
  BY <1>1

\* Reducing before adding or subtracting one makes no difference.
LEMMA ModStep ==
  ASSUME NEW M \in Nat \ {0}, NEW a \in Int
  PROVE  ((a % M) + 1) % M = (a + 1) % M /\ ((a % M) - 1) % M = (a - 1) % M
<1>1. PICK r \in 0..(M - 1), q \in Int : r = a % M /\ a = M * q + r
  BY ModType
<1>2. (r + 1) % M = (a + 1) % M
  <2>1. CASE r + 1 = M
    <3>1. r + 1 = M * 1 + 0 /\ a + 1 = M * (q + 1) + 0 /\ 0 \in 0..(M - 1) /\ q + 1 \in Int
      BY <1>1, <2>1
    <3>2. r + 1 \in Int /\ a + 1 \in Int
      BY <1>1
    <3>3. (r + 1) % M = 0
      BY <3>1, <3>2, ModUnique
    <3>4. (a + 1) % M = 0
      BY <3>1, <3>2, ModUnique
    <3> QED
      BY <3>3, <3>4
  <2>2. CASE r + 1 # M
    <3>1. PICK s \in 0..(M - 1) : s = r + 1
      BY <1>1, <2>2
    <3>2. PICK b \in Int : b = a + 1
      OBVIOUS
    <3>3. s = M * 0 + s /\ b = M * q + s
      BY <1>1, <3>1, <3>2
    <3>4. s % M = s
      BY <3>3, ModUnique
    <3>5. b % M = s
      BY <3>3, ModUnique
    <3> QED
      BY <3>1, <3>2, <3>4, <3>5
  <2> QED
    BY <2>1, <2>2
<1>3. (r - 1) % M = (a - 1) % M
  <2>1. CASE r = 0
    <3>1. PICK s \in 0..(M - 1) : s = M - 1
      OBVIOUS
    <3>2. PICK b, d \in Int : b = a - 1 /\ d = r - 1
      BY <1>1
    <3>3. d = M * (-1) + s /\ b = M * (q - 1) + s /\ q - 1 \in Int /\ -1 \in Int
      BY <1>1, <2>1, <3>1, <3>2
    <3>4. d % M = s
      BY <3>3, ModUnique
    <3>5. b % M = s
      BY <3>3, ModUnique
    <3> QED
      BY <3>2, <3>4, <3>5
  <2>2. CASE r # 0
    <3>1. PICK s \in 0..(M - 1) : s = r - 1
      BY <1>1, <2>2
    <3>2. PICK b \in Int : b = a - 1
      OBVIOUS
    <3>3. s = M * 0 + s /\ b = M * q + s
      BY <1>1, <3>1, <3>2
    <3>4. s % M = s
      BY <3>3, ModUnique
    <3>5. b % M = s
      BY <3>3, ModUnique
    <3> QED
      BY <3>1, <3>2, <3>4, <3>5
  <2> QED
    BY <2>1, <2>2
<1> QED
  BY <1>1, <1>2, <1>3

LEMMA ModSmall ==
  ASSUME NEW M \in Nat \ {0}, NEW a \in 0..(M - 1)
  PROVE  a % M = a
<1>1. a = M * 0 + a /\ a \in Int
  OBVIOUS
<1> QED
  BY <1>1, ModUnique

LEMMA NumberNext ==
  ASSUME NEW t, NEW c, NEW a \in Nat, NEW b \in Nat, a <= b
  PROVE  /\ Number(t, c, a, b) \in Nat
         /\ t[b + 1] = c => Number(t, c, a, b + 1) = Number(t, c, a, b) + 1
         /\ t[b + 1] # c => Number(t, c, a, b + 1) = Number(t, c, a, b)
<1>1. PICK g \in Int : g = a + 1 /\ g <= b + 1
  OBVIOUS
<1>2. Tally(t, c, g, b + 1) = Tally(t, c, g, b) + (IF t[b + 1] = c THEN 1 ELSE 0)
  BY <1>1, TallyNext
<1>3. b \in Int
  OBVIOUS
<1>4. Tally(t, c, g, b) \in Nat
  BY ONLY <1>1, <1>3, TallyType
<1> QED
  BY <1>1, <1>2, <1>4 DEF Number

LEMMA NumberZero ==
  ASSUME NEW t, NEW c, NEW a \in Nat
  PROVE  Number(t, c, a, a) = 0
<1>1. PICK g \in Int : g = a + 1 /\ a < g
  OBVIOUS
<1>2. a \in Int
  OBVIOUS
<1>3. Tally(t, c, g, a) = 0
  BY ONLY <1>1, <1>2, TallyType
<1> QED
  BY <1>1, <1>3 DEF Number

---------------------------------------------------------------------------
(* The machine over one character *)

\* A state of the machine: where it is in the text, the head, the tape, the
\* input, the output and the edges crossed.
Mach(p, h, tp, i, o, l, r) ==
  [pos |-> p, head |-> h, tape |-> tp, in |-> i, out |-> o, left |-> l, right |-> r]

LEMMA MachFields ==
  ASSUME NEW p, NEW h, NEW tp, NEW i, NEW o, NEW l, NEW r, NEW x, x = Mach(p, h, tp, i, o, l, r)
  PROVE  /\ x.pos = p /\ x.head = h /\ x.tape = tp /\ x.in = i /\ x.out = o
         /\ x.left = l /\ x.right = r
BY DEF Mach

\* One character, by its kind.
LEMMA OnwardOther ==
  ASSUME NEW t, NEW p, NEW h, NEW tp, NEW i, NEW o, NEW l, NEW r,
         ~(p >= Len(t)), t[p + 1] = "other"
  PROVE  Onward(t, Mach(p, h, tp, i, o, l, r)) = Mach(p + 1, h, tp, i, o, l, r)
BY DEF Onward, Machine!Char, Mach

LEMMA OnwardRight ==
  ASSUME NEW t, NEW p, NEW h, NEW tp, NEW i, NEW o, NEW l, NEW r,
         ~(p >= Len(t)), t[p + 1] = ">"
  PROVE  Onward(t, Mach(p, h, tp, i, o, l, r)) =
           Mach(p + 1, (h + 1) % Capacity, tp, i, o, l, IF h = Capacity - 1 THEN r + 1 ELSE r)
BY DEF Onward, Machine!Char, Mach

LEMMA OnwardLeft ==
  ASSUME NEW t, NEW p, NEW h, NEW tp, NEW i, NEW o, NEW l, NEW r,
         ~(p >= Len(t)), t[p + 1] = "<"
  PROVE  Onward(t, Mach(p, h, tp, i, o, l, r)) =
           Mach(p + 1, (h - 1) % Capacity, tp, i, o, IF h = 0 THEN l + 1 ELSE l, r)
BY DEF Onward, Machine!Char, Mach

LEMMA OnwardWrite ==
  ASSUME NEW t, NEW p, NEW h, NEW tp, NEW i, NEW o, NEW l, NEW r,
         ~(p >= Len(t)), t[p + 1] = "."
  PROVE  Onward(t, Mach(p, h, tp, i, o, l, r)) = Mach(p + 1, h, tp, i, Append(o, tp[h]), l, r)
BY DEF Onward, Machine!Char, Mach

LEMMA OnwardStart ==
  ASSUME NEW t, NEW p, NEW h, NEW tp, NEW i, NEW o, NEW l, NEW r,
         ~(p >= Len(t)), t[p + 1] = "["
  PROVE  /\ tp[h] = 0 => Onward(t, Mach(p, h, tp, i, o, l, r)) =
                           Mach(Machine!MatchingEnd(t, p + 1), h, tp, i, o, l, r)
         /\ tp[h] # 0 => Onward(t, Mach(p, h, tp, i, o, l, r)) = Mach(p + 1, h, tp, i, o, l, r)
BY DEF Onward, Machine!Char, Mach

LEMMA OnwardEnd ==
  ASSUME NEW t, NEW p, NEW h, NEW tp, NEW i, NEW o, NEW l, NEW r,
         ~(p >= Len(t)), t[p + 1] = "]"
  PROVE  /\ tp[h] # 0 => Onward(t, Mach(p, h, tp, i, o, l, r)) =
                           Mach(Machine!MatchingStart(t, p + 1), h, tp, i, o, l, r)
         /\ tp[h] = 0 => Onward(t, Mach(p, h, tp, i, o, l, r)) = Mach(p + 1, h, tp, i, o, l, r)
BY DEF Onward, Machine!Char, Mach

---------------------------------------------------------------------------
(* The machine over the text of an operation *)

\* The next character is one that the text has.
LEMMA RunChar ==
  ASSUME NEW t, NEW a \in Nat, NEW b \in Nat, NEW p \in Nat, NEW chars,
         Len(t) \in Nat, b <= Len(t), Only(t, chars, a, b), a <= p, p < b
  PROVE  ~(p >= Len(t)) /\ t[p + 1] \in chars \cup {"other"}
<1>1. p + 1 \in (a + 1)..b /\ p < Len(t)
  OBVIOUS
<1> QED
  BY <1>1 DEF Only

\* Comments.
LEMMA OtherRun ==
  ASSUME NEW t, NEW a \in Nat, NEW b \in Nat, NEW h, NEW tp, NEW i, NEW o, NEW l, NEW r,
         a <= b, Len(t) \in Nat, b <= Len(t), Only(t, {}, a, b)
  PROVE  Machine!Ahead(t, Mach(a, h, tp, i, o, l, r), b - a) = Mach(b, h, tp, i, o, l, r)
<1> DEFINE m == Mach(a, h, tp, i, o, l, r)
           q == b - a
           F == [k \in 0..q |-> Mach(a + k, h, tp, i, o, l, r)]
<1>1. q \in Nat /\ 0 \in 0..q /\ q \in 0..q /\ a + q = b /\ a + 0 = a
  OBVIOUS
<1>2. F[0] = m /\ F[q] = Mach(b, h, tp, i, o, l, r)
  BY <1>1
<1>3. \A k \in 0..q : k < q => F[k + 1] = Onward(t, F[k])
  <2> TAKE k \in 0..q
  <2> HAVE k < q
  <2>2. PICK p \in Nat : p = a + k /\ a <= p /\ p < b
    OBVIOUS
  <2>0. ~(p >= Len(t)) /\ t[p + 1] \in {} \cup {"other"}
    BY <2>2, RunChar
  <2>1. ~(p >= Len(t)) /\ t[p + 1] = "other"
    BY <2>0
  <2>3. Onward(t, Mach(p, h, tp, i, o, l, r)) = Mach(p + 1, h, tp, i, o, l, r)
    BY ONLY <2>1, <2>2, OnwardOther
  <2>4. k + 1 \in 0..q /\ a + (k + 1) = p + 1
    BY <2>2
  <2> QED
    BY <2>2, <2>3, <2>4
<1> HIDE DEF F, m, q
<1>4. Machine!Ahead(t, m, q) = F[q]
  BY <1>1, <1>2, <1>3, AheadRun
<1> QED
  BY <1>2, <1>4 DEF m, q

\* The value of the cell at h when the text from a to e is behind.
CellValue(t, v, a, e) == (v + (Number(t, "+", a, e) - Number(t, "-", a, e))) % CellMod

LEMMA CellValueNext ==
  ASSUME NEW t, NEW v \in Interpreter!Cell, NEW a \in Nat, NEW e \in Nat, a <= e
  PROVE  /\ CellValue(t, v, a, a) = v
         /\ CellValue(t, v, a, e) \in Interpreter!Cell
         /\ t[e + 1] = "+" => CellValue(t, v, a, e + 1) = (CellValue(t, v, a, e) + 1) % CellMod
         /\ t[e + 1] = "-" => CellValue(t, v, a, e + 1) = (CellValue(t, v, a, e) - 1) % CellMod
         /\ t[e + 1] = "other" => CellValue(t, v, a, e + 1) = CellValue(t, v, a, e)
<1> USE ByteAssumption
<1> DEFINE u == Number(t, "+", a, e)
           d == Number(t, "-", a, e)
           u1 == Number(t, "+", a, e + 1)
           d1 == Number(t, "-", a, e + 1)
<1>1. /\ u \in Nat /\ d \in Nat
      /\ t[e + 1] = "+" => u1 = u + 1 /\ d1 = d
      /\ t[e + 1] = "-" => u1 = u /\ d1 = d + 1
      /\ t[e + 1] = "other" => u1 = u /\ d1 = d
  BY NumberNext
<1>2. v \in 0..(CellMod - 1)
  BY DEF Interpreter!Cell
<1>3. CellValue(t, v, a, a) = v
  <2>1. Number(t, "+", a, a) = 0 /\ Number(t, "-", a, a) = 0
    BY NumberZero
  <2>2. v % CellMod = v
    BY <1>2, ModSmall
  <2>3. v + (0 - 0) = v
    BY <1>2
  <2> QED
    BY <2>1, <2>2, <2>3 DEF CellValue
<1> HIDE DEF u, d, u1, d1
<1>4. PICK w \in Int : w = v + (u - d)
  BY <1>1, <1>2
<1>5. CellValue(t, v, a, e) = w % CellMod
  BY <1>4 DEF CellValue, u, d
<1>6. /\ t[e + 1] = "+" => v + (u1 - d1) = w + 1
      /\ t[e + 1] = "-" => v + (u1 - d1) = w - 1
      /\ t[e + 1] = "other" => v + (u1 - d1) = w
  BY <1>1, <1>2, <1>4
<1>7. CellValue(t, v, a, e + 1) = (v + (u1 - d1)) % CellMod
  BY DEF CellValue, u1, d1
<1>8. /\ (w + 1) % CellMod = ((w % CellMod) + 1) % CellMod
      /\ (w - 1) % CellMod = ((w % CellMod) - 1) % CellMod
  BY ModStep
<1>9. w % CellMod \in Interpreter!Cell
  BY ModType DEF Interpreter!Cell
<1> QED
  BY <1>3, <1>5, <1>6, <1>7, <1>8, <1>9

IsTape(tp) == tp \in [Interpreter!Tape -> Interpreter!Cell]

CellEnd(t, tp, h, a, b) == [tp EXCEPT ![h] = CellValue(t, @, a, b)]

\* A run of '+' and '-' adds what it comes to, modulo the cell.
LEMMA CellRun ==
  ASSUME NEW t, NEW a \in Nat, NEW b \in Nat, NEW h \in Interpreter!Tape,
         NEW tp, NEW i, NEW o, NEW l, NEW r, IsTape(tp),
         a <= b, Len(t) \in Nat, b <= Len(t), Only(t, {"+", "-"}, a, b)
  PROVE  Machine!Ahead(t, Mach(a, h, tp, i, o, l, r), b - a) =
           Mach(b, h, CellEnd(t, tp, h, a, b), i, o, l, r)
<1> DEFINE m == Mach(a, h, tp, i, o, l, r)
           q == b - a
           D(e) == [tp EXCEPT ![h] = CellValue(t, tp[h], a, e)]
           F == [k \in 0..q |-> Mach(a + k, h, D(a + k), i, o, l, r)]
<1>0. tp \in [Interpreter!Tape -> Interpreter!Cell]
  BY DEF IsTape
<1>1. q \in Nat /\ 0 \in 0..q /\ q \in 0..q /\ a + q = b /\ a + 0 = a
  OBVIOUS
<1>2. tp[h] \in Interpreter!Cell
  BY <1>0
<1>3. F[0] = m /\ F[q] = Mach(b, h, D(b), i, o, l, r)
  <2>1. CellValue(t, tp[h], a, a) = tp[h]
    <3>1. PICK v : v = tp[h]
      OBVIOUS
    <3>2. v \in Interpreter!Cell
      BY <1>2, <3>1
    <3>3. CellValue(t, v, a, a) = v
      BY <3>2, CellValueNext
    <3> QED
      BY <3>1, <3>3
  <2>2. D(a) = tp
    BY <1>0, <2>1
  <2> HIDE DEF D
  <2> QED
    BY <1>1, <2>2
<1>4. \A k \in 0..q : k < q => F[k + 1] = Onward(t, F[k])
  <2> TAKE k \in 0..q
  <2> HAVE k < q
  <2>2. PICK p \in Nat : p = a + k /\ a <= p /\ p < b
    OBVIOUS
  <2>1. ~(p >= Len(t)) /\ t[p + 1] \in {"+", "-", "other"}
    BY <2>2, RunChar, ZenonT(30)
  <2>3. k + 1 \in 0..q /\ a + (k + 1) = p + 1
    BY <2>2
  <2>4. PICK v, d : v = CellValue(t, tp[h], a, p) /\ d = D(p)
    OBVIOUS
  <2>5. d[h] = v /\ D(p) = d
    BY <1>0, <2>4
  <2>6. /\ t[p + 1] = "+" => CellValue(t, tp[h], a, p + 1) = (v + 1) % CellMod
        /\ t[p + 1] = "-" => CellValue(t, tp[h], a, p + 1) = (v - 1) % CellMod
        /\ t[p + 1] = "other" => CellValue(t, tp[h], a, p + 1) = v
    BY ONLY <1>2, <2>2, <2>4, CellValueNext, a \in Nat
  <2>7. /\ t[p + 1] = "+" => D(p + 1) = [d EXCEPT ![h] = (@ + 1) % CellMod]
        /\ t[p + 1] = "-" => D(p + 1) = [d EXCEPT ![h] = (@ - 1) % CellMod]
        /\ t[p + 1] = "other" => D(p + 1) = d
    BY <1>0, <2>4, <2>5, <2>6
  <2>8. Onward(t, Mach(p, h, d, i, o, l, r)) = Mach(p + 1, h, D(p + 1), i, o, l, r)
    <3>1. CASE t[p + 1] = "+"
      <4>1. Onward(t, Mach(p, h, d, i, o, l, r)) =
              Mach(p + 1, h, [d EXCEPT ![h] = (@ + 1) % CellMod], i, o, l, r)
        BY ONLY <2>1, <3>1 DEF Onward, Machine!Char, Mach
      <4> HIDE DEF D
      <4> QED
        BY <2>7, <3>1, <4>1
    <3>2. CASE t[p + 1] = "-"
      <4>1. Onward(t, Mach(p, h, d, i, o, l, r)) =
              Mach(p + 1, h, [d EXCEPT ![h] = (@ - 1) % CellMod], i, o, l, r)
        BY ONLY <2>1, <3>2 DEF Onward, Machine!Char, Mach
      <4> HIDE DEF D
      <4> QED
        BY <2>7, <3>2, <4>1
    <3>3. CASE t[p + 1] = "other"
      <4>1. Onward(t, Mach(p, h, d, i, o, l, r)) = Mach(p + 1, h, d, i, o, l, r)
        BY ONLY <2>1, <3>3, OnwardOther
      <4> HIDE DEF D
      <4> QED
        BY <2>7, <3>3, <4>1
    <3> QED
      BY <2>1, <3>1, <3>2, <3>3
  <2> HIDE DEF D
  <2> QED
    BY <2>2, <2>3, <2>5, <2>8
<1> HIDE DEF F, m, q
<1>5. Machine!Ahead(t, m, q) = F[q]
  BY <1>1, <1>3, <1>4, AheadRun
<1> QED
  BY <1>3, <1>5 DEF m, q, CellEnd

\* v behind o, n times.
Repeated(o, v, n) == o \o [j \in 1..n |-> v]

LEMMA RepeatedNext ==
  ASSUME NEW S, NEW o \in Seq(S), NEW v \in S, NEW n \in Nat
  PROVE  /\ Repeated(o, v, n) \in Seq(S)
         /\ Repeated(o, v, 0) = o
         /\ Append(Repeated(o, v, n), v) = Repeated(o, v, n + 1)
<1>1. PICK m \in Nat : m = n + 1
  OBVIOUS
<1>2. \A k \in Nat : /\ [j \in 1..k |-> v] \in Seq(S)
                     /\ Len([j \in 1..k |-> v]) = k
  OBVIOUS
<1>3. \A k \in Nat : /\ Repeated(o, v, k) \in Seq(S)
                     /\ Len(Repeated(o, v, k)) = Len(o) + k
                     /\ \A x \in 1..(Len(o) + k) :
                          Repeated(o, v, k)[x] = IF x <= Len(o) THEN o[x] ELSE v
  BY <1>2 DEF Repeated
<1>4. Repeated(o, v, 0) = o
  <2>1. PICK z : z = Repeated(o, v, 0)
    OBVIOUS
  <2>2. 0 \in Nat /\ Len(o) \in Nat /\ Len(o) + 0 = Len(o)
    OBVIOUS
  <2>3. /\ z \in Seq(S) /\ Len(z) = Len(o)
        /\ \A x \in 1..Len(o) : z[x] = IF x <= Len(o) THEN o[x] ELSE v
    BY <1>3, <2>1, <2>2
  <2>4. \A x \in 1..Len(o) : z[x] = o[x]
    BY <2>2, <2>3
  <2>5. z = o
    BY <2>3, <2>4, SeqEqual
  <2> QED
    BY <2>1, <2>5
<1>5. PICK y, z : y = Append(Repeated(o, v, n), v) /\ z = Repeated(o, v, m)
  OBVIOUS
<1>6. /\ z \in Seq(S) /\ Len(z) = Len(o) + m
      /\ \A x \in 1..(Len(o) + m) : z[x] = IF x <= Len(o) THEN o[x] ELSE v
  BY <1>3, <1>5
<1>7. PICK w \in Seq(S) : w = Repeated(o, v, n)
  BY <1>3
<1>8. /\ Len(w) = Len(o) + n
      /\ \A x \in 1..(Len(o) + n) : w[x] = IF x <= Len(o) THEN o[x] ELSE v
  BY <1>3, <1>7
<1>9. /\ y \in Seq(S) /\ Len(y) = Len(o) + m /\ y[Len(o) + m] = v
      /\ \A x \in 1..(Len(o) + n) : y[x] = w[x]
  <2>1. y = Append(w, v) /\ Len(o) \in Nat /\ Len(o) + m = Len(w) + 1
    BY <1>1, <1>5, <1>7, <1>8
  <2>2. /\ y \in Seq(S) /\ Len(y) = Len(w) + 1 /\ y[Len(w) + 1] = v
        /\ \A x \in 1..Len(w) : y[x] = w[x]
    BY <2>1
  <2> QED
    BY <1>8, <2>1, <2>2
<1>10. \A x \in 1..Len(y) : y[x] = z[x]
  <2> TAKE x \in 1..Len(y)
  <2>1. x \in 1..(Len(o) + n) \/ x = Len(o) + m
    BY <1>1, <1>9
  <2>2. CASE x \in 1..(Len(o) + n)
    BY <1>1, <1>6, <1>8, <1>9, <2>2
  <2>3. CASE x = Len(o) + m
    <3>1. Len(o) \in Nat /\ x \in 1..(Len(o) + m) /\ ~(x <= Len(o))
      BY <1>1, <2>3
    <3> QED
      BY <1>6, <1>9, <2>3, <3>1
  <2> QED
    BY <2>1, <2>2, <2>3
<1>11. y = z
  BY <1>6, <1>9, <1>10, SeqEqual
<1> QED
  BY <1>1, <1>3, <1>4, <1>5, <1>11

LEMMA RepeatedMore ==
  ASSUME NEW S, NEW o \in Seq(S), NEW v \in S, NEW n \in Nat, NEW m, m = n + 1
  PROVE  Append(Repeated(o, v, n), v) = Repeated(o, v, m)
<1>1. Append(Repeated(o, v, n), v) = Repeated(o, v, n + 1)
  BY RepeatedNext
<1> QED
  BY <1>1

\* o is a sequence of values such as v.
IsOut(o, v) == \E S : o \in Seq(S) /\ v \in S

\* A run of '.' writes the cell as often as it is long.
LEMMA WriteRun ==
  ASSUME NEW t, NEW a \in Nat, NEW b \in Nat, NEW h, NEW tp, NEW o,
         NEW i, NEW l, NEW r, IsOut(o, tp[h]),
         a <= b, Len(t) \in Nat, b <= Len(t), Only(t, {"."}, a, b)
  PROVE  Machine!Ahead(t, Mach(a, h, tp, i, o, l, r), b - a) =
           Mach(b, h, tp, i, Repeated(o, tp[h], Number(t, ".", a, b)), l, r)
<1> DEFINE m == Mach(a, h, tp, i, o, l, r)
           q == b - a
           D(e) == Repeated(o, tp[h], Number(t, ".", a, e))
           F == [k \in 0..q |-> Mach(a + k, h, tp, i, D(a + k), l, r)]
<1>0. PICK S : o \in Seq(S) /\ tp[h] \in S
  BY DEF IsOut
<1>1. q \in Nat /\ 0 \in 0..q /\ q \in 0..q /\ a + q = b /\ a + 0 = a
  OBVIOUS
<1>2. F[0] = m /\ F[q] = Mach(b, h, tp, i, D(b), l, r)
  <2>1. Number(t, ".", a, a) = 0
    BY NumberZero
  <2>2. D(a) = o
    BY <1>0, <2>1, RepeatedNext
  <2> HIDE DEF D
  <2> QED
    BY <1>1, <2>2
<1>3. \A k \in 0..q : k < q => F[k + 1] = Onward(t, F[k])
  <2> TAKE k \in 0..q
  <2> HAVE k < q
  <2>1. PICK p \in Nat : p = a + k /\ a <= p /\ p < b
    OBVIOUS
  <2>2. ~(p >= Len(t)) /\ t[p + 1] \in {"."} \cup {"other"}
    BY <2>1, RunChar
  <2>3. k + 1 \in 0..q /\ a + (k + 1) = p + 1
    BY <2>1
  <2>4. PICK n : n = Number(t, ".", a, p)
    OBVIOUS
  <2>5. /\ n \in Nat
        /\ t[p + 1] = "." => Number(t, ".", a, p + 1) = n + 1
        /\ t[p + 1] # "." => Number(t, ".", a, p + 1) = n
    BY <2>1, <2>4, NumberNext
  <2>6. Append(Repeated(o, tp[h], n), tp[h]) = Repeated(o, tp[h], n + 1)
    <3>1. PICK v \in S : v = tp[h]
      BY <1>0
    <3>2. PICK g : g = n + 1
      OBVIOUS
    <3>3. Append(Repeated(o, v, n), v) = Repeated(o, v, g)
      BY <1>0, <2>5, <3>1, <3>2, RepeatedMore
    <3> QED
      BY <3>1, <3>2, <3>3
  <2>7. /\ t[p + 1] = "." => D(p + 1) = Append(D(p), tp[h])
        /\ t[p + 1] # "." => D(p + 1) = D(p)
    BY <2>4, <2>5, <2>6
  <2> HIDE DEF D
  <2>8. Onward(t, Mach(p, h, tp, i, D(p), l, r)) = Mach(p + 1, h, tp, i, D(p + 1), l, r)
    <3>1. CASE t[p + 1] = "."
      <4>1. Onward(t, Mach(p, h, tp, i, D(p), l, r)) =
              Mach(p + 1, h, tp, i, Append(D(p), tp[h]), l, r)
        BY ONLY <2>2, <3>1, OnwardWrite
      <4> QED
        BY <2>7, <3>1, <4>1
    <3>2. CASE t[p + 1] = "other"
      <4>1. Onward(t, Mach(p, h, tp, i, D(p), l, r)) = Mach(p + 1, h, tp, i, D(p), l, r)
        BY ONLY <2>2, <3>2, OnwardOther
      <4> QED
        BY <2>7, <3>2, <4>1
    <3> QED
      BY <2>2, <3>1, <3>2
  <2> QED
    BY <2>1, <2>3, <2>8
<1> HIDE DEF F, m, q
<1>4. Machine!Ahead(t, m, q) = F[q]
  BY <1>1, <1>2, <1>3, AheadRun
<1> QED
  BY <1>2, <1>4 DEF m, q

\* What is left of i after n bytes are read, and the tape they leave.
Unread(i, n) == SubSeq(i, n + 1, Len(i))
GotInto(tp, h, i, n) == IF n = 0 THEN tp ELSE [tp EXCEPT ![h] = i[n]]
Got(i, n) == IF n < Len(i) THEN n ELSE Len(i)

LEMMA UnreadNext ==
  ASSUME NEW S, NEW i \in Seq(S), NEW n \in 0..Len(i)
  PROVE  /\ Unread(i, n) \in Seq(S) /\ Unread(i, 0) = i
         /\ n < Len(i) => /\ Unread(i, n) # <<>> /\ Head(Unread(i, n)) = i[n + 1]
                          /\ Tail(Unread(i, n)) = Unread(i, n + 1)
         /\ n = Len(i) => Unread(i, n) = <<>>
<1>1. Len(i) \in Nat
  OBVIOUS
<1>2. \A k \in 0..Len(i) :
        /\ Unread(i, k) \in Seq(S) /\ Len(Unread(i, k)) = Len(i) - k
        /\ \A x \in 1..(Len(i) - k) : Unread(i, k)[x] = i[k + x]
  <2> TAKE k \in 0..Len(i)
  <2>1. k \in Nat /\ k <= Len(i)
    BY <1>1
  <2> QED
    BY <1>1, <2>1, Segment DEF Unread
<1>3. Unread(i, 0) = i
  <2>1. 0 \in 0..Len(i) /\ \A x \in 1..Len(i) : 0 + x = x
    BY <1>1
  <2>2. /\ Unread(i, 0) \in Seq(S) /\ Len(Unread(i, 0)) = Len(i)
        /\ \A x \in 1..Len(Unread(i, 0)) : Unread(i, 0)[x] = i[x]
    BY <1>1, <1>2, <2>1
  <2> QED
    BY <2>2, SeqEqual
<1>4. n = Len(i) => Unread(i, n) = <<>>
  <2> HAVE n = Len(i)
  <2>1. Unread(i, n) \in Seq(S) /\ Len(Unread(i, n)) = 0
    BY <1>1, <1>2
  <2> QED
    BY <2>1
<1>5. n < Len(i) => /\ Unread(i, n) # <<>> /\ Head(Unread(i, n)) = i[n + 1]
                    /\ Tail(Unread(i, n)) = Unread(i, n + 1)
  <2> HAVE n < Len(i)
  <2>1. PICK m \in 0..Len(i) : m = n + 1
    BY <1>1
  <2>2. PICK w, u : w = Unread(i, n) /\ u = Unread(i, m)
    OBVIOUS
  <2>3. w \in Seq(S) /\ Len(w) = Len(i) - n /\ \A x \in 1..(Len(i) - n) : w[x] = i[n + x]
    BY <1>2, <2>2
  <2>4. u \in Seq(S) /\ Len(u) = Len(i) - m /\ \A x \in 1..(Len(i) - m) : u[x] = i[m + x]
    BY <1>2, <2>2
  <2>5. Len(w) > 0 /\ w # <<>> /\ Head(w) = w[1] /\ 1 \in 1..(Len(i) - n)
    BY <1>1, <2>3
  <2>6. /\ Tail(w) \in Seq(S) /\ Len(Tail(w)) = Len(w) - 1
        /\ \A x \in 1..(Len(w) - 1) : Tail(w)[x] = w[x + 1]
    BY <2>3, <2>5
  <2>7. Len(Tail(w)) = Len(u)
    BY <1>1, <2>1, <2>3, <2>4, <2>6
  <2>8. \A x \in 1..Len(Tail(w)) : Tail(w)[x] = u[x]
    <3> TAKE x \in 1..Len(Tail(w))
    <3>1. x \in 1..(Len(i) - m) /\ x \in 1..(Len(w) - 1) /\ x + 1 \in 1..(Len(i) - n)
          /\ n + (x + 1) = m + x
      BY <1>1, <2>1, <2>3, <2>6
    <3> QED
      BY <2>3, <2>4, <2>6, <3>1
  <2>9. Tail(w) = u
    BY <2>4, <2>6, <2>7, <2>8, SeqEqual
  <2> QED
    BY <2>1, <2>2, <2>3, <2>5, <2>9
<1> QED
  BY <1>2, <1>3, <1>4, <1>5

Comma == ","

LEMMA CommaIs ==
  Comma # "other"
BY DEF Comma

LEMMA OnwardEmpty ==
  ASSUME NEW t, NEW p, NEW h, NEW tp, NEW i, NEW o, NEW l, NEW r,
         ~(p >= Len(t)), t[p + 1] = Comma, i = <<>>
  PROVE  Onward(t, Mach(p, h, tp, i, o, l, r)) = Mach(p + 1, h, tp, i, o, l, r)
<1>1. t[p + 1] = ","
  BY Zenon DEF Comma
<1> QED
  BY <1>1 DEF Onward, Machine!Char, Mach

LEMMA GotNext ==
  ASSUME NEW S, NEW i \in Seq(S), NEW n \in Nat, NEW g, g = Got(i, n)
  PROVE  /\ g \in 0..Len(i) /\ Got(i, 0) = 0
         /\ g < Len(i) => Got(i, n + 1) = g + 1
         /\ g = Len(i) => Got(i, n + 1) = g
<1>1. Len(i) \in Nat
  OBVIOUS
<1> QED
  BY <1>1 DEF Got

\* One ',' more.
LEMMA ReadChar ==
  ASSUME NEW t, NEW p, NEW h \in Interpreter!Tape, NEW tp \in [Interpreter!Tape -> Interpreter!Cell],
         NEW S, NEW i \in Seq(S), NEW o, NEW l, NEW r, NEW n \in Nat, ~(p >= Len(t)), t[p + 1] = Comma
  PROVE  Onward(t, Mach(p, h, GotInto(tp, h, i, Got(i, n)), Unread(i, Got(i, n)), o, l, r)) =
           Mach(p + 1, h, GotInto(tp, h, i, Got(i, n + 1)), Unread(i, Got(i, n + 1)), o, l, r)
<1>1. PICK g : g = Got(i, n)
  OBVIOUS
<1>2. PICK e : e = Got(i, n + 1)
  OBVIOUS
<1>3. /\ g \in 0..Len(i)
      /\ g < Len(i) => e = g + 1
      /\ g = Len(i) => e = g
  BY <1>1, <1>2, GotNext
<1>4. PICK d, u : d = GotInto(tp, h, i, g) /\ u = Unread(i, g)
  OBVIOUS
<1>5. Len(i) \in Nat
  OBVIOUS
<1>6. /\ g < Len(i) => u # <<>> /\ Head(u) = i[g + 1] /\ Tail(u) = Unread(i, g + 1)
      /\ g = Len(i) => u = <<>>
  BY <1>3, <1>4, UnreadNext
<1>7. Onward(t, Mach(p, h, d, u, o, l, r)) =
        Mach(p + 1, h, GotInto(tp, h, i, e), Unread(i, e), o, l, r)
  <2>1. CASE g = Len(i)
    <3>1. Onward(t, Mach(p, h, d, u, o, l, r)) = Mach(p + 1, h, d, u, o, l, r)
      BY ONLY <1>6, <2>1, ~(p >= Len(t)), t[p + 1] = Comma, OnwardEmpty
    <3> QED
      BY <1>3, <1>4, <2>1, <3>1
  <2>2. CASE g < Len(i)
    <3>1. PICK w, x : w = Head(u) /\ x = Tail(u)
      OBVIOUS
    <3>2. Onward(t, Mach(p, h, d, u, o, l, r)) =
            Mach(p + 1, h, [d EXCEPT ![h] = w], x, o, l, r)
      BY ONLY <1>6, <2>2, <3>1, ~(p >= Len(t)), t[p + 1] = Comma DEF Onward, Machine!Char, Mach, Comma
    <3>3. e # 0 /\ GotInto(tp, h, i, e) = [tp EXCEPT ![h] = i[e]]
      <4>1. e # 0
        BY <1>3, <1>5, <2>2
      <4> QED
        BY <4>1 DEF GotInto
    <3>4. w = i[e]
      BY <1>3, <1>6, <2>2, <3>1
    <3>5. [d EXCEPT ![h] = w] = [tp EXCEPT ![h] = w]
      BY <1>4 DEF GotInto
    <3>6. x = Unread(i, e)
      BY <1>3, <1>6, <2>2, <3>1
    <3> QED
      BY <3>2, <3>3, <3>4, <3>5, <3>6
  <2> QED
    BY <1>3, <1>5, <2>1, <2>2
<1> QED
  BY <1>1, <1>2, <1>4, <1>7

Commas(t, a, b) == Only(t, {Comma}, a, b)

IsBytes(i) == i \in Seq(Interpreter!Cell)

\* How many bytes the text from a to b reads.
GotAll(t, i, a, b) == Got(i, Number(t, Comma, a, b))

\* A run of ',' reads as many bytes as there are, the last one stays.
LEMMA ReadRun ==
  ASSUME NEW t, NEW a \in Nat, NEW b \in Nat, NEW h \in Interpreter!Tape,
         NEW tp, NEW i, NEW o, NEW l, NEW r, IsTape(tp), IsBytes(i),
         a <= b, Len(t) \in Nat, b <= Len(t), Commas(t, a, b)
  PROVE  Machine!Ahead(t, Mach(a, h, tp, i, o, l, r), b - a) =
           Mach(b, h, GotInto(tp, h, i, GotAll(t, i, a, b)), Unread(i, GotAll(t, i, a, b)), o, l, r)
<1> DEFINE m == Mach(a, h, tp, i, o, l, r)
           q == b - a
           G(e) == Got(i, Number(t, Comma, a, e))
           M(e) == Mach(e, h, GotInto(tp, h, i, G(e)), Unread(i, G(e)), o, l, r)
           F == [k \in 0..q |-> M(a + k)]
<1>0. tp \in [Interpreter!Tape -> Interpreter!Cell] /\ i \in Seq(Interpreter!Cell)
  BY DEF IsTape, IsBytes
<1>1. q \in Nat /\ 0 \in 0..q /\ q \in 0..q /\ a + q = b /\ a + 0 = a
  OBVIOUS
<1>2. F[0] = m /\ F[q] = M(b)
  <2>1. Number(t, Comma, a, a) = 0
    BY NumberZero
  <2>2. G(a) = 0
    BY <1>0, <2>1, GotNext
  <2>3. GotInto(tp, h, i, 0) = tp /\ Unread(i, 0) = i
    <3>1. 0 \in 0..Len(i)
      BY <1>0
    <3> QED
      BY <1>0, <3>1, UnreadNext DEF GotInto
  <2> HIDE DEF G
  <2>4. M(a) = m
    BY <2>2, <2>3
  <2> HIDE DEF M, m
  <2> QED
    BY <1>1, <2>4
<1>3. \A k \in 0..q : k < q => F[k + 1] = Onward(t, F[k])
  <2> TAKE k \in 0..q
  <2> HAVE k < q
  <2>1. PICK p \in Nat : p = a + k /\ a <= p /\ p < b
    OBVIOUS
  <2>2. ~(p >= Len(t)) /\ t[p + 1] \in {Comma} \cup {"other"}
    BY <2>1, RunChar DEF Commas
  <2>3. k + 1 \in 0..q /\ a + (k + 1) = p + 1
    BY <2>1
  <2>4. PICK n : n = Number(t, Comma, a, p)
    OBVIOUS
  <2>5. /\ n \in Nat
        /\ t[p + 1] = Comma => Number(t, Comma, a, p + 1) = n + 1
        /\ t[p + 1] # Comma => Number(t, Comma, a, p + 1) = n
    BY <2>1, <2>4, NumberNext
  <2>6. Onward(t, M(p)) = M(p + 1)
    <3>1. CASE t[p + 1] = Comma
      <4>1. G(p) = Got(i, n) /\ G(p + 1) = Got(i, n + 1)
        BY <2>4, <2>5, <3>1
      <4> HIDE DEF G
      <4>2. Onward(t, Mach(p, h, GotInto(tp, h, i, Got(i, n)), Unread(i, Got(i, n)), o, l, r)) =
              Mach(p + 1, h, GotInto(tp, h, i, Got(i, n + 1)), Unread(i, Got(i, n + 1)), o, l, r)
        BY <1>0, <2>2, <2>5, <3>1, ReadChar
      <4> QED
        BY <4>1, <4>2
    <3>2. CASE t[p + 1] = "other"
      <4>1. G(p + 1) = G(p)
        BY <2>4, <2>5, <3>2, CommaIs
      <4> HIDE DEF G
      <4>2. PICK d, u : d = GotInto(tp, h, i, G(p)) /\ u = Unread(i, G(p))
        OBVIOUS
      <4>3. Onward(t, Mach(p, h, d, u, o, l, r)) = Mach(p + 1, h, d, u, o, l, r)
        BY ONLY <2>2, <3>2, OnwardOther
      <4> QED
        BY <4>1, <4>2, <4>3
    <3> QED
      BY <2>2, <3>1, <3>2
  <2> HIDE DEF M
  <2> QED
    BY <2>1, <2>3, <2>6
<1> HIDE DEF F, m, q, M
<1>4. Machine!Ahead(t, m, q) = F[q]
  BY <1>1, <1>2, <1>3, AheadRun
<1>5. M(b) = Mach(b, h, GotInto(tp, h, i, GotAll(t, i, a, b)), Unread(i, GotAll(t, i, a, b)), o, l, r)
  BY DEF M, GotAll
<1> QED
  BY <1>2, <1>4, <1>5 DEF m, q

\* The head after x is added to it, at a tape with M cells: where it is, and
\* how often an edge was crossed to the left and to the right.
Wraps(M, x, h, l, r) ==
  /\ h \in 0..(M - 1) /\ l \in Nat /\ r \in Nat
  /\ x = M * (r - l) + h

LEMMA WrapsRight ==
  ASSUME NEW M \in Nat \ {0}, NEW x \in Int, NEW h, NEW l, NEW r, Wraps(M, x, h, l, r)
  PROVE  Wraps(M, x + 1, (h + 1) % M, l, IF h = M - 1 THEN r + 1 ELSE r)
<1>1. h \in 0..(M - 1) /\ l \in Nat /\ r \in Nat /\ x = M * (r - l) + h
  BY DEF Wraps
<1>2. CASE h = M - 1
  <2>1. PICK y \in Int : y = h + 1
    BY <1>1
  <2>2. y = M * 1 + 0 /\ 0 \in 0..(M - 1)
    BY <1>2, <2>1
  <2>3. y % M = 0
    BY <2>2, ModUnique
  <2>4. M * ((r + 1) - l) = M * (r - l) + M
    BY <1>1
  <2>5. x + 1 = M * ((r + 1) - l) + 0
    BY <1>1, <1>2, <2>4
  <2> QED
    BY <1>1, <1>2, <2>1, <2>2, <2>3, <2>5 DEF Wraps
<1>3. CASE h # M - 1
  <2>1. PICK y \in 0..(M - 1) : y = h + 1
    BY <1>1, <1>3
  <2>2. y % M = y
    BY ModSmall
  <2>3. x + 1 = M * (r - l) + y
    BY <1>1, <2>1
  <2> QED
    BY <1>1, <1>3, <2>1, <2>2, <2>3 DEF Wraps
<1> QED
  BY <1>2, <1>3

LEMMA WrapsLeft ==
  ASSUME NEW M \in Nat \ {0}, NEW x \in Int, NEW h, NEW l, NEW r, Wraps(M, x, h, l, r)
  PROVE  Wraps(M, x - 1, (h - 1) % M, IF h = 0 THEN l + 1 ELSE l, r)
<1>1. h \in 0..(M - 1) /\ l \in Nat /\ r \in Nat /\ x = M * (r - l) + h
  BY DEF Wraps
<1>2. CASE h = 0
  <2>1. PICK y \in Int, z \in 0..(M - 1) : y = h - 1 /\ z = M - 1
    BY <1>1
  <2>2. y = M * (-1) + z /\ -1 \in Int
    BY <1>2, <2>1
  <2>3. y % M = z
    BY <2>2, ModUnique
  <2>4. M * (r - (l + 1)) = M * (r - l) - M
    BY <1>1
  <2>5. x - 1 = M * (r - (l + 1)) + z
    BY <1>1, <1>2, <2>1, <2>4
  <2> QED
    BY <1>1, <1>2, <2>1, <2>3, <2>5 DEF Wraps
<1>3. CASE h # 0
  <2>1. PICK y \in 0..(M - 1) : y = h - 1
    BY <1>1, <1>3
  <2>2. y % M = y
    BY ModSmall
  <2>3. x - 1 = M * (r - l) + y
    BY <1>1, <2>1
  <2> QED
    BY <1>1, <1>3, <2>1, <2>2, <2>3 DEF Wraps
<1> QED
  BY <1>2, <1>3

\* What a run of '>' and '<' adds.
Net(t, a, e) == Number(t, ">", a, e) - Number(t, "<", a, e)

LEMMA NetNext ==
  ASSUME NEW t, NEW a \in Nat, NEW e \in Nat, a <= e
  PROVE  /\ Net(t, a, e) \in Int /\ Net(t, a, a) = 0
         /\ t[e + 1] = ">" => Net(t, a, e + 1) = Net(t, a, e) + 1
         /\ t[e + 1] = "<" => Net(t, a, e + 1) = Net(t, a, e) - 1
         /\ t[e + 1] = "other" => Net(t, a, e + 1) = Net(t, a, e)
<1> DEFINE u == Number(t, ">", a, e)
           d == Number(t, "<", a, e)
           u1 == Number(t, ">", a, e + 1)
           d1 == Number(t, "<", a, e + 1)
<1>1. /\ u \in Nat /\ d \in Nat
      /\ t[e + 1] = ">" => u1 = u + 1 /\ d1 = d
      /\ t[e + 1] = "<" => u1 = u /\ d1 = d + 1
      /\ t[e + 1] = "other" => u1 = u /\ d1 = d
  BY NumberNext
<1>2. Number(t, ">", a, a) = 0 /\ Number(t, "<", a, a) = 0
  BY NumberZero
<1>3. Net(t, a, e) = u - d /\ Net(t, a, e + 1) = u1 - d1
  BY DEF Net
<1>4. Net(t, a, a) = 0
  BY <1>2 DEF Net
<1> HIDE DEF u, d, u1, d1
<1> QED
  BY <1>1, <1>3, <1>4

\* The machine has made k characters of a run of moves from m.
Moves(t, a, h, tp, i, o, k, x) ==
  \E hd, l, r : /\ x = Mach(a + k, hd, tp, i, o, l, r)
                /\ Wraps(Capacity, h + Net(t, a, a + k), hd, l, r)

LEMMA MovesNext ==
  ASSUME NEW t, NEW a \in Nat, NEW b \in Nat, NEW h \in Nat, NEW tp, NEW i, NEW o, NEW k \in Nat,
         NEW x, Len(t) \in Nat, b <= Len(t), Only(t, {">", "<"}, a, b), a + k < b,
         Moves(t, a, h, tp, i, o, k, x)
  PROVE  Moves(t, a, h, tp, i, o, k + 1, Onward(t, x))
<1>1. PICK hd, l, r : /\ x = Mach(a + k, hd, tp, i, o, l, r)
                      /\ Wraps(Capacity, h + Net(t, a, a + k), hd, l, r)
  BY DEF Moves
<1>2. PICK p \in Nat : p = a + k /\ a <= p /\ p < b
  OBVIOUS
<1>3. ~(p >= Len(t)) /\ t[p + 1] \in {">", "<"} \cup {"other"}
  BY <1>2, RunChar
<1>4. a + (k + 1) = p + 1
  BY <1>2
<1>5. PICK n : n = Net(t, a, p)
  OBVIOUS
<1>6. PICK n1 : n1 = Net(t, a, p + 1)
  OBVIOUS
<1>7. /\ n \in Int
      /\ t[p + 1] = ">" => n1 = n + 1
      /\ t[p + 1] = "<" => n1 = n - 1
      /\ t[p + 1] = "other" => n1 = n
  BY <1>2, <1>5, <1>6, NetNext, ZenonT(30)
<1>8. PICK y \in Int : y = h + n
  BY <1>7
<1>9. x = Mach(p, hd, tp, i, o, l, r) /\ Wraps(Capacity, y, hd, l, r)
  BY <1>1, <1>2, <1>5, <1>8
<1>10. \E hd1, l1, r1 : Onward(t, x) = Mach(p + 1, hd1, tp, i, o, l1, r1)
                        /\ Wraps(Capacity, h + n1, hd1, l1, r1)
  <2>1. CASE t[p + 1] = ">"
    <3>1. PICK hd1, r1 : hd1 = (hd + 1) % Capacity /\ r1 = IF hd = Capacity - 1 THEN r + 1 ELSE r
      OBVIOUS
    <3>2. Onward(t, x) = Mach(p + 1, hd1, tp, i, o, l, r1)
      BY ONLY <1>3, <1>9, <2>1, <3>1, OnwardRight
    <3>3. Wraps(Capacity, y + 1, hd1, l, r1)
      BY <1>9, <3>1, WrapsRight, TapeAssumption
    <3>4. h + n1 = y + 1
      BY <1>7, <1>8, <2>1
    <3> QED
      BY <3>2, <3>3, <3>4
  <2>2. CASE t[p + 1] = "<"
    <3>1. PICK hd1, l1 : hd1 = (hd - 1) % Capacity /\ l1 = IF hd = 0 THEN l + 1 ELSE l
      OBVIOUS
    <3>2. Onward(t, x) = Mach(p + 1, hd1, tp, i, o, l1, r)
      BY ONLY <1>3, <1>9, <2>2, <3>1, OnwardLeft
    <3>3. Wraps(Capacity, y - 1, hd1, l1, r)
      BY <1>9, <3>1, WrapsLeft, TapeAssumption
    <3>4. h + n1 = y - 1
      BY <1>7, <1>8, <2>2
    <3> QED
      BY <3>2, <3>3, <3>4
  <2>3. CASE t[p + 1] = "other"
    <3>1. Onward(t, x) = Mach(p + 1, hd, tp, i, o, l, r)
      BY ONLY <1>3, <1>9, <2>3, OnwardOther
    <3>2. h + n1 = y
      BY <1>7, <1>8, <2>3
    <3> QED
      BY <1>9, <3>1, <3>2
  <2> QED
    BY <1>3, <2>1, <2>2, <2>3
<1> QED
  BY <1>4, <1>6, <1>10 DEF Moves

\* A run of '>' and '<' moves the head around the tape.
LEMMA TapeRun ==
  ASSUME NEW t, NEW a \in Nat, NEW b \in Nat, NEW h \in Interpreter!Tape,
         NEW tp, NEW i, NEW o,
         a <= b, Len(t) \in Nat, b <= Len(t), Only(t, {">", "<"}, a, b)
  PROVE  \E hd, l, r :
           /\ Machine!Ahead(t, Mach(a, h, tp, i, o, 0, 0), b - a) = Mach(b, hd, tp, i, o, l, r)
           /\ Wraps(Capacity, h + Net(t, a, b), hd, l, r)
<1> DEFINE m == Mach(a, h, tp, i, o, 0, 0)
           q == b - a
           A(k) == Machine!Ahead(t, m, k)
           T == {k \in 0..q : ~Moves(t, a, h, tp, i, o, k, A(k))}
<1>1. q \in Nat /\ q \in 0..q /\ a + q = b /\ a + 0 = a
  OBVIOUS
<1>2. h \in 0..(Capacity - 1) /\ h \in Nat
  BY TapeAssumption DEF Interpreter!Tape
<1>3. Moves(t, a, h, tp, i, o, 0, A(0))
  <2>1. A(0) = m
    BY AheadZero
  <2>2. Net(t, a, a) = 0
    BY NetNext
  <2>3. Wraps(Capacity, h, h, 0, 0)
    <3>1. Capacity * (0 - 0) = 0
      BY TapeAssumption
    <3> QED
      BY <1>2, <3>1 DEF Wraps
  <2>4. h + Net(t, a, a + 0) = h
    BY <1>1, <1>2, <2>2
  <2> HIDE DEF A
  <2> QED
    BY <1>1, <2>1, <2>3, <2>4 DEF Moves
<1>4. T = {}
  <2> SUFFICES ASSUME T # {} PROVE FALSE
    OBVIOUS
  <2>1. PICK k \in T : \A y \in T : k <= y
    <3>1. T \subseteq Nat
      OBVIOUS
    <3> HIDE DEF T
    <3> QED
      BY <3>1, LeastNat
  <2>2. k \in 0..q /\ ~Moves(t, a, h, tp, i, o, k, A(k))
    BY <2>1
  <2> HIDE DEF A
  <2>3. k # 0
    BY <1>3, <2>2
  <2>4. PICK j \in Nat : k = j + 1 /\ j \in 0..q /\ a + j < b
    <3>1. k - 1 \in Nat /\ k = (k - 1) + 1 /\ k - 1 \in 0..q /\ a + (k - 1) < b
      BY <2>2, <2>3
    <3> QED
      BY <3>1
  <2>5. Moves(t, a, h, tp, i, o, j, A(j))
    <3>1. ~(k <= j)
      BY <2>4
    <3>2. j \notin T
      <4> HIDE DEF T
      <4> QED
        BY <2>1, <3>1
    <3> QED
      BY <2>4, <3>2
  <2>6. A(j + 1) = Onward(t, A(j))
    BY AheadNext DEF A
  <2> HIDE DEF m, q, T
  <2>7. Moves(t, a, h, tp, i, o, j + 1, A(j + 1))
    BY <1>2, <2>4, <2>5, <2>6, MovesNext
  <2> QED
    BY <2>2, <2>4, <2>7
<1> HIDE DEF A
<1>5. Moves(t, a, h, tp, i, o, q, A(q))
  BY <1>1, <1>4
<1> HIDE DEF T, q, m
<1>6. \E hd, l, r : /\ A(q) = Mach(b, hd, tp, i, o, l, r)
                    /\ Wraps(Capacity, h + Net(t, a, b), hd, l, r)
  BY <1>1, <1>5 DEF Moves
<1> QED
  BY <1>6 DEF A, m, q

---------------------------------------------------------------------------
(* The brackets of the machine *)

LEMMA BalancedIs ==
  ASSUME NEW t, NEW i, NEW j
  PROVE  Machine!Balanced(t, i, j) <=> Tally(t, "[", i, j) = Tally(t, "]", i, j)
BY SameCardinality DEF Machine!Balanced, Machine!Count, Tally

LEMMA TallyNat ==
  ASSUME NEW t, NEW c, NEW a \in Int, NEW b \in Int
  PROVE  Tally(t, c, a, b) \in Nat
BY TallyType

\* The machine finds the ']' that encloses the loop.
LEMMA EndOf ==
  ASSUME NEW t, NEW a \in Nat, NEW b \in Nat, a <= b, Len(t) \in Nat, b <= Len(t),
         Encloses(t, a, b)
  PROVE  Machine!MatchingEnd(t, a) = b
<1> DEFINE ends == {j \in a..Len(t) : Machine!Balanced(t, a, j)}
<1>1. b \in ends
  BY BalancedIs DEF Encloses
<1>2. \A j \in ends : b <= j
  <2> SUFFICES ASSUME NEW j \in ends, ~(b <= j) PROVE FALSE
    OBVIOUS
  <2>1. j \in Int /\ a <= j /\ Tally(t, "[", a, j) = Tally(t, "]", a, j)
    BY BalancedIs
  <2>2. j \in a..(b - 1)
    BY <2>1
  <2>3. Tally(t, "]", a, j) < Tally(t, "[", a, j)
    BY <2>2 DEF Encloses, StaysOpen
  <2>4. Tally(t, "[", a, j) \in Nat
    <3>1. a \in Int /\ j \in Int
      BY <2>1
    <3> QED
      BY ONLY <3>1, TallyNat
  <2> QED
    BY <2>1, <2>3, <2>4
<1>3. \A j \in ends : j \in Int
  OBVIOUS
<1>4. Machine!MatchingEnd(t, a) =
        IF ends = {} THEN a ELSE CHOOSE j \in ends : \A k \in ends : j <= k
  BY DEF Machine!MatchingEnd
<1> HIDE DEF ends
<1>5. \A j \in ends : (\A k \in ends : j <= k) => j = b
  BY <1>1, <1>2, <1>3
<1>6. (CHOOSE j \in ends : \A k \in ends : j <= k) = b
  BY <1>1, <1>2, <1>5
<1> QED
  BY <1>1, <1>4, <1>6

\* A loop that is never closed has none.
LEMMA EndNone ==
  ASSUME NEW t, NEW a \in Nat, Len(t) \in Nat, StaysOpen(t, a, Len(t))
  PROVE  Machine!MatchingEnd(t, a) = a
<1> DEFINE ends == {j \in a..Len(t) : Machine!Balanced(t, a, j)}
<1>1. ends = {}
  <2> SUFFICES ASSUME NEW j \in ends PROVE FALSE
    OBVIOUS
  <2>1. j \in Int /\ Tally(t, "[", a, j) = Tally(t, "]", a, j)
    BY BalancedIs
  <2>2. Tally(t, "]", a, j) < Tally(t, "[", a, j)
    BY DEF StaysOpen
  <2>3. Tally(t, "[", a, j) \in Nat
    <3>1. a \in Int /\ j \in Int
      BY <2>1
    <3> QED
      BY ONLY <3>1, TallyNat
  <2> QED
    BY <2>1, <2>2, <2>3
<1> QED
  BY <1>1 DEF Machine!MatchingEnd

\* Read from the right, the loop is open until its '['.
LEMMA StartOf ==
  ASSUME NEW t, NEW a \in Nat \ {0}, NEW b \in Nat, a <= b, Encloses(t, a, b)
  PROVE  Machine!MatchingStart(t, b) = a
<1> DEFINE starts == {i \in 1..b : Machine!Balanced(t, i, b)}
<1>1. a \in starts
  BY BalancedIs DEF Encloses
<1>2. \A i \in starts : i <= a
  <2> SUFFICES ASSUME NEW i \in starts, ~(i <= a) PROVE FALSE
    OBVIOUS
  <2>1. i \in 1..b /\ Tally(t, "[", i, b) = Tally(t, "]", i, b)
    BY BalancedIs
  <2>2. PICK k \in Int : k + 1 = i
    <3>1. i - 1 \in Int /\ (i - 1) + 1 = i
      BY <2>1
    <3> QED
      BY <3>1
  <2>3. k \in a..(b - 1) /\ a <= k + 1 /\ k <= b
    BY <2>1, <2>2
  <2>4. Tally(t, "]", a, k) < Tally(t, "[", a, k)
    BY <2>3 DEF Encloses, StaysOpen
  <2>5. a \in Int /\ b \in Int
    OBVIOUS
  <2>6. \A c : Tally(t, c, a, b) = Tally(t, c, a, k) + Tally(t, c, k + 1, b)
    BY ONLY <2>2, <2>3, <2>5, TallySplit
  <2>7. Tally(t, "]", a, b) = Tally(t, "[", a, b)
    BY DEF Encloses
  <2>8. \A c : Tally(t, c, a, k) \in Nat /\ Tally(t, c, i, b) \in Nat
    <3>1. a \in Int /\ b \in Int /\ k \in Int /\ i \in Int
      BY <2>1, <2>2, <2>5
    <3> QED
      BY ONLY <3>1, TallyNat
  <2>9. /\ Tally(t, "]", a, k) + Tally(t, "]", i, b) = Tally(t, "[", a, k) + Tally(t, "[", i, b)
        /\ Tally(t, "]", a, k) \in Nat /\ Tally(t, "]", i, b) \in Nat
        /\ Tally(t, "[", a, k) \in Nat /\ Tally(t, "[", i, b) \in Nat
    BY <2>2, <2>6, <2>7, <2>8
  <2> QED
    BY ONLY <2>1, <2>4, <2>9
<1>3. \A i \in starts : i \in Int
  OBVIOUS
<1>4. Machine!MatchingStart(t, b) =
        IF starts = {} THEN b ELSE CHOOSE i \in starts : \A k \in starts : k <= i
  BY DEF Machine!MatchingStart
<1> HIDE DEF starts
<1>5. \A i \in starts : (\A k \in starts : k <= i) => i = a
  BY <1>1, <1>2, <1>3
<1>6. (CHOOSE i \in starts : \A k \in starts : k <= i) = a
  BY <1>1, <1>2, <1>5
<1> QED
  BY <1>1, <1>4, <1>6

\* Where one subtraction of the capacity leaves the head.
LEMMA MovedIs ==
  ASSUME NEW x \in Int
  PROVE  /\ Interpreter!Moved(x) \in Int
         /\ 0 <= x /\ x < Capacity => Interpreter!Moved(x) = x
         /\ Capacity <= x /\ x < 2 * Capacity => Interpreter!Moved(x) = x - Capacity
         /\ x < 0 => Interpreter!Moved(x) < 0
         /\ 2 * Capacity <= x => Interpreter!Moved(x) >= Capacity
<1>1. PICK M, C : M = SizeMod /\ C = Capacity
  OBVIOUS
<1>2. C \in Nat \ {0} /\ M \in Nat \ {0} /\ M > 2 * C
  BY <1>1, TapeAssumption, SizeAssumption
<1>3. PICK u, q : u = x % M /\ u \in 0..(M - 1) /\ q \in Int /\ x = M * q + u
  <2>1. x % M \in 0..(M - 1) /\ \E q \in Int : x = M * q + (x % M)
    BY <1>2, ModType
  <2> QED
    BY <2>1
<1>4. 0 <= x /\ x < 2 * C => u = x
  <2> HAVE 0 <= x /\ x < 2 * C
  <2>1. x \in 0..(M - 1)
    BY <1>2
  <2> QED
    BY <1>2, <1>3, <2>1, ModSmall
<1>5. x < 0 => q <= -1
  <2> SUFFICES ASSUME x < 0, q >= 0 PROVE FALSE
    BY <1>3
  <2>1. PICK e \in Int : e = M * q
    BY <1>2, <1>3
  <2>2. e >= 0
    BY <1>2, <1>3, <2>1
  <2>3. x = e + u /\ u >= 0 /\ u \in Int /\ x \in Int /\ x < 0
    BY <1>2, <1>3, <2>1
  <2> QED
    BY ONLY <2>1, <2>2, <2>3
<1>6. x < 0 => x <= u - M
  <2> HAVE x < 0
  <2>1. M * q <= -M
    BY <1>2, <1>3, <1>5
  <2> QED
    BY <1>2, <1>3, <2>1
<1>7. PICK y : y = Interpreter!Moved(x)
  OBVIOUS
<1>8. y = IF u >= C THEN x - C ELSE IF x < 0 THEN x + C ELSE x
  BY <1>1, <1>3, <1>7 DEF Interpreter!Moved, Interpreter!Unsigned
<1>9. /\ y \in Int
      /\ 0 <= x /\ x < C => y = x
      /\ C <= x /\ x < 2 * C => y = x - C
      /\ x < 0 => y < 0
      /\ 2 * C <= x => y >= C
  BY <1>2, <1>3, <1>4, <1>6, <1>8
<1> QED
  BY <1>1, <1>7, <1>9

LEMMA WrapsIs ==
  ASSUME NEW M \in Nat \ {0}, NEW x \in Int, NEW h, NEW l, NEW r, Wraps(M, x, h, l, r)
  PROVE  /\ 0 <= x /\ x < M => h = x
         /\ M <= x /\ x < 2 * M => h = x - M
         /\ x < 0 => l > 0
         /\ 2 * M <= x => r > 1
<1>1. h \in 0..(M - 1) /\ l \in Nat /\ r \in Nat /\ x = M * (r - l) + h
  BY DEF Wraps
<1>2. PICK d \in Int : d = r - l
  BY <1>1
<1>3. x = M * d + h
  BY <1>1, <1>2
<1>4. d <= -1 => M * d <= -M
  BY <1>2
<1>5. d >= 2 => M * d >= 2 * M
  BY <1>2
<1>6. d = 0 => M * d = 0
  BY <1>2
<1>7. d = 1 => M * d = M
  BY <1>2
<1>8. d <= -1 \/ d = 0 \/ d = 1 \/ d >= 2
  BY <1>2
<1>9. PICK e \in Int : e = M * d
  BY <1>2
<1>10. /\ x = e + h
       /\ d <= -1 => e <= -M
       /\ d >= 2 => e >= 2 * M
       /\ d = 0 => e = 0
       /\ d = 1 => e = M
  BY <1>3, <1>4, <1>5, <1>6, <1>7, <1>9
<1> QED
  BY ONLY <1>1, <1>2, <1>8, <1>10, M \in Nat \ {0}, x \in Int

---------------------------------------------------------------------------
(* The state behind the parser *)

Tape == Interpreter!Tape
Cell == Interpreter!Cell

\* What is in the interpreter's hands; the head is on the tape until it strays.
TapeInv ==
  /\ sp \in Int /\ data \in [Tape -> Cell]
  /\ stdin \in Seq(Cell) /\ stdout \in Seq(Cell)
  /\ strayed \in BOOLEAN /\ (strayed \/ sp \in Tape)

\* The IR with its halt, and ip at one of its operations.
Loaded ==
  /\ pc = "parsed"
  /\ Len(ir) = Len(src) + 1
  /\ WellFormed(ir)
  /\ ip \in 0..Len(src)

(***************************************************************************)
(* The inductive invariant behind the refinement: the IR stands for the    *)
(* text that is read, and ip for a position in it.                         *)
(***************************************************************************)
RunInv ==
  /\ file \in Seq(Char) /\ src \in Seq(Nat)
  /\ TextInv
  /\ TapeInv
  /\ status = "idle" => IInv /\ ip = 0
  /\ status # "idle" => Loaded

\* The refinement mapping of ip.
LEMMA PositionIs ==
  ASSUME RunInv, status # "idle"
  PROVE  Position = Until(Places(file, src), Len(src), Len(Text), ip)
<1>1. Len(src) \in Nat /\ Len(ir) = Len(src) + 1 /\ ip \in 0..Len(src)
  BY DEF RunInv, Loaded
<1>2. CASE ip = Len(src)
  BY <1>1, <1>2 DEF Position, Until
<1>3. CASE ip # Len(src)
  <2>1. ip + 1 \in 1..Len(src) /\ ip < Len(src) /\ ip + 1 # Len(ir)
    BY <1>1, <1>3
  <2>2. PICK n \in Nat : n = src[ip + 1]
    BY <2>1 DEF RunInv
  <2>3. Len(Effective(n)) = Rank(file, n)
    <3>1. PICK f, t : f = file /\ t = Effective(n)
      OBVIOUS
    <3> QED
      BY <3>1, EffectiveReads DEF Rank
  <2>4. Places(file, src)[ip + 1] = Rank(file, n)
    BY <2>1, <2>2 DEF Places
  <2>5. Position = Len(Effective(n))
    BY <2>1, <2>2 DEF Position
  <2> QED
    BY <2>1, <2>3, <2>4, <2>5 DEF Until
<1> QED
  BY <1>2, <1>3

---------------------------------------------------------------------------
(* The operations of the finished IR *)

\* The halt behind the operations changes nothing of what they mean.
LEMMA MeansAgree ==
  ASSUME NEW t, NEW s, NEW r, NEW P, NEW n \in Nat, Means(t, s, P, n), Agree(r, s, n)
  PROVE  Means(t, r, P, n)
<1>1. \A i \in 1..n : r[i] = s[i]
  BY DEF Agree
<1>2. \A i \in 1..n : IsClosed(r, i) <=> IsClosed(s, i)
  BY <1>1 DEF IsClosed
<1> QED
  BY <1>1, <1>2 DEF Means, Covers

LEMMA Increasing ==
  ASSUME NEW P, NEW n \in Nat, NEW L, NEW i \in 1..n, NEW j \in 1..n, i < j,
         \A k \in 1..n : P[k] \in Nat /\ P[k] < Until(P, n, L, k)
  PROVE  P[i] < P[j]
<1> DEFINE T == {k \in (i + 1)..n : ~(P[i] < P[k])}
<1>1. T = {}
  <2> SUFFICES ASSUME T # {} PROVE FALSE
    OBVIOUS
  <2>1. PICK k \in T : \A y \in T : k <= y
    <3>1. T \subseteq Nat
      OBVIOUS
    <3> HIDE DEF T
    <3> QED
      BY <3>1, LeastNat
  <2>2. k \in (i + 1)..n /\ ~(P[i] < P[k])
    BY <2>1
  <2>3. PICK g \in i..n : g + 1 = k
    <3>1. k - 1 \in i..n /\ (k - 1) + 1 = k
      BY <2>2
    <3> QED
      BY <3>1
  <2>4. g \in 1..n /\ g < n /\ k \in 1..n
    BY <2>2, <2>3
  <2>5. P[g] < P[k]
    BY <2>3, <2>4 DEF Until
  <2>6. g = i \/ P[i] < P[g]
    <3> SUFFICES ASSUME g # i, ~(P[i] < P[g]) PROVE FALSE
      OBVIOUS
    <3>1. g \in T /\ ~(k <= g)
      BY <2>3, <2>4
    <3> HIDE DEF T
    <3> QED
      BY <2>1, <3>1
  <2>7. P[i] \in Nat /\ P[g] \in Nat /\ P[k] \in Nat
    BY <2>4
  <2> QED
    BY <2>2, <2>5, <2>6, <2>7
<1>2. j \in (i + 1)..n
  OBVIOUS
<1> QED
  BY <1>1, <1>2

LEMMA UntilType ==
  ASSUME NEW t, NEW s, NEW P, NEW n \in Nat, Len(t) \in Nat, Means(t, s, P, n), NEW j \in 0..n
  PROVE  Until(P, n, Len(t), j) \in Nat /\ Until(P, n, Len(t), j) <= Len(t)
<1>1. \A k \in 1..n : P[k] \in Nat /\ P[k] < Len(t)
  BY DEF Means, Behind
<1>2. CASE j < n
  <2>1. j + 1 \in 1..n
    BY <1>2
  <2> QED
    BY <1>1, <1>2, <2>1 DEF Until
<1>3. CASE ~(j < n)
  BY <1>3 DEF Until
<1> QED
  BY <1>2, <1>3

\* The operation at i of a loaded IR, and where it jumps.
LEMMA OpAt ==
  ASSUME NEW s, NEW n \in Nat, Len(s) = n + 1, WellFormed(s), NEW i \in 1..(n + 1),
         s[i].kind # "halt"
  PROVE  /\ i \in 1..n /\ s[i].arg \in Int
         /\ s[i].kind = "loop_start" /\ s[i].arg = 0 => s[i] = Op("loop_start", 0)
         /\ s[i].kind = "loop_start" /\ s[i].arg # 0 =>
              /\ IsClosed(s, i) /\ i + s[i].arg \in 1..n /\ s[i].arg > 0
              /\ s[i + s[i].arg].kind = "loop_end"
         /\ s[i].kind = "loop_end" =>
              /\ i + s[i].arg \in 1..n /\ s[i].arg < 0 /\ IsClosed(s, i + s[i].arg)
              /\ (i + s[i].arg) + s[i + s[i].arg].arg = i
              /\ s[i + s[i].arg].kind = "loop_start"
<1>1. /\ s \in Seq(OpType) /\ LoopsMatched(s)
      /\ \A k \in 1..Len(s) : s[k].kind = "halt" <=> k = Len(s)
  BY DEF WellFormed
<1>2. s[i] \in OpType /\ i \in 1..Len(s)
  BY <1>1
<1>3. i \in 1..n
  BY <1>1, <1>2
<1>4. PICK a \in Int : a = s[i].arg
  BY <1>2 DEF OpType
<1>5. \A k \in 1..Len(s) : s[k].kind # "halt" => k \in 1..n
  BY <1>1
<1>6. s[i].kind = "loop_start" /\ a = 0 => s[i] = Op("loop_start", 0)
  BY <1>2, <1>4 DEF OpType, Op
<1>7. s[i].kind = "loop_start" /\ a # 0 =>
        /\ IsClosed(s, i) /\ i + a \in 1..n /\ a > 0 /\ s[i + a].kind = "loop_end"
  <2> HAVE s[i].kind = "loop_start" /\ a # 0
  <2>1. IsClosed(s, i)
    BY <1>4 DEF IsClosed
  <2>2. a > 0 /\ i + a <= Len(s) /\ s[i + a] = Op("loop_end", -a)
    BY <1>1, <1>2, <1>4, <2>1 DEF LoopsMatched
  <2>3. s[i + a].kind = "loop_end" /\ i + a \in 1..Len(s)
    BY <2>2, OpFields
  <2> QED
    BY <1>5, <2>1, <2>2, <2>3
<1>8. s[i].kind = "loop_end" =>
        /\ i + a \in 1..n /\ a < 0 /\ IsClosed(s, i + a)
        /\ (i + a) + s[i + a].arg = i
        /\ s[i + a].kind = "loop_start"
  <2> HAVE s[i].kind = "loop_end"
  <2>1. a < 0 /\ i + a >= 1 /\ s[i + a] = Op("loop_start", -a)
    BY <1>1, <1>2, <1>4 DEF LoopsMatched
  <2>2. s[i + a].kind = "loop_start" /\ s[i + a].arg = -a
    BY <2>1, OpFields
  <2>3. i + a \in 1..n /\ (i + a) + -a = i
    BY <1>3, <2>1
  <2> QED
    BY <2>1, <2>2, <2>3 DEF IsClosed
<1> QED
  BY <1>3, <1>4, <1>6, <1>7, <1>8

\* What an operation stands for.
MeansAt(t, s, P, k, e) ==
  /\ P[k] \in Nat /\ e \in Nat /\ P[k] < e /\ e <= Len(t)
  /\ Stands(t, s[k], P[k], e)

LEMMA MeansEach ==
  ASSUME NEW t, NEW s, NEW P, NEW n \in Nat, Len(t) \in Nat, Means(t, s, P, n), NEW k \in 1..n
  PROVE  /\ MeansAt(t, s, P, k, Until(P, n, Len(t), k))
         /\ IsClosed(s, k) => Encloses(t, P[k] + 1, P[k + s[k].arg] + 1)
         /\ s[k] = Op("loop_start", 0) => StaysOpen(t, P[k] + 1, Len(t))
<1>1. k \in 0..n
  OBVIOUS
<1>2. Until(P, n, Len(t), k) \in Nat /\ Until(P, n, Len(t), k) <= Len(t)
  BY <1>1, UntilType
<1> QED
  BY <1>2 DEF Means, Covers, MeansAt

LEMMA MeansOrder ==
  ASSUME NEW t, NEW s, NEW P, NEW n \in Nat, Len(t) \in Nat, Means(t, s, P, n),
         NEW i \in 1..n, NEW j \in 1..n, i < j
  PROVE  P[i] < P[j]
<1>1. \A k \in 1..n : P[k] \in Nat /\ P[k] < Until(P, n, Len(t), k)
  BY DEF Means, Covers
<1> QED
  BY <1>1, Increasing

\* The machine gets from one state to another.
Goes(t, u, v) == \E m \in 1..Len(t) : Machine!Ahead(t, u, m) = v

\* A bracket that leads behind the bracket of the operation j.
LEMMA LeadsTo ==
  ASSUME NEW t, NEW c, NEW p, NEW e \in Nat, NEW f \in Nat, NEW h, NEW tp, NEW x, NEW o,
         NEW l, NEW r,
         e < f, Len(t) \in Nat, f <= Len(t), OneOf(t, c, e, f),
         Onward(t, Mach(p, h, tp, x, o, l, r)) = Mach(e + 1, h, tp, x, o, l, r)
  PROVE  Goes(t, Mach(p, h, tp, x, o, l, r), Mach(f, h, tp, x, o, l, r))
<1>1. PICK g \in Nat : g = e + 1 /\ g <= f
  OBVIOUS
<1>2. Only(t, {}, g, f)
  BY <1>1 DEF OneOf
<1>3. Machine!Ahead(t, Mach(g, h, tp, x, o, l, r), f - g) = Mach(f, h, tp, x, o, l, r)
  BY <1>1, <1>2, OtherRun
<1>4. PICK q \in Nat : q = f - g /\ q + 1 = f - e
  BY <1>1
<1>5. Machine!Ahead(t, Mach(p, h, tp, x, o, l, r), q + 1) =
        Machine!Ahead(t, Onward(t, Mach(p, h, tp, x, o, l, r)), q)
  BY AheadAfter
<1>6. Machine!Ahead(t, Mach(p, h, tp, x, o, l, r), f - e) = Mach(f, h, tp, x, o, l, r)
  BY <1>1, <1>3, <1>4, <1>5
<1>7. f - e \in 1..Len(t)
  OBVIOUS
<1> QED
  BY <1>6, <1>7 DEF Goes

\* loop_start: the next operation, or the one behind the loop_end.
LEMMA StartRun ==
  ASSUME NEW t, NEW s, NEW P, NEW n \in Nat, NEW i \in 1..n, NEW h, NEW tp, NEW x, NEW o,
         Len(t) \in Nat, Means(t, s, P, n), Len(s) = n + 1, WellFormed(s),
         s[i].kind = "loop_start", NEW j,
         tp[h] = 0 => j = i + s[i].arg, tp[h] # 0 => j = i
  PROVE  /\ j \in 1..n
         /\ Goes(t, Mach(P[i], h, tp, x, o, 0, 0), Mach(Until(P, n, Len(t), j), h, tp, x, o, 0, 0))
<1>1. PICK d : d = s[i].arg
  OBVIOUS
<1>2. /\ d \in Int
      /\ d = 0 => s[i] = Op("loop_start", 0)
      /\ d # 0 => /\ IsClosed(s, i) /\ i + d \in 1..n /\ d > 0
                  /\ s[i + d].kind = "loop_end"
  <2>1. i \in 1..(n + 1) /\ s[i].kind # "halt"
    OBVIOUS
  <2> QED
    BY <1>1, <2>1, OpAt, SMTT(30)
<1>3. PICK e : e = Until(P, n, Len(t), i)
  OBVIOUS
<1>4. /\ MeansAt(t, s, P, i, e)
      /\ IsClosed(s, i) => Encloses(t, P[i] + 1, P[i + d] + 1)
      /\ s[i] = Op("loop_start", 0) => StaysOpen(t, P[i] + 1, Len(t))
  BY <1>1, <1>3, MeansEach
<1>5. PICK p \in Nat : p = P[i] /\ p < e /\ e \in Nat /\ e <= Len(t) /\ OneOf(t, "[", p, e)
  BY <1>4 DEF MeansAt, Stands
<1>6. ~(p >= Len(t)) /\ t[p + 1] = "["
  BY <1>5 DEF OneOf
<1>7. PICK g \in Nat : g = p + 1
  BY <1>5
<1>8. CASE tp[h] # 0
  <2>1. Onward(t, Mach(p, h, tp, x, o, 0, 0)) = Mach(p + 1, h, tp, x, o, 0, 0)
    BY <1>6, <1>8, OnwardStart
  <2>2. Goes(t, Mach(p, h, tp, x, o, 0, 0), Mach(e, h, tp, x, o, 0, 0))
    BY <1>5, <2>1, LeadsTo
  <2> QED
    BY <1>3, <1>5, <1>8, <2>2
<1>9. CASE tp[h] = 0 /\ d = 0
  <2>1. Machine!MatchingEnd(t, g) = g
    BY <1>2, <1>4, <1>5, <1>7, <1>9, EndNone
  <2>2. Onward(t, Mach(p, h, tp, x, o, 0, 0)) = Mach(Machine!MatchingEnd(t, p + 1), h, tp, x, o, 0, 0)
    BY <1>6, <1>9, OnwardStart
  <2>3. Goes(t, Mach(p, h, tp, x, o, 0, 0), Mach(e, h, tp, x, o, 0, 0))
    BY <1>5, <1>7, <2>1, <2>2, LeadsTo
  <2>4. j = i
    BY <1>1, <1>9
  <2> QED
    BY <1>3, <1>5, <2>3, <2>4
<1>10. CASE tp[h] = 0 /\ d # 0
  <2>1. j = i + d /\ j \in 1..n /\ s[j].kind = "loop_end" /\ i < j
    BY <1>1, <1>2, <1>10
  <2>2. PICK f : f = Until(P, n, Len(t), j)
    OBVIOUS
  <2>3. MeansAt(t, s, P, j, f)
    BY <2>1, <2>2, MeansEach
  <2>4. PICK q \in Nat : q = P[j] /\ q < f /\ f \in Nat /\ f <= Len(t) /\ OneOf(t, "]", q, f)
    BY <2>1, <2>3 DEF MeansAt, Stands
  <2>5. P[i] < P[j]
    BY <2>1, MeansOrder
  <2>6. PICK b \in Nat : b = q + 1 /\ g <= b /\ b <= Len(t)
    BY <1>5, <1>7, <2>4, <2>5, SMTT(30)
  <2>7. Encloses(t, g, b)
    BY <1>2, <1>4, <1>5, <1>7, <1>10, <2>1, <2>4, <2>6
  <2>8. Machine!MatchingEnd(t, g) = b
    BY <2>6, <2>7, EndOf
  <2>9. Onward(t, Mach(p, h, tp, x, o, 0, 0)) = Mach(Machine!MatchingEnd(t, p + 1), h, tp, x, o, 0, 0)
    BY <1>6, <1>10, OnwardStart
  <2>10. Onward(t, Mach(p, h, tp, x, o, 0, 0)) = Mach(q + 1, h, tp, x, o, 0, 0)
    BY <1>7, <2>6, <2>8, <2>9
  <2>11. Goes(t, Mach(p, h, tp, x, o, 0, 0), Mach(f, h, tp, x, o, 0, 0))
    BY <2>4, <2>10, LeadsTo
  <2> QED
    BY <1>5, <2>1, <2>2, <2>11
<1> QED
  BY <1>8, <1>9, <1>10

\* loop_end: the next operation, or the one behind the loop_start.
LEMMA EndRun ==
  ASSUME NEW t, NEW s, NEW P, NEW n \in Nat, NEW i \in 1..n, NEW h, NEW tp, NEW x, NEW o,
         Len(t) \in Nat, Means(t, s, P, n), Len(s) = n + 1, WellFormed(s),
         s[i].kind = "loop_end", NEW j,
         tp[h] # 0 => j = i + s[i].arg, tp[h] = 0 => j = i
  PROVE  /\ j \in 1..n
         /\ Goes(t, Mach(P[i], h, tp, x, o, 0, 0), Mach(Until(P, n, Len(t), j), h, tp, x, o, 0, 0))
<1>1. PICK d : d = s[i].arg
  OBVIOUS
<1>2. /\ d \in Int /\ i + d \in 1..n /\ d < 0 /\ IsClosed(s, i + d)
      /\ (i + d) + s[i + d].arg = i /\ s[i + d].kind = "loop_start"
  <2>1. i \in 1..(n + 1) /\ s[i].kind # "halt"
    OBVIOUS
  <2> QED
    BY <1>1, <2>1, OpAt, SMTT(30)
<1>3. PICK e : e = Until(P, n, Len(t), i)
  OBVIOUS
<1>4. MeansAt(t, s, P, i, e)
  BY <1>3, MeansEach
<1>5. PICK p \in Nat : p = P[i] /\ p < e /\ e \in Nat /\ e <= Len(t) /\ OneOf(t, "]", p, e)
  BY <1>4 DEF MeansAt, Stands
<1>6. ~(p >= Len(t)) /\ t[p + 1] = "]"
  BY <1>5 DEF OneOf
<1>7. PICK g \in Nat : g = p + 1
  BY <1>5
<1>8. CASE tp[h] = 0
  <2>1. Onward(t, Mach(p, h, tp, x, o, 0, 0)) = Mach(p + 1, h, tp, x, o, 0, 0)
    BY <1>6, <1>8, OnwardEnd
  <2>2. Goes(t, Mach(p, h, tp, x, o, 0, 0), Mach(e, h, tp, x, o, 0, 0))
    BY <1>5, <2>1, LeadsTo
  <2> QED
    BY <1>3, <1>5, <1>8, <2>2
<1>9. CASE tp[h] # 0
  <2>1. j = i + d /\ j \in 1..n /\ s[j].kind = "loop_start" /\ j < i /\ IsClosed(s, j)
        /\ j + s[j].arg = i
    BY <1>1, <1>2, <1>9
  <2>2. PICK f : f = Until(P, n, Len(t), j)
    OBVIOUS
  <2>3. MeansAt(t, s, P, j, f) /\ Encloses(t, P[j] + 1, P[i] + 1)
    BY <2>1, <2>2, MeansEach
  <2>4. PICK q \in Nat : q = P[j] /\ q < f /\ f \in Nat /\ f <= Len(t) /\ OneOf(t, "[", q, f)
    BY <2>1, <2>3 DEF MeansAt, Stands
  <2>5. P[j] < P[i]
    BY <2>1, MeansOrder
  <2>6. PICK b \in Nat \ {0} : b = q + 1 /\ b <= g
    BY <1>5, <1>7, <2>4, <2>5, SMTT(30)
  <2>7. Encloses(t, b, g)
    BY <1>5, <1>7, <2>3, <2>4, <2>6
  <2>8. Machine!MatchingStart(t, g) = b
    BY <2>6, <2>7, StartOf
  <2>9. Onward(t, Mach(p, h, tp, x, o, 0, 0)) = Mach(Machine!MatchingStart(t, p + 1), h, tp, x, o, 0, 0)
    BY <1>6, <1>9, OnwardEnd
  <2>10. Onward(t, Mach(p, h, tp, x, o, 0, 0)) = Mach(q + 1, h, tp, x, o, 0, 0)
    BY <1>7, <2>6, <2>8, <2>9
  <2>11. Goes(t, Mach(p, h, tp, x, o, 0, 0), Mach(f, h, tp, x, o, 0, 0))
    BY <2>4, <2>10, LeadsTo
  <2> QED
    BY <1>5, <2>1, <2>2, <2>11
<1> QED
  BY <1>8, <1>9

LEMMA CellStep ==
  ASSUME NEW t, NEW s, NEW P, NEW i, NEW e, NEW h \in Tape, NEW tp, NEW x, NEW o,
         IsTape(tp), Len(t) \in Nat, MeansAt(t, s, P, i, e), s[i].kind = "cell"
  PROVE  Goes(t, Mach(P[i], h, tp, x, o, 0, 0),
              Mach(e, h, [tp EXCEPT ![h] = Interpreter!CellAdd(@, s[i].arg)], x, o, 0, 0))
<1>1. PICK a, b \in Nat : a = P[i] /\ b = e /\ a < b /\ b <= Len(t)
  BY DEF MeansAt
<1>2. Only(t, {"+", "-"}, a, b) /\ s[i].arg = Number(t, "+", a, b) - Number(t, "-", a, b)
  BY <1>1 DEF MeansAt, Stands
<1>3. h \in Interpreter!Tape /\ IsTape(tp) /\ a <= b
  BY <1>1 DEF Tape, Cell, IsTape
<1>4. Machine!Ahead(t, Mach(a, h, tp, x, o, 0, 0), b - a) =
        Mach(b, h, CellEnd(t, tp, h, a, b), x, o, 0, 0)
  <2>1. /\ a \in Nat /\ b \in Nat /\ h \in Interpreter!Tape
        /\ IsTape(tp)
        /\ a <= b /\ Len(t) \in Nat /\ b <= Len(t) /\ Only(t, {"+", "-"}, a, b)
    BY <1>1, <1>2, <1>3
  <2> QED
    BY ONLY <2>1, CellRun
<1>5. CellValue(t, tp[h], a, b) = Interpreter!CellAdd(tp[h], s[i].arg)
  BY <1>2 DEF CellValue, Interpreter!CellAdd
<1>6. b - a \in 1..Len(t)
  BY <1>1
<1> QED
  BY <1>1, <1>4, <1>5, <1>6 DEF CellEnd, Goes

LEMMA WriteStep ==
  ASSUME NEW t, NEW s, NEW P, NEW i, NEW e, NEW h, NEW tp, NEW x,
         NEW o, IsOut(o, tp[h]),
         Len(t) \in Nat, MeansAt(t, s, P, i, e), s[i].kind = "write"
  PROVE  Goes(t, Mach(P[i], h, tp, x, o, 0, 0),
              Mach(e, h, tp, x, Repeated(o, tp[h], s[i].arg), 0, 0))
<1>1. PICK a, b \in Nat : a = P[i] /\ b = e /\ a < b /\ b <= Len(t)
  BY DEF MeansAt
<1>2. Only(t, {"."}, a, b) /\ s[i].arg = Number(t, ".", a, b)
  BY <1>1 DEF MeansAt, Stands
<1>3. a <= b
  BY <1>1
<1>4. Machine!Ahead(t, Mach(a, h, tp, x, o, 0, 0), b - a) =
        Mach(b, h, tp, x, Repeated(o, tp[h], Number(t, ".", a, b)), 0, 0)
  <2>1. /\ a \in Nat /\ b \in Nat /\ IsOut(o, tp[h])
        /\ a <= b /\ Len(t) \in Nat /\ b <= Len(t) /\ Only(t, {"."}, a, b)
    BY <1>1, <1>2, <1>3 DEF IsOut
  <2> QED
    BY ONLY <2>1, WriteRun
<1>5. b - a \in 1..Len(t)
  BY <1>1
<1> QED
  BY <1>1, <1>2, <1>4, <1>5 DEF Goes

\* How often a byte is written, or read.
LEMMA StandsTimes ==
  ASSUME NEW t, NEW s, NEW P, NEW i, NEW e, MeansAt(t, s, P, i, e), s[i].kind \in {"write", "read"}
  PROVE  s[i].arg \in Nat
<1>1. PICK a, b \in Nat : a = P[i] /\ b = e /\ a <= b
  BY DEF MeansAt
<1>2. PICK c : s[i].arg = Number(t, c, a, b)
  BY <1>1 DEF MeansAt, Stands
<1>3. Number(t, c, a, b) \in Nat
  BY <1>1, NumberNext
<1> QED
  BY <1>2, <1>3

LEMMA StandsRead ==
  ASSUME NEW t, NEW op, NEW a, NEW b, Stands(t, op, a, b), op.kind = "read"
  PROVE  Only(t, {Comma}, a, b) /\ op.arg = Number(t, Comma, a, b)
BY DEF Stands, Comma

LEMMA ReadStep ==
  ASSUME NEW t, NEW s, NEW P, NEW i, NEW e, NEW h \in Tape, NEW tp,
         NEW x \in Seq(Cell), NEW o, IsTape(tp),
         Len(t) \in Nat, MeansAt(t, s, P, i, e), s[i].kind = "read", NEW g, g = Got(x, s[i].arg)
  PROVE  Goes(t, Mach(P[i], h, tp, x, o, 0, 0),
              Mach(e, h, GotInto(tp, h, x, g), Unread(x, g), o, 0, 0))
<1>1. PICK a, b \in Nat : a = P[i] /\ b = e /\ a < b /\ b <= Len(t)
  BY DEF MeansAt
<1>2. Only(t, {Comma}, a, b) /\ s[i].arg = Number(t, Comma, a, b)
  <2>1. Stands(t, s[i], a, b)
    BY <1>1 DEF MeansAt
  <2>2. PICK op : op = s[i]
    OBVIOUS
  <2>3. Stands(t, op, a, b) /\ op.kind = "read"
    BY <2>1, <2>2
  <2>4. Only(t, {Comma}, a, b) /\ op.arg = Number(t, Comma, a, b)
    BY ONLY <2>3, StandsRead
  <2> QED
    BY <2>2, <2>4
<1>3. h \in Interpreter!Tape /\ IsTape(tp) /\ a <= b
  BY <1>1 DEF Tape, Cell, IsTape
<1>4. g = GotAll(t, x, a, b)
  BY <1>2 DEF GotAll
<1>5. Machine!Ahead(t, Mach(a, h, tp, x, o, 0, 0), b - a) =
        Mach(b, h, GotInto(tp, h, x, GotAll(t, x, a, b)),
             Unread(x, GotAll(t, x, a, b)), o, 0, 0)
  <2>1. /\ a \in Nat /\ b \in Nat /\ h \in Interpreter!Tape
        /\ IsTape(tp) /\ IsBytes(x)
        /\ a <= b /\ Len(t) \in Nat /\ b <= Len(t) /\ Commas(t, a, b)
    BY <1>1, <1>2, <1>3 DEF IsBytes, Cell, Commas
  <2> QED
    BY ONLY <2>1, ReadRun
<1>6. b - a \in 1..Len(t)
  BY <1>1
<1> QED
  BY <1>1, <1>4, <1>5, <1>6 DEF Goes

\* The machine gets from u to p; its head is at y, or lost.
Drifts(t, u, p, y, tp, x, o) ==
  \E m \in 1..Len(t) : \E hd, l, r :
    /\ Machine!Ahead(t, u, m) = Mach(p, hd, tp, x, o, l, r)
    /\ y \in Tape => hd = y
    /\ y \notin Tape => l > 0 \/ r > 1

\* Where the head goes, and whether it is lost.
LEMMA TapeStep ==
  ASSUME NEW t, NEW s, NEW P, NEW i, NEW e, NEW h \in Tape, NEW tp, NEW x, NEW o,
         Len(t) \in Nat, MeansAt(t, s, P, i, e), s[i].kind = "tape", NEW y,
         y = Interpreter!Moved(h + s[i].arg)
  PROVE  Drifts(t, Mach(P[i], h, tp, x, o, 0, 0), e, y, tp, x, o)
<1>1. PICK a, b \in Nat : a = P[i] /\ b = e /\ a < b /\ b <= Len(t)
  BY DEF MeansAt
<1>2. Only(t, {">", "<"}, a, b) /\ s[i].arg = Net(t, a, b)
  BY <1>1 DEF MeansAt, Stands, Net
<1>3. h \in Interpreter!Tape /\ a <= b
  BY <1>1 DEF Tape
<1>4. PICK hd, l, r :
        /\ Machine!Ahead(t, Mach(a, h, tp, x, o, 0, 0), b - a) = Mach(b, hd, tp, x, o, l, r)
        /\ Wraps(Capacity, h + Net(t, a, b), hd, l, r)
  <2>1. /\ a \in Nat /\ b \in Nat /\ h \in Interpreter!Tape
        /\ a <= b /\ Len(t) \in Nat /\ b <= Len(t) /\ Only(t, {">", "<"}, a, b)
    BY <1>1, <1>2, <1>3
  <2> QED
    BY ONLY <2>1, TapeRun
<1>5. Net(t, a, b) \in Int
  BY <1>3, NetNext
<1>6. PICK C : C = Capacity
  OBVIOUS
<1>7. C \in Nat \ {0} /\ h \in 0..(C - 1) /\ Tape = 0..(C - 1)
  BY <1>6, TapeAssumption DEF Tape, Interpreter!Tape
<1>8. PICK z \in Int : z = h + Net(t, a, b)
  BY <1>5, <1>7
<1>9. /\ y \in Int
      /\ 0 <= z /\ z < C => y = z
      /\ C <= z /\ z < 2 * C => y = z - C
      /\ z < 0 => y < 0
      /\ 2 * C <= z => y >= C
  BY <1>2, <1>6, <1>8, MovedIs
<1>10. Wraps(C, z, hd, l, r)
  BY <1>4, <1>6, <1>8
<1>11. /\ 0 <= z /\ z < C => hd = z
       /\ C <= z /\ z < 2 * C => hd = z - C
       /\ z < 0 => l > 0
       /\ 2 * C <= z => r > 1
  BY <1>7, <1>8, <1>10, WrapsIs
<1>12. (y \in Tape => hd = y) /\ (y \notin Tape => l > 0 \/ r > 1)
  BY <1>7, <1>8, <1>9, <1>11
<1>13. b - a \in 1..Len(t)
  BY <1>1
<1> QED
  BY <1>1, <1>4, <1>12, <1>13 DEF Drifts

---------------------------------------------------------------------------
(* The steps of the interpreter *)

\* What the machine sees of the state.
Seen == Mach(Position, sp, data, stdin, stdout, 0, 0)

LEMMA SeenIs ==
  Machine!Machine = Seen
BY DEF Machine!Machine, Seen, Mach

\* The interpreter is at an operation of the text.
LEMMA Running ==
  ASSUME RunInv, status = "run", NEW i, i = ip + 1, Interpreter!opcode.kind # "halt"
  PROVE  /\ Len(src) \in Nat /\ Len(Text) \in Nat /\ i \in 1..Len(src)
         /\ Interpreter!opcode = ir[i] /\ ir[i].arg \in Int
         /\ Len(ir) = Len(src) + 1 /\ WellFormed(ir)
         /\ Means(Text, ir, Places(file, src), Len(src))
         /\ Position = Places(file, src)[i]
         /\ MeansAt(Text, ir, Places(file, src), i, Until(Places(file, src), Len(src), Len(Text), i))
<1>1. /\ Len(src) \in Nat /\ Len(ir) = Len(src) + 1 /\ ip \in 0..Len(src) /\ WellFormed(ir)
      /\ pc = "parsed"
  BY DEF RunInv, Loaded
<1>2. Interpreter!opcode = ir[i]
  BY DEF Interpreter!opcode
<1>3. i \in 1..(Len(src) + 1) /\ ir[i].kind # "halt"
  BY <1>1, <1>2
<1>4. i \in 1..Len(src) /\ ir[i].arg \in Int
  BY <1>1, <1>3, OpAt
<1>5. Len(Text) \in Nat
  <2>1. file \in Seq(Char)
    BY DEF RunInv
  <2>2. PICK t : t = Text
    OBVIOUS
  <2> QED
    BY <2>1, <2>2, TextReads
<1>6. Means(Text, ir, Places(file, src), Len(src))
  BY <1>1 DEF RunInv, TextInv
<1>7. Position = Places(file, src)[i]
  <2>1. Position = Until(Places(file, src), Len(src), Len(Text), ip)
    BY PositionIs
  <2>2. ip < Len(src)
    BY <1>1, <1>4
  <2> QED
    BY <2>1, <2>2 DEF Until
<1>8. PICK t, P, n : t = Text /\ P = Places(file, src) /\ n = Len(src)
  OBVIOUS
<1>9. MeansAt(t, ir, P, i, Until(P, n, Len(t), i))
  BY <1>1, <1>4, <1>5, <1>6, <1>8, MeansEach
<1> QED
  BY <1>1, <1>2, <1>4, <1>5, <1>6, <1>7, <1>8, <1>9

\* Nothing of the parser's changes.
Parsed == UNCHANGED <<file, fpos, buffer, ptr, patch, pc, src>>

\* The interpreter has gone to another operation.
LEMMA RunKeeps ==
  ASSUME RunInv, status = "run", Parsed, ir' = ir, ip' \in 0..Len(src), status' # "idle", TapeInv'
  PROVE  /\ RunInv' /\ Text' = Text
         /\ Position' = Until(Places(file, src), Len(src), Len(Text), ip')
<1>1. UNCHANGED <<file, fpos, buffer, ptr, patch, pc, src>> /\ pc = "parsed"
  BY DEF Parsed, RunInv, Loaded
<1>2. Text' = Text
  BY <1>1, TextSame
<1>3. Means(Text, ir, Places(file, src), Len(src))
  BY <1>1 DEF RunInv, TextInv
<1>4. Places(file, src)' = Places(file, src)
  BY <1>1 DEF Places, Rank, Kept, Live, ChunkStart
<1>5. TextInv'
  BY <1>1, <1>2, <1>3, <1>4 DEF TextInv
<1>6. Loaded'
  BY <1>1 DEF RunInv, Loaded
<1>7. RunInv'
  BY <1>1, <1>5, <1>6 DEF RunInv
<1>8. (RunInv /\ status # "idle" => Position = Until(Places(file, src), Len(src), Len(Text), ip))'
  BY PositionIs, PTL
<1>9. Position' = Until(Places(file, src)', Len(src)', Len(Text)', ip')
  BY <1>7, <1>8 DEF Until
<1>10. Len(src)' = Len(src) /\ Len(Text)' = Len(Text)
  BY <1>1, <1>2
<1> QED
  BY <1>2, <1>4, <1>7, <1>9, <1>10

\* The machine arrives where the interpreter does.
LEMMA Arrives ==
  ASSUME Text' = Text, ~strayed, ~strayed', strayed' \in BOOLEAN, NEW m \in 1..Len(Text),
         NEW l, NEW r, Machine!Ahead(Text, Seen, m) = Mach(Position', sp', data', stdin', stdout', l, r)
  PROVE  Machine!Next
<1>1. PICK x : x = Mach(Position', sp', data', stdin', stdout', l, r)
  OBVIOUS
<1>2. x.pos = Position' /\ x.head = sp' /\ x.tape = data' /\ x.in = stdin' /\ x.out = stdout'
  BY <1>1, MachFields
<1>3. Machine!Reach(x)
  BY <1>2 DEF Machine!Reach
<1>4. Machine!Ahead(Text, Machine!Machine, m) = x
  BY <1>1, SeenIs
<1> QED
  BY <1>3, <1>4 DEF Machine!Next

\* Or it leaves the tape where the interpreter does.
LEMMA Strays ==
  ASSUME Text' = Text, ~strayed, strayed', strayed' \in BOOLEAN, NEW m \in 1..Len(Text), NEW h, NEW l, NEW r,
         Machine!Ahead(Text, Seen, m) = Mach(Position', h, data, stdin, stdout, l, r),
         l > 0 \/ r > 1
  PROVE  Machine!Next
<1>1. PICK x : x = Mach(Position', h, data, stdin, stdout, l, r)
  OBVIOUS
<1>2. x.pos = Position' /\ x.left = l /\ x.right = r
  BY <1>1, MachFields
<1>3. Machine!Reach(x)
  BY <1>2 DEF Machine!Reach
<1>4. Machine!Ahead(Text, Machine!Machine, m) = x
  BY <1>1, SeenIs
<1> QED
  BY <1>3, <1>4 DEF Machine!Next

\* A step of the run as the machine sees it.
Sound == RunInv' /\ (Machine!Next \/ UNCHANGED Machine!vars)

\* After it strayed nothing is promised.
LEMMA LostIs ==
  ASSUME Text' = Text, strayed = TRUE, strayed' = TRUE
  PROVE  Machine!Next
BY DEF Machine!Next

StrayUpdate == strayed' = (strayed \/ sp' \notin Interpreter!Tape)

\* The step of main around a step of the interpreter.
InRun == RunInv /\ status = "run" /\ Parsed /\ StrayUpdate

\* A byte outside the tape is touched.
LEMMA WildSound ==
  ASSUME InRun, Interpreter!Wild, sp \notin Tape
  PROVE  Sound
<1>1. /\ RunInv /\ status = "run" /\ Parsed /\ ir' = ir /\ ip' = ip /\ sp' = sp /\ data' = data
      /\ stdin' = stdin /\ stdout' = stdout /\ status' # "idle"
  BY DEF InRun, Interpreter!Wild
<1>2. ip' \in 0..Len(src)
  BY <1>1 DEF RunInv, Loaded
<1>3. strayed = TRUE /\ strayed' = TRUE
  BY <1>1 DEF RunInv, TapeInv, InRun, StrayUpdate
<1>4. TapeInv'
  BY <1>1, <1>3 DEF RunInv, TapeInv
<1>5. RunInv' /\ Text' = Text
  BY <1>1, <1>2, <1>4, RunKeeps
<1> QED
  BY <1>3, <1>5, LostIs DEF Sound

\* The head stays where it is, on the tape.
LEMMA StaysOn ==
  ASSUME InRun, sp \in Tape, sp' = sp, data' \in [Tape -> Cell], stdin' \in Seq(Cell),
         stdout' \in Seq(Cell)
  PROVE  TapeInv' /\ strayed' = strayed /\ strayed \in BOOLEAN /\ sp \in Int
<1>1. strayed \in BOOLEAN /\ sp \in Int
  BY DEF InRun, RunInv, TapeInv
<1>2. strayed' = strayed
  BY <1>1 DEF InRun, StrayUpdate, Tape
<1> QED
  BY <1>1, <1>2 DEF TapeInv

\* An operation that the machine follows.
LEMMA Followed ==
  ASSUME InRun, TapeInv', strayed' = strayed, strayed \in BOOLEAN, ir' = ir, status' # "idle",
         NEW j \in 1..Len(src), ip' = j, NEW e, e = Until(Places(file, src), Len(src), Len(Text), j),
         strayed \/ Goes(Text, Seen, Mach(e, sp', data', stdin', stdout', 0, 0))
  PROVE  Sound
<1>1. RunInv /\ status = "run" /\ Parsed
  BY DEF InRun
<1>2. Len(src) \in Nat /\ ip' \in 0..Len(src)
  BY <1>1 DEF RunInv
<1>3. RunInv' /\ Text' = Text /\ Position' = e
  BY <1>1, <1>2, RunKeeps
<1>4. CASE strayed
  <2>1. strayed = TRUE /\ strayed' = TRUE
    BY <1>4
  <2> QED
    BY <1>3, <2>1, LostIs DEF Sound
<1>5. CASE ~strayed
  <2>1. PICK m \in 1..Len(Text) :
          Machine!Ahead(Text, Seen, m) = Mach(Position', sp', data', stdin', stdout', 0, 0)
    BY <1>3, <1>5 DEF Goes
  <2>2. ~strayed' /\ strayed' \in BOOLEAN
    BY <1>5
  <2>3. Machine!Next
    BY <1>3, <1>5, <2>1, <2>2, Arrives
  <2> QED
    BY <1>3, <2>3 DEF Sound
<1> QED
  BY <1>4, <1>5

\* The names that the steps below use.
LEMMA RunningAt ==
  ASSUME InRun, NEW kind, Interpreter!At(kind), kind # "halt", NEW i, i = ip + 1,
         NEW t, t = Text, NEW P, P = Places(file, src), NEW n, n = Len(src),
         NEW e, e = Until(P, n, Len(t), i)
  PROVE  /\ n \in Nat /\ Len(t) \in Nat /\ i \in 1..n
         /\ Interpreter!opcode = ir[i] /\ ir[i].kind = kind /\ ir[i].arg \in Int
         /\ Len(ir) = n + 1 /\ WellFormed(ir) /\ Means(t, ir, P, n)
         /\ MeansAt(t, ir, P, i, e)
         /\ Seen = Mach(P[i], sp, data, stdin, stdout, 0, 0)
<1>1. RunInv /\ status = "run" /\ Interpreter!opcode.kind = kind
  BY DEF InRun, Interpreter!At
<1>2. /\ Len(src) \in Nat /\ Len(Text) \in Nat /\ i \in 1..Len(src)
      /\ Interpreter!opcode = ir[i] /\ ir[i].arg \in Int
      /\ Len(ir) = Len(src) + 1 /\ WellFormed(ir)
      /\ Means(Text, ir, Places(file, src), Len(src))
      /\ Position = Places(file, src)[i]
      /\ MeansAt(Text, ir, Places(file, src), i, Until(Places(file, src), Len(src), Len(Text), i))
  BY <1>1, Running
<1> QED
  BY <1>1, <1>2 DEF Seen

LEMMA CellSound ==
  ASSUME InRun, Interpreter!ir_op_cell
  PROVE  Sound
<1>1. PICK i, t, P, n : i = ip + 1 /\ t = Text /\ P = Places(file, src) /\ n = Len(src)
  OBVIOUS
<1>2. PICK e : e = Until(P, n, Len(t), i)
  OBVIOUS
<1>3. Interpreter!At("cell")
  BY DEF Interpreter!ir_op_cell
<1>4. /\ n \in Nat /\ Len(t) \in Nat /\ i \in 1..n
      /\ Interpreter!opcode = ir[i] /\ ir[i].kind = "cell" /\ ir[i].arg \in Int
      /\ MeansAt(t, ir, P, i, e)
      /\ Seen = Mach(P[i], sp, data, stdin, stdout, 0, 0)
  BY <1>1, <1>2, <1>3, RunningAt
<1>5. CASE sp \notin Tape
  BY <1>5, WildSound DEF Interpreter!ir_op_cell, Tape
<1>6. CASE sp \in Tape
  <2>1. /\ data' = [data EXCEPT ![sp] = Interpreter!CellAdd(@, ir[i].arg)]
        /\ ip' = ip + 0 + 1 /\ UNCHANGED <<ir, sp, stdin, stdout, status>>
    BY <1>4, <1>6 DEF Interpreter!ir_op_cell, Interpreter!Dispatch, Tape
  <2>2. /\ data \in [Tape -> Cell] /\ stdin \in Seq(Cell) /\ stdout \in Seq(Cell)
        /\ ip \in Nat /\ status = "run"
    BY DEF InRun, RunInv, TapeInv, Loaded
  <2>3. ip' = i
    BY <1>1, <2>1, <2>2
  <2>4. Interpreter!CellAdd(data[sp], ir[i].arg) \in Cell
    <3>1. PICK v \in Int : v = data[sp] + ir[i].arg
      <4>1. data[sp] \in 0..(CellMod - 1) /\ CellMod \in Nat
        BY <1>6, <2>2, ByteAssumption DEF Cell, Interpreter!Cell
      <4>2. data[sp] \in Int
        BY <4>1
      <4> QED
        BY <1>4, <4>2
    <3>2. v % CellMod \in 0..(CellMod - 1)
      BY ModType, ByteAssumption
    <3> QED
      BY <3>1, <3>2 DEF Interpreter!CellAdd, Cell, Interpreter!Cell
  <2>5. data' \in [Tape -> Cell]
    BY <1>6, <2>1, <2>2, <2>4
  <2>6. TapeInv' /\ strayed' = strayed /\ strayed \in BOOLEAN
    BY <1>6, <2>1, <2>2, <2>5, StaysOn
  <2>7. IsTape(data)
    BY <2>2 DEF IsTape, Tape, Cell
  <2>8. Goes(t, Mach(P[i], sp, data, stdin, stdout, 0, 0),
             Mach(e, sp, [data EXCEPT ![sp] = Interpreter!CellAdd(@, ir[i].arg)], stdin, stdout, 0, 0))
    BY <1>4, <1>6, <2>7, CellStep
  <2>9. Goes(Text, Seen, Mach(e, sp', data', stdin', stdout', 0, 0))
    BY <1>1, <1>4, <2>1, <2>8
  <2>10. /\ ir' = ir /\ status' # "idle" /\ i \in 1..Len(src)
         /\ e = Until(Places(file, src), Len(src), Len(Text), i)
    BY <1>1, <1>2, <1>4, <2>1, <2>2
  <2> QED
    BY <2>3, <2>6, <2>9, <2>10, Followed
<1> QED
  BY <1>5, <1>6

LEMMA WriteSound ==
  ASSUME InRun, Interpreter!ir_op_write
  PROVE  Sound
<1>1. PICK i, t, P, n : i = ip + 1 /\ t = Text /\ P = Places(file, src) /\ n = Len(src)
  OBVIOUS
<1>2. PICK e : e = Until(P, n, Len(t), i)
  OBVIOUS
<1>3. Interpreter!At("write")
  BY DEF Interpreter!ir_op_write
<1>4. /\ n \in Nat /\ Len(t) \in Nat /\ i \in 1..n
      /\ Interpreter!opcode = ir[i] /\ ir[i].kind = "write" /\ ir[i].arg \in Int
      /\ MeansAt(t, ir, P, i, e)
      /\ Seen = Mach(P[i], sp, data, stdin, stdout, 0, 0)
  BY <1>1, <1>2, <1>3, RunningAt
<1>5. CASE sp \notin Tape
  BY <1>5, WildSound DEF Interpreter!ir_op_write, Tape
<1>6. CASE sp \in Tape
  <2>1. /\ stdout' = stdout \o [k \in 1..ir[i].arg |-> data[sp]]
        /\ ip' = ip + 0 + 1 /\ UNCHANGED <<ir, sp, data, stdin, status>>
    BY <1>4, <1>6 DEF Interpreter!ir_op_write, Interpreter!Dispatch, Tape
  <2>2. /\ data \in [Tape -> Cell] /\ stdin \in Seq(Cell) /\ stdout \in Seq(Cell)
        /\ ip \in Nat /\ status = "run"
    BY DEF InRun, RunInv, TapeInv, Loaded
  <2>3. ip' = i
    BY <1>1, <2>1, <2>2
  <2>4. /\ ir[i].arg \in Nat
        /\ Goes(t, Mach(P[i], sp, data, stdin, stdout, 0, 0),
                Mach(e, sp, data, stdin, Repeated(stdout, data[sp], ir[i].arg), 0, 0))
    <3>1. IsOut(stdout, data[sp])
      BY <1>6, <2>2 DEF IsOut
    <3>2. /\ IsOut(stdout, data[sp])
          /\ Len(t) \in Nat /\ MeansAt(t, ir, P, i, e) /\ ir[i].kind = "write"
          /\ Seen = Mach(P[i], sp, data, stdin, stdout, 0, 0)
      BY <1>4, <3>1
    <3>3. ir[i].arg \in Nat
      BY <1>4, StandsTimes
    <3>4. Goes(t, Mach(P[i], sp, data, stdin, stdout, 0, 0),
               Mach(e, sp, data, stdin, Repeated(stdout, data[sp], ir[i].arg), 0, 0))
      BY ONLY <3>2, WriteStep
    <3> QED
      BY <3>3, <3>4
  <2>5. stdout' \in Seq(Cell)
    <3>1. data[sp] \in Cell
      BY <1>6, <2>2
    <3>2. Repeated(stdout, data[sp], ir[i].arg) \in Seq(Cell)
      BY <2>2, <2>4, <3>1, RepeatedNext
    <3> QED
      BY <2>1, <3>2 DEF Repeated
  <2>6. TapeInv' /\ strayed' = strayed /\ strayed \in BOOLEAN
    BY <1>6, <2>1, <2>2, <2>5, StaysOn
  <2>7. Goes(Text, Seen, Mach(e, sp', data', stdin', stdout', 0, 0))
    BY <1>1, <1>4, <2>1, <2>4 DEF Repeated
  <2>8. /\ ir' = ir /\ status' # "idle" /\ i \in 1..Len(src)
        /\ e = Until(Places(file, src), Len(src), Len(Text), i)
    BY <1>1, <1>2, <1>4, <2>1, <2>2
  <2> QED
    BY <2>3, <2>6, <2>7, <2>8, Followed
<1> QED
  BY <1>5, <1>6

\* How many bytes the operation gets, and that a read that gets none needs
\* no cell.
LEMMA ReceivedIs ==
  ASSUME NEW a \in Nat, Interpreter!opcode.arg = a, stdin \in Seq(Cell), NEW g, g = Got(stdin, a)
  PROVE  Interpreter!Received = g /\ g \in 0..Len(stdin)
<1>1. Len(stdin) \in Nat
  OBVIOUS
<1> QED
  BY <1>1 DEF Interpreter!Received, Got

LEMMA ReadSound ==
  ASSUME InRun, Interpreter!ir_op_read
  PROVE  Sound
<1>1. PICK i, t, P, n : i = ip + 1 /\ t = Text /\ P = Places(file, src) /\ n = Len(src)
  OBVIOUS
<1>2. PICK e : e = Until(P, n, Len(t), i)
  OBVIOUS
<1>3. Interpreter!At("read")
  BY DEF Interpreter!ir_op_read
<1>4. /\ n \in Nat /\ Len(t) \in Nat /\ i \in 1..n
      /\ Interpreter!opcode = ir[i] /\ ir[i].kind = "read" /\ ir[i].arg \in Int
      /\ MeansAt(t, ir, P, i, e)
      /\ Seen = Mach(P[i], sp, data, stdin, stdout, 0, 0)
  BY <1>1, <1>2, <1>3, RunningAt
<1>5. /\ data \in [Tape -> Cell] /\ stdin \in Seq(Cell) /\ stdout \in Seq(Cell)
      /\ ip \in Nat /\ status = "run"
  BY DEF InRun, RunInv, TapeInv, Loaded
<1>6. ir[i].arg \in Nat
  <2>0. PICK op : op = ir[i]
    OBVIOUS
  <2>1. PICK a, b \in Nat : a = P[i] /\ b = e /\ a <= b /\ Stands(t, op, a, b)
    BY <1>4, <2>0 DEF MeansAt
  <2>2. op.kind = "read"
    BY <1>4, <2>0
  <2>3. op.arg = Number(t, Comma, a, b)
    BY ONLY <2>1, <2>2, StandsRead
  <2>4. Number(t, Comma, a, b) \in Nat
    BY <2>1, NumberNext
  <2> QED
    BY <2>0, <2>3, <2>4
<1>7. PICK g : g = Got(stdin, ir[i].arg)
  OBVIOUS
<1>8. Interpreter!Received = g /\ g \in 0..Len(stdin)
  <2>1. PICK a \in Nat : a = ir[i].arg
    BY <1>6
  <2> QED
    BY <1>4, <1>5, <1>7, <2>1, ReceivedIs
<1>9. e = Until(Places(file, src), Len(src), Len(Text), i) /\ i \in 1..Len(src)
  BY <1>1, <1>2, <1>4
<1>10. CASE g = 0
  <2>1. ip' = ip + 0 + 1 /\ UNCHANGED <<ir, sp, data, stdin, stdout, status>>
    BY <1>8, <1>10 DEF Interpreter!ir_op_read, Interpreter!Dispatch
  <2>2. ip' = i
    BY <1>1, <1>5, <2>1
  <2>3. /\ strayed \in BOOLEAN /\ (strayed \/ sp \in Tape)
        /\ strayed' = (strayed \/ sp \notin Tape) /\ sp \in Int
    BY <2>1 DEF InRun, RunInv, TapeInv, StrayUpdate, Tape
  <2>4. strayed' = strayed
    BY <2>3
  <2>5. TapeInv'
    BY <1>5, <2>1, <2>3, <2>4 DEF TapeInv
  <2>6. strayed \/ Goes(Text, Seen, Mach(e, sp', data', stdin', stdout', 0, 0))
    <3>1. CASE strayed
      BY <3>1
    <3>2. CASE sp \in Tape
      <4>1. IsTape(data)
        BY <1>5 DEF IsTape, Tape, Cell
      <4>2. Goes(t, Mach(P[i], sp, data, stdin, stdout, 0, 0),
                 Mach(e, sp, GotInto(data, sp, stdin, g), Unread(stdin, g), stdout, 0, 0))
        BY <1>4, <1>5, <1>7, <3>2, <4>1, ReadStep
      <4>3. GotInto(data, sp, stdin, g) = data
        BY <1>10 DEF GotInto
      <4>4. Unread(stdin, g) = stdin
        BY <1>5, <1>8, <1>10, UnreadNext
      <4> QED
        BY <1>1, <1>4, <2>1, <4>2, <4>3, <4>4
    <3> QED
      BY <2>3, <3>1, <3>2
  <2> QED
    BY <1>5, <1>9, <2>1, <2>2, <2>3, <2>4, <2>5, <2>6, Followed
<1>11. CASE g # 0 /\ sp \notin Tape
  BY <1>8, <1>11, WildSound DEF Interpreter!ir_op_read, Tape
<1>12. CASE g # 0 /\ sp \in Tape
  <2>1. /\ data' = [data EXCEPT ![sp] = stdin[g]]
        /\ stdin' = SubSeq(stdin, g + 1, Len(stdin))
        /\ ip' = ip + 0 + 1 /\ UNCHANGED <<ir, sp, stdout, status>>
    BY <1>8, <1>12 DEF Interpreter!ir_op_read, Interpreter!Dispatch, Tape
  <2>2. ip' = i
    BY <1>1, <1>5, <2>1
  <2>3. stdin[g] \in Cell
    <3>1. g \in 1..Len(stdin)
      BY <1>5, <1>8, <1>12
    <3> QED
      BY <1>5, <3>1
  <2>4. data' \in [Tape -> Cell]
    BY <1>5, <1>12, <2>1, <2>3
  <2>5. stdin' = Unread(stdin, g) /\ stdin' \in Seq(Cell)
    <3>1. stdin' = Unread(stdin, g)
      BY <2>1 DEF Unread
    <3>2. Unread(stdin, g) \in Seq(Cell)
      BY <1>5, <1>8, UnreadNext
    <3> QED
      BY <3>1, <3>2
  <2>6. TapeInv' /\ strayed' = strayed /\ strayed \in BOOLEAN
    BY <1>5, <1>12, <2>1, <2>4, <2>5, StaysOn
  <2>7. Goes(Text, Seen, Mach(e, sp', data', stdin', stdout', 0, 0))
    <3>1. IsTape(data)
      BY <1>5 DEF IsTape, Tape, Cell
    <3>2. Goes(t, Mach(P[i], sp, data, stdin, stdout, 0, 0),
               Mach(e, sp, GotInto(data, sp, stdin, g), Unread(stdin, g), stdout, 0, 0))
      BY <1>4, <1>5, <1>7, <1>12, <3>1, ReadStep
    <3>3. GotInto(data, sp, stdin, g) = data'
      BY <1>12, <2>1 DEF GotInto
    <3> QED
      BY <1>1, <1>4, <2>1, <2>5, <3>2, <3>3
  <2> QED
    BY <1>5, <1>9, <2>1, <2>2, <2>6, <2>7, Followed
<1> QED
  BY <1>10, <1>11, <1>12

\* A loop is entered, or passed.
LEMMA LoopStartSound ==
  ASSUME InRun, Interpreter!ir_op_loop_start
  PROVE  Sound
<1>1. PICK i, t, P, n : i = ip + 1 /\ t = Text /\ P = Places(file, src) /\ n = Len(src)
  OBVIOUS
<1>2. PICK e : e = Until(P, n, Len(t), i)
  OBVIOUS
<1>3. Interpreter!At("loop_start")
  BY DEF Interpreter!ir_op_loop_start
<1>4. /\ n \in Nat /\ Len(t) \in Nat /\ i \in 1..n
      /\ Interpreter!opcode = ir[i] /\ ir[i].kind = "loop_start" /\ ir[i].arg \in Int
      /\ Len(ir) = n + 1 /\ WellFormed(ir) /\ Means(t, ir, P, n)
      /\ Seen = Mach(P[i], sp, data, stdin, stdout, 0, 0)
  BY <1>1, <1>2, <1>3, RunningAt
<1>5. CASE sp \notin Tape
  BY <1>5, WildSound DEF Interpreter!ir_op_loop_start, Tape
<1>6. CASE sp \in Tape
  <2>1. /\ ip' = ip + (IF data[sp] = 0 THEN ir[i].arg ELSE 0) + 1
        /\ UNCHANGED <<ir, sp, data, stdin, stdout, status>>
    BY <1>4, <1>6 DEF Interpreter!ir_op_loop_start, Interpreter!Dispatch, Tape
  <2>2. /\ data \in [Tape -> Cell] /\ stdin \in Seq(Cell) /\ stdout \in Seq(Cell)
        /\ ip \in Nat /\ status = "run"
    BY DEF InRun, RunInv, TapeInv, Loaded
  <2>3. PICK j : j = ip'
    OBVIOUS
  <2>4. (data[sp] = 0 => j = i + ir[i].arg) /\ (data[sp] # 0 => j = i)
    BY <1>1, <1>4, <2>1, <2>2, <2>3
  <2>5. /\ j \in 1..n
        /\ Goes(t, Mach(P[i], sp, data, stdin, stdout, 0, 0),
                Mach(Until(P, n, Len(t), j), sp, data, stdin, stdout, 0, 0))
    BY <1>4, <2>4, StartRun
  <2>6. TapeInv' /\ strayed' = strayed /\ strayed \in BOOLEAN
    BY <1>6, <2>1, <2>2, StaysOn
  <2>7. PICK f : f = Until(P, n, Len(t), j)
    OBVIOUS
  <2>8. Goes(Text, Seen, Mach(f, sp', data', stdin', stdout', 0, 0))
    BY <1>1, <1>4, <2>1, <2>5, <2>7
  <2>9. /\ ir' = ir /\ status' # "idle" /\ j \in 1..Len(src)
        /\ f = Until(Places(file, src), Len(src), Len(Text), j)
    BY <1>1, <2>1, <2>2, <2>5, <2>7
  <2> QED
    BY <2>3, <2>6, <2>8, <2>9, Followed
<1> QED
  BY <1>5, <1>6

\* A loop is left, or gone through again.
LEMMA LoopEndSound ==
  ASSUME InRun, Interpreter!ir_op_loop_end
  PROVE  Sound
<1>1. PICK i, t, P, n : i = ip + 1 /\ t = Text /\ P = Places(file, src) /\ n = Len(src)
  OBVIOUS
<1>2. PICK e : e = Until(P, n, Len(t), i)
  OBVIOUS
<1>3. Interpreter!At("loop_end")
  BY DEF Interpreter!ir_op_loop_end
<1>4. /\ n \in Nat /\ Len(t) \in Nat /\ i \in 1..n
      /\ Interpreter!opcode = ir[i] /\ ir[i].kind = "loop_end" /\ ir[i].arg \in Int
      /\ Len(ir) = n + 1 /\ WellFormed(ir) /\ Means(t, ir, P, n)
      /\ Seen = Mach(P[i], sp, data, stdin, stdout, 0, 0)
  BY <1>1, <1>2, <1>3, RunningAt
<1>5. CASE sp \notin Tape
  BY <1>5, WildSound DEF Interpreter!ir_op_loop_end, Tape
<1>6. CASE sp \in Tape
  <2>1. /\ ip' = ip + (IF data[sp] # 0 THEN ir[i].arg ELSE 0) + 1
        /\ UNCHANGED <<ir, sp, data, stdin, stdout, status>>
    BY <1>4, <1>6 DEF Interpreter!ir_op_loop_end, Interpreter!Dispatch, Tape
  <2>2. /\ data \in [Tape -> Cell] /\ stdin \in Seq(Cell) /\ stdout \in Seq(Cell)
        /\ ip \in Nat /\ status = "run"
    BY DEF InRun, RunInv, TapeInv, Loaded
  <2>3. PICK j : j = ip'
    OBVIOUS
  <2>4. (data[sp] # 0 => j = i + ir[i].arg) /\ (data[sp] = 0 => j = i)
    BY <1>1, <1>4, <2>1, <2>2, <2>3
  <2>5. /\ j \in 1..n
        /\ Goes(t, Mach(P[i], sp, data, stdin, stdout, 0, 0),
                Mach(Until(P, n, Len(t), j), sp, data, stdin, stdout, 0, 0))
    BY <1>4, <2>4, EndRun
  <2>6. TapeInv' /\ strayed' = strayed /\ strayed \in BOOLEAN
    BY <1>6, <2>1, <2>2, StaysOn
  <2>7. PICK f : f = Until(P, n, Len(t), j)
    OBVIOUS
  <2>8. Goes(Text, Seen, Mach(f, sp', data', stdin', stdout', 0, 0))
    BY <1>1, <1>4, <2>1, <2>5, <2>7
  <2>9. /\ ir' = ir /\ status' # "idle" /\ j \in 1..Len(src)
        /\ f = Until(Places(file, src), Len(src), Len(Text), j)
    BY <1>1, <2>1, <2>2, <2>5, <2>7
  <2> QED
    BY <2>3, <2>6, <2>8, <2>9, Followed
<1> QED
  BY <1>5, <1>6

\* The head moves.
LEMMA TapeSound ==
  ASSUME InRun, Interpreter!ir_op_tape
  PROVE  Sound
<1>1. PICK i, t, P, n : i = ip + 1 /\ t = Text /\ P = Places(file, src) /\ n = Len(src)
  OBVIOUS
<1>2. PICK e : e = Until(P, n, Len(t), i)
  OBVIOUS
<1>3. Interpreter!At("tape")
  BY DEF Interpreter!ir_op_tape
<1>4. /\ n \in Nat /\ Len(t) \in Nat /\ i \in 1..n
      /\ Interpreter!opcode = ir[i] /\ ir[i].kind = "tape" /\ ir[i].arg \in Int
      /\ MeansAt(t, ir, P, i, e)
      /\ Seen = Mach(P[i], sp, data, stdin, stdout, 0, 0)
  BY <1>1, <1>2, <1>3, RunningAt
<1>5. PICK y : y = Interpreter!Moved(sp + ir[i].arg)
  OBVIOUS
<1>6. sp' = y /\ ip' = ip + 0 + 1 /\ UNCHANGED <<ir, data, stdin, stdout, status>>
  BY <1>4, <1>5 DEF Interpreter!ir_op_tape, Interpreter!Dispatch
<1>7. /\ data \in [Tape -> Cell] /\ stdin \in Seq(Cell) /\ stdout \in Seq(Cell)
      /\ strayed \in BOOLEAN /\ (strayed \/ sp \in Tape) /\ sp \in Int
      /\ ip \in Nat /\ status = "run" /\ RunInv /\ Parsed
      /\ strayed' = (strayed \/ sp' \notin Tape)
  BY DEF InRun, RunInv, TapeInv, Loaded, StrayUpdate, Tape
<1>8. ip' = i
  BY <1>1, <1>6, <1>7
<1>9. y \in Int
  <2>1. PICK z \in Int : z = sp + ir[i].arg
    BY <1>4, <1>7
  <2> QED
    BY <1>5, <2>1, MovedIs
<1>10. TapeInv'
  BY <1>6, <1>7, <1>9 DEF TapeInv
<1>11. RunInv' /\ Text' = Text /\ Position' = e
  <2>1. ip' \in 0..Len(src) /\ status' # "idle"
    BY <1>1, <1>4, <1>6, <1>7, <1>8
  <2>2. /\ RunInv' /\ Text' = Text
        /\ Position' = Until(Places(file, src), Len(src), Len(Text), ip')
    BY <1>6, <1>7, <1>10, <2>1, RunKeeps
  <2> QED
    BY <1>1, <1>2, <1>8, <2>2
<1>12. CASE strayed
  <2>1. strayed = TRUE /\ strayed' = TRUE
    BY <1>7, <1>12
  <2> QED
    BY <1>11, <2>1, LostIs DEF Sound
<1>13. CASE ~strayed
  <2>1. PICK m, hd, l, r :
          /\ m \in 1..Len(t)
          /\ Machine!Ahead(t, Mach(P[i], sp, data, stdin, stdout, 0, 0), m) =
               Mach(e, hd, data, stdin, stdout, l, r)
          /\ y \in Tape => hd = y
          /\ y \notin Tape => l > 0 \/ r > 1
    <3>1. sp \in Tape
      BY <1>7, <1>13
    <3>2. Drifts(t, Mach(P[i], sp, data, stdin, stdout, 0, 0), e, y, data, stdin, stdout)
      BY <1>4, <1>5, <3>1, TapeStep
    <3> QED
      BY <3>2 DEF Drifts
  <2>2. Machine!Ahead(Text, Seen, m) = Mach(Position', hd, data, stdin, stdout, l, r)
    BY <1>1, <1>4, <1>11, <2>1
  <2>3. m \in 1..Len(Text)
    BY <1>1, <2>1
  <2>4. CASE y \in Tape
    <3>1. ~strayed' /\ strayed' \in BOOLEAN
      BY <1>6, <1>7, <1>13, <2>4
    <3>2. Machine!Ahead(Text, Seen, m) = Mach(Position', sp', data', stdin', stdout', l, r)
      BY <1>6, <2>1, <2>2, <2>4
    <3> QED
      BY <1>11, <1>13, <2>3, <3>1, <3>2, Arrives DEF Sound
  <2>5. CASE y \notin Tape
    <3>1. strayed' /\ strayed' \in BOOLEAN /\ (l > 0 \/ r > 1)
      BY <1>6, <1>7, <2>1, <2>5
    <3> QED
      BY <1>11, <1>13, <2>2, <2>3, <3>1, Strays DEF Sound
  <2> QED
    BY <2>4, <2>5
<1> QED
  BY <1>7, <1>12, <1>13

\* The run comes to its halt.
LEMMA HaltSound ==
  ASSUME InRun, Interpreter!ir_op_halt
  PROVE  Sound
<1>1. /\ RunInv /\ status = "run" /\ Parsed /\ strayed \in BOOLEAN /\ sp \in Int
      /\ (strayed \/ sp \in Tape) /\ strayed' = (strayed \/ sp' \notin Tape)
      /\ ip \in 0..Len(src) /\ TapeInv
  BY DEF InRun, RunInv, TapeInv, StrayUpdate, Loaded, Tape
<1>2. status' = "halted" /\ UNCHANGED <<ir, ip, sp, data, stdin, stdout>>
  BY DEF Interpreter!ir_op_halt
<1>3. strayed' = strayed
  BY <1>1, <1>2
<1>4. TapeInv'
  BY <1>1, <1>2, <1>3 DEF TapeInv
<1>5. /\ RunInv' /\ Text' = Text
      /\ Position' = Until(Places(file, src), Len(src), Len(Text), ip')
  BY <1>1, <1>2, <1>4, RunKeeps
<1>6. Position = Until(Places(file, src), Len(src), Len(Text), ip)
  BY <1>1, PositionIs
<1>7. UNCHANGED Machine!vars
  BY <1>2, <1>3, <1>5, <1>6 DEF Machine!vars
<1> QED
  BY <1>5, <1>7 DEF Sound

\* The interpreter begins: the halt is pushed, and the comments before the
\* first operation are behind the machine.
LEMMA EnterSound ==
  ASSUME RunInv, Interpreter!Enter, pc = "parsed", Parsed, StrayUpdate
  PROVE  Sound
<1>1. /\ status = "idle" /\ ir' = Append(ir, Interpreter!Halt) /\ status' = "run"
      /\ UNCHANGED <<ip, sp, data, stdin, stdout>>
  BY DEF Interpreter!Enter
<1>2. IInv /\ ip = 0 /\ TapeInv /\ Means(Text, ir, Places(file, src), Len(src))
  BY <1>1 DEF RunInv, TextInv
<1>3. Interpreter!Halt = Halt
  BY DEF Interpreter!Halt, Halt, Interpreter!Op, Op
<1>4. PICK n, s : n = Len(src) /\ s = ir'
  OBVIOUS
<1>5. n \in Nat /\ Len(ir) = n /\ ir \in Seq(OpType)
  BY <1>2, <1>4, ParserFacts
<1>6. WellFormed(s)
  BY <1>1, <1>2, <1>3, <1>4, HaltCompletes
<1>7. Len(s) = n + 1 /\ Agree(s, ir, n)
  <2>1. PICK h : h = Halt
    OBVIOUS
  <2>2. s = Append(ir, h)
    BY <1>1, <1>3, <1>4, <2>1
  <2> QED
    BY <1>5, <2>2 DEF Agree
<1>8. Text' = Text
  BY TextSame DEF Parsed
<1>9. Places(file, src)' = Places(file, src)
  BY DEF Parsed, Places, Rank, Kept, Live, ChunkStart
<1>10. PICK t, P : t = Text /\ P = Places(file, src)
  OBVIOUS
<1>11. Means(t, s, P, n)
  BY <1>2, <1>4, <1>5, <1>7, <1>10, MeansAgree
<1>12. strayed' = strayed /\ strayed \in BOOLEAN /\ (strayed \/ sp \in Tape) /\ sp \in Int
  BY <1>1, <1>2 DEF TapeInv, StrayUpdate, Tape
<1>13. TapeInv'
  BY <1>1, <1>2, <1>12 DEF TapeInv
<1>14. Loaded'
  BY <1>1, <1>2, <1>4, <1>5, <1>6, <1>7 DEF Parsed, Loaded
<1>15. TextInv'
  BY <1>4, <1>8, <1>9, <1>10, <1>11 DEF TextInv, Parsed
<1>16. RunInv'
  BY <1>1, <1>13, <1>14, <1>15 DEF RunInv, Parsed
<1>17. PICK e : e = Until(P, n, Len(t), 0)
  OBVIOUS
<1>18. Position' = e
  <2>1. (RunInv /\ status # "idle" => Position = Until(Places(file, src), Len(src), Len(Text), ip))'
    BY PositionIs, PTL
  <2>2. Position' = Until(Places(file, src)', Len(src)', Len(Text)', ip')
    BY <1>1, <1>16, <2>1 DEF Until
  <2>3. Len(src)' = Len(src) /\ Len(Text)' = Len(Text) /\ ip' = 0
    BY <1>1, <1>2, <1>8 DEF Parsed
  <2> QED
    BY <1>4, <1>9, <1>10, <1>17, <2>2, <2>3
<1>19. Position = 0
  BY <1>1 DEF Position
<1>20. Len(t) \in Nat
  <2>1. file \in Seq(Char)
    BY DEF RunInv
  <2> QED
    BY <1>10, <2>1, TextReads
<1>21. e \in Nat /\ e <= Len(t)
  <2>1. 0 \in 0..n
    BY <1>5
  <2> QED
    BY <1>5, <1>11, <1>17, <1>20, <2>1, UntilType
<1>22. Only(t, {}, 0, e)
  BY <1>11, <1>17 DEF Means, Covers
<1>23. Seen = Mach(0, sp, data, stdin, stdout, 0, 0)
  BY <1>19 DEF Seen
<1>24. CASE e = 0
  <2>1. UNCHANGED Machine!vars
    BY <1>1, <1>8, <1>12, <1>18, <1>19, <1>24 DEF Machine!vars
  <2> QED
    BY <1>16, <2>1 DEF Sound
<1>25. CASE strayed
  <2>1. strayed = TRUE /\ strayed' = TRUE
    BY <1>12, <1>25
  <2> QED
    BY <1>8, <1>16, <2>1, LostIs DEF Sound
<1>26. CASE e # 0 /\ ~strayed
  <2>1. Machine!Ahead(t, Mach(0, sp, data, stdin, stdout, 0, 0), e - 0) =
          Mach(e, sp, data, stdin, stdout, 0, 0)
    BY <1>20, <1>21, <1>22, OtherRun
  <2>2. e - 0 = e /\ e \in 1..Len(t)
    BY <1>20, <1>21, <1>26
  <2>3. Machine!Ahead(Text, Seen, e) = Mach(Position', sp', data', stdin', stdout', 0, 0)
    BY <1>1, <1>10, <1>18, <1>23, <2>1, <2>2
  <2>4. ~strayed' /\ strayed' \in BOOLEAN /\ e \in 1..Len(Text)
    BY <1>10, <1>12, <1>26, <2>2
  <2>5. Machine!Next
    BY <1>8, <1>26, <2>3, <2>4, Arrives
  <2> QED
    BY <1>16, <2>5 DEF Sound
<1> QED
  BY <1>24, <1>25, <1>26

\* Every step of ir_interpret.
LEMMA InterpretSound ==
  ASSUME RunInv, Interpreter!Interpret, pc = "parsed", Parsed, StrayUpdate
  PROVE  Sound
<1>1. CASE Interpreter!Enter
  BY <1>1, EnterSound
<1>2. CASE ~Interpreter!Enter
  <2>1. status = "run"
    BY <1>2 DEF Interpreter!Interpret, Interpreter!ir_op_tape, Interpreter!ir_op_cell,
                Interpreter!ir_op_loop_start, Interpreter!ir_op_loop_end,
                Interpreter!ir_op_write, Interpreter!ir_op_read, Interpreter!ir_op_halt,
                Interpreter!At
  <2>2. InRun
    BY <2>1 DEF InRun
  <2> QED
    BY <1>2, <2>2, TapeSound, CellSound, LoopStartSound, LoopEndSound, WriteSound, ReadSound,
       HaltSound DEF Interpreter!Interpret
<1> QED
  BY <1>1, <1>2

---------------------------------------------------------------------------
(* main and the machine *)

LEMMA RunInit ==
  ASSUME MainInit
  PROVE  RunInv /\ Machine!Init
<1>1. /\ Init /\ ip = 0 /\ sp = 0 /\ data = [a \in Interpreter!Tape |-> 0]
      /\ stdin \in Inputs /\ stdout = <<>> /\ status = "idle" /\ strayed = FALSE
  BY DEF MainInit, Interpreter!IdleInit
<1>2. IInv
  BY <1>1, InitIInv
<1>3. file \in Seq(Char) /\ src \in Seq(Nat)
  BY <1>2, ParserFacts
<1>4. 0 \in Tape /\ 0 \in Cell
  BY TapeAssumption, ByteAssumption DEF Tape, Cell, Interpreter!Tape, Interpreter!Cell
<1>5. stdin \in Seq(Cell)
  BY <1>1, StdinAssumption DEF Cell, Interpreter!Cell
<1>6. TapeInv
  BY <1>1, <1>4, <1>5 DEF TapeInv, Tape
<1>7. RunInv
  BY <1>1, <1>2, <1>3, <1>6, InitText DEF RunInv
<1>8. Machine!Init
  BY <1>1 DEF Machine!Init, Position, Interpreter!Tape
<1> QED
  BY <1>7, <1>8

\* Steps that neither the interpreter nor the machine sees.
LEMMA RunSame ==
  ASSUME RunInv, UNCHANGED <<vars, ivars, strayed>>
  PROVE  Sound
<1>1. UNCHANGED <<file, fpos, buffer, ptr, ir, patch, pc, src, ip, sp, data, stdin, stdout, status, strayed>>
  BY DEF vars, ivars
<1>2. Text' = Text /\ Places(file, src)' = Places(file, src)
  BY <1>1, TextSame DEF Places, Rank, Kept, Live, ChunkStart
<1>3. TextInv'
  <2>1. ReadText(Rank(file, fpos))' = ReadText(Rank(file, fpos))
    BY <1>1, <1>2 DEF ReadText, Rank, Kept, Live, ChunkStart
  <2>2. ReadText(Rank(file, Offset))' = ReadText(Rank(file, Offset))
    BY <1>1, <1>2 DEF ReadText, Offset, Rank, Kept, Live, ChunkStart
  <2> QED
    BY <1>1, <1>2, <2>1, <2>2 DEF RunInv, TextInv
<1>4. TapeInv' /\ (status # "idle" => Loaded')
  BY <1>1 DEF RunInv, TapeInv, Loaded
<1>5. status = "idle" => IInv'
  <2>1. UNCHANGED vars
    OBVIOUS
  <2> QED
    BY <2>1, NextIInv DEF RunInv
<1>6. RunInv'
  BY <1>1, <1>3, <1>4, <1>5 DEF RunInv
<1>7. Position' = Position
  <2>1. CASE status = "idle"
    BY <1>1, <2>1 DEF Position
  <2>2. CASE status # "idle"
    <3>1. Position = Until(Places(file, src), Len(src), Len(Text), ip)
      BY <2>2, PositionIs
    <3>2. (RunInv /\ status # "idle" => Position = Until(Places(file, src), Len(src), Len(Text), ip))'
      BY PositionIs, PTL
    <3>3. Position' = Until(Places(file, src)', Len(src)', Len(Text)', ip')
      BY <1>1, <1>6, <2>2, <3>2 DEF Until
    <3> QED
      BY <1>1, <1>2, <3>1, <3>3
  <2> QED
    BY <2>1, <2>2
<1> QED
  BY <1>1, <1>2, <1>6, <1>7 DEF Sound, Machine!vars

\* The parser works while the machine waits.
LEMMA ReadSoundly ==
  ASSUME RunInv, MainInv, ReadFile
  PROVE  Sound
<1>1. Parse /\ UNCHANGED <<ip, sp, data, stdin, stdout, status, dump_ir, exit, strayed>>
  BY DEF ReadFile, ivars
<1>2. pc \in {"read", "parse"} /\ file' = file
  BY <1>1 DEF Parse, Fread, ParseChar, ParseReturn, ParseRead, ParseWrite, ParsePlus, ParseMinus,
           ParseRight, ParseLeft, PushRun, AddRun, ParseLoopStart, ParseLoopEnd,
           ParseUnmatched, ParseOther
<1>3. IInv /\ ReadInv /\ status = "idle"
  BY <1>2 DEF MainInv
<1>4. IInv'
  BY <1>1, <1>3, NextIInv DEF Next
<1>5. TextInv'
  BY <1>1, <1>3, ParseText DEF RunInv
<1>6. src' \in Seq(Nat)
  BY <1>4 DEF IInv, TypeOK
<1>7. TapeInv'
  BY <1>1 DEF RunInv, TapeInv
<1>8. RunInv'
  BY <1>1, <1>2, <1>3, <1>4, <1>5, <1>6, <1>7 DEF RunInv
<1>9. Text' = Text /\ Position' = Position
  BY <1>1, <1>2, <1>3, TextSame DEF Position
<1> QED
  BY <1>1, <1>8, <1>9 DEF Sound, Machine!vars

LEMMA RunNext ==
  ASSUME RunInv, MainInv, [MainNext]_allvars
  PROVE  Sound
<1>1. CASE ReadFile
  BY <1>1, ReadSoundly
<1>2. CASE RunInterpreter
  <2>1. pc = "parsed" /\ Interpreter!Interpret /\ StrayUpdate /\ Parsed
    BY <1>2 DEF RunInterpreter, StrayUpdate, Parsed
  <2> QED
    BY <2>1, InterpretSound
<1>3. CASE ReturnParseError \/ DumpIr \/ ReturnInterpreted
  <2>1. UNCHANGED <<vars, ivars, strayed>>
    BY <1>3 DEF ReturnParseError, DumpIr, ReturnInterpreted, Return
  <2> QED
    BY <2>1, RunSame
<1>4. CASE UNCHANGED allvars
  <2>1. UNCHANGED <<vars, ivars, strayed>>
    BY <1>4 DEF allvars
  <2> QED
    BY <2>1, RunSame
<1> QED
  BY <1>1, <1>2, <1>3, <1>4 DEF MainNext, Main, Ended

(***************************************************************************)
(* At every step the IR of ir_ctx_parse stands for the text that has been  *)
(* read, operation for operation, and ip of ir_interpret for a position in *)
(* it, with the head on the tape until it strays.                          *)
(***************************************************************************)
THEOREM RunInvariant == MainSpec => []RunInv
<1>1. MainInit => RunInv
  BY RunInit
<1>2. RunInv /\ MainInv /\ [MainNext]_allvars => RunInv'
  BY RunNext DEF Sound
<1> QED
  BY <1>1, <1>2, MainInvariant, PTL DEF MainSpec

(***************************************************************************)
(* main implements the language.  Reading in chunks, merging runs into     *)
(* operations, patching the jumps, and ir_interpret's threaded dispatch    *)
(* over them come to what the text says one character at a time; the head  *)
(* leaves the tape only where a '<' crosses its left edge or a run of      *)
(* moves wraps more than once.                                             *)
(***************************************************************************)
THEOREM SpecImplementsMachine == MainSpec => ImplementsMachine
<1>1. MainInit => Machine!Init
  BY RunInit
<1>2. RunInv /\ MainInv /\ [MainNext]_allvars => [Machine!Next]_Machine!vars
  BY RunNext DEF Sound
<1>3. MainSpec => Machine!Spec
  BY <1>1, <1>2, RunInvariant, MainInvariant, PTL DEF MainSpec, Machine!Spec
<1> QED
  BY <1>3 DEF ImplementsMachine
=============================================================================
