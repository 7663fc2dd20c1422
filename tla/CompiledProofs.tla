--------------------------- MODULE CompiledProofs --------------------------
(***************************************************************************)
(* Proofs about the compiler and its executable, for every source file,    *)
(* input, tape and range of the immediates: the jumps of the code lead to  *)
(* instructions, and a complete program stays inside its code and, unless  *)
(* it has moved over an edge of the tape, inside .bss.                     *)
(***************************************************************************)
EXTENDS Compiled, IrGenProofs, FiniteSetTheorems

Places == Compiler!Registers \cup {"mem", "none"}

\* The instructions that are emitted.
InsType == [op : {"mov", "push", "add", "sub", "cmp", "je", "jne", "int"},
            dst : Places, reg : Places, imm : Int, len : Nat \ {0}, at : Int]

Code == Seq(InsType)

---------------------------------------------------------------------------
(* Lengths and addresses *)

\* The bytes that Size counts.
Bytes(code) == UNION {{k} \X (1..code[k].len) : k \in DOMAIN code}

\* The operator that IrCompile has from FiniteSets is the same.
LEMMA SameCardinality ==
  ASSUME NEW S
  PROVE  Compiler!Cardinality(S) = Cardinality(S)
BY DEF Compiler!Cardinality, Compiler!IsFiniteSet, Cardinality, IsFiniteSet

LEMMA InsFields ==
  ASSUME NEW ins \in InsType
  PROVE  ins.imm \in Int /\ ins.len \in Nat /\ ins.len > 0 /\ ins.at \in Int
BY DEF InsType

LEMMA BytesAre ==
  ASSUME NEW code \in Code
  PROVE  /\ \A b : b \in Bytes(code) <=> \E k \in 1..Len(code) : \E j \in 1..code[k].len : b = <<k, j>>
         /\ IsFiniteSet(Bytes(code))
         /\ Compiler!Size(code) = Cardinality(Bytes(code))
         /\ Compiler!Size(code) \in Nat
<1> DEFINE n == Len(code)
           f == [k \in 1..n |-> {k} \X (1..code[k].len)]
           S == {{k} \X (1..code[k].len) : k \in DOMAIN code}
<1>1. n \in Nat /\ DOMAIN code = 1..n /\ \A k \in 1..n : code[k].len \in Nat
  BY InsFields DEF Code
<1>2. \A b : b \in Bytes(code) <=> \E k \in 1..n : \E j \in 1..code[k].len : b = <<k, j>>
  BY <1>1 DEF Bytes
<1>3. IsFiniteSet(1..n)
  BY <1>1, FS_Interval
<1>4. f \in Surjection(1..n, S)
  BY <1>1 DEF Surjection
<1>5. IsFiniteSet(S)
  BY <1>3, <1>4, FS_Surjection
<1>6. ASSUME NEW T \in S PROVE IsFiniteSet(T)
  <2>1. PICK k \in 1..n : T = {k} \X (1..code[k].len)
    BY <1>1
  <2>2. code[k].len \in Int /\ 1 \in Int
    BY <1>1
  <2>3. IsFiniteSet({k})
    BY FS_Singleton
  <2>4. IsFiniteSet(1..code[k].len)
    BY <2>2, FS_Interval
  <2> QED
    BY <2>1, <2>3, <2>4, FS_Product
<1>7. IsFiniteSet(Bytes(code))
  BY <1>5, <1>6, FS_UNION DEF Bytes
<1>8. Compiler!Size(code) = Cardinality(Bytes(code))
  BY SameCardinality DEF Compiler!Size, Bytes
<1> QED
  BY <1>2, <1>7, <1>8, FS_CardinalityType

LEMMA SizeConcat ==
  ASSUME NEW c \in Code, NEW d \in Code
  PROVE  c \o d \in Code /\ Compiler!Size(c \o d) = Compiler!Size(c) + Compiler!Size(d)
<1> DEFINE e == c \o d
           m == Len(c)
           T == {<<m + b[1], b[2]>> : b \in Bytes(d)}
           f == [b \in Bytes(d) |-> <<m + b[1], b[2]>>]
<1>1. /\ e \in Code /\ Len(e) = m + Len(d)
      /\ \A k \in 1..(m + Len(d)) : e[k] = IF k <= m THEN c[k] ELSE d[k - m]
  BY ConcatProperties DEF Code
<1>2. m \in Nat /\ Len(d) \in Nat
  BY DEF Code
<1> HIDE DEF e, m
<1>3. /\ \A b : b \in Bytes(c) <=> \E k \in 1..m : \E j \in 1..c[k].len : b = <<k, j>>
      /\ IsFiniteSet(Bytes(c)) /\ Compiler!Size(c) = Cardinality(Bytes(c))
  BY BytesAre DEF m
<1>4. /\ \A b : b \in Bytes(d) <=> \E k \in 1..Len(d) : \E j \in 1..d[k].len : b = <<k, j>>
      /\ IsFiniteSet(Bytes(d)) /\ Compiler!Size(d) = Cardinality(Bytes(d))
  BY BytesAre
<1>5. /\ \A b : b \in Bytes(e) <=> \E k \in 1..Len(e) : \E j \in 1..e[k].len : b = <<k, j>>
      /\ Compiler!Size(e) = Cardinality(Bytes(e))
  BY <1>1, BytesAre
<1>6. f \in Bijection(Bytes(d), T)
  <2>1. \A b \in Bytes(d) : b = <<b[1], b[2]>> /\ b[1] \in Nat
    BY <1>4
  <2>2. \A a, b \in Bytes(d) : f[a] = f[b] => a = b
    <3> TAKE a \in Bytes(d), b \in Bytes(d)
    <3>1. f[a] = <<m + a[1], a[2]>> /\ f[b] = <<m + b[1], b[2]>>
      OBVIOUS
    <3>2. f[a] = f[b] => m + a[1] = m + b[1] /\ a[2] = b[2]
      BY <3>1
    <3>3. m + a[1] = m + b[1] => a[1] = b[1]
      BY <1>2, <2>1
    <3> QED
      BY <2>1, <3>2, <3>3
  <2>3. f \in [Bytes(d) -> T] /\ \A t \in T : \E b \in Bytes(d) : f[b] = t
    OBVIOUS
  <2> HIDE DEF f, T
  <2> QED
    BY <2>2, <2>3 DEF Bijection, Injection, Surjection, IsInjective
<1>7. IsFiniteSet(T) /\ Cardinality(T) = Cardinality(Bytes(d))
  <2>1. ExistsBijection(Bytes(d), T)
    BY <1>6 DEF ExistsBijection
  <2> QED
    BY <1>4, <2>1, FS_Bijection
<1>8. \A b : b \in T <=> \E k \in 1..Len(d) : \E j \in 1..d[k].len : b = <<m + k, j>>
  <2>1. \A b : b \in T <=> \E a \in Bytes(d) : b = <<m + a[1], a[2]>>
    OBVIOUS
  <2>2. ASSUME NEW b \in T PROVE \E k \in 1..Len(d) : \E j \in 1..d[k].len : b = <<m + k, j>>
    BY <1>4, <2>1
  <2>3. ASSUME NEW b, NEW k \in 1..Len(d), NEW j \in 1..d[k].len, b = <<m + k, j>> PROVE b \in T
    <3>1. <<k, j>> \in Bytes(d) /\ <<k, j>>[1] = k /\ <<k, j>>[2] = j
      BY <1>4
    <3> QED
      BY <2>1, <2>3, <3>1
  <2> QED
    BY <2>2, <2>3
<1> HIDE DEF T
<1>9. Bytes(e) = Bytes(c) \cup T
  <2>1. ASSUME NEW b \in Bytes(e) PROVE b \in Bytes(c) \cup T
    <3>1. PICK k \in 1..(m + Len(d)) : \E j \in 1..e[k].len : b = <<k, j>>
      BY <1>1, <1>5
    <3>2. CASE k <= m
      <4>1. k \in 1..m /\ e[k] = c[k]
        BY <1>1, <1>2, <3>2
      <4> QED
        BY <1>3, <3>1, <4>1
    <3>3. CASE ~(k <= m)
      <4>1. k - m \in 1..Len(d) /\ e[k] = d[k - m] /\ m + (k - m) = k
        BY <1>1, <1>2, <3>3
      <4> QED
        BY <1>8, <3>1, <4>1
    <3> QED
      BY <3>2, <3>3
  <2>2. ASSUME NEW b \in Bytes(c) PROVE b \in Bytes(e)
    <3>1. PICK k \in 1..m : \E j \in 1..c[k].len : b = <<k, j>>
      BY <1>3
    <3>2. k \in 1..Len(e) /\ e[k] = c[k]
      BY <1>1, <1>2
    <3> QED
      BY <1>5, <3>1, <3>2
  <2>3. ASSUME NEW b \in T PROVE b \in Bytes(e)
    <3>1. PICK k \in 1..Len(d) : \E j \in 1..d[k].len : b = <<m + k, j>>
      BY <1>8
    <3>2. m + k \in 1..Len(e) /\ ~(m + k <= m) /\ (m + k) - m = k
      BY <1>1, <1>2
    <3>3. e[m + k] = d[k]
      BY <1>1, <3>2
    <3> QED
      BY <1>5, <3>1, <3>2, <3>3
  <2> QED
    BY <2>1, <2>2, <2>3
<1>10. Bytes(c) \cap T = {}
  <2> SUFFICES ASSUME NEW b \in Bytes(c), b \in T PROVE FALSE
    OBVIOUS
  <2>1. PICK k \in 1..m, j \in Nat : b = <<k, j>>
    BY <1>2, <1>3
  <2>2. PICK i \in 1..Len(d), l \in Nat : b = <<m + i, l>>
    BY <1>2, <1>8
  <2>3. k = m + i
    BY <2>1, <2>2
  <2> QED
    BY <1>2, <2>3
<1>11. Cardinality(Bytes(c) \cup T)
         = Cardinality(Bytes(c)) + Cardinality(T) - Cardinality(Bytes(c) \cap T)
  BY <1>3, <1>7, FS_Union
<1>12. Cardinality(Bytes(c)) \in Nat /\ Cardinality(T) \in Nat /\ Cardinality(Bytes(c) \cap T) = 0
  BY <1>3, <1>7, <1>10, FS_CardinalityType, FS_EmptySet
<1>13. Compiler!Size(e) = Compiler!Size(c) + Compiler!Size(d)
  BY <1>3, <1>4, <1>5, <1>7, <1>9, <1>11, <1>12
<1> QED
  BY <1>1, <1>13 DEF e

LEMMA SizeOne ==
  ASSUME NEW ins \in InsType
  PROVE  <<ins>> \in Code /\ Compiler!Size(<<ins>>) = ins.len
<1> DEFINE n == ins.len
           f == [j \in 1..n |-> <<1, j>>]
<1>1. <<ins>> \in Code /\ n \in Nat /\ Len(<<ins>>) = 1 /\ <<ins>>[1] = ins /\ 1..1 = {1}
  BY InsFields DEF Code
<1>2. /\ \A b : b \in Bytes(<<ins>>) <=> \E k \in 1..1 : \E j \in 1..<<ins>>[k].len : b = <<k, j>>
      /\ Compiler!Size(<<ins>>) = Cardinality(Bytes(<<ins>>))
  BY <1>1, BytesAre
<1>3. \A b : b \in Bytes(<<ins>>) <=> \E j \in 1..n : b = <<1, j>>
  BY <1>1, <1>2
<1>4. f \in Bijection(1..n, Bytes(<<ins>>))
  BY <1>3 DEF Bijection, Injection, Surjection, IsInjective
<1>5. Cardinality(Bytes(<<ins>>)) = n
  <2>1. ExistsBijection(1..n, Bytes(<<ins>>))
    BY <1>4 DEF ExistsBijection
  <2> HIDE DEF n
  <2> QED
    BY <1>1, <2>1, FS_CountingElements
<1> QED
  BY <1>1, <1>2, <1>5

LEMMA SizeEmpty == <<>> \in Code /\ Compiler!Size(<<>>) = 0
<1>1. <<>> \in Code /\ Len(<<>>) = 0
  BY DEF Code
<1>2. Bytes(<<>>) = {}
  <2>1. \A b : b \in Bytes(<<>>) => \E k \in 1..0 : TRUE
    BY <1>1, BytesAre
  <2> QED
    BY <2>1
<1> QED
  BY <1>1, <1>2, BytesAre, FS_EmptySet

\* Only the lengths of the instructions count.
LEMMA SameLengths ==
  ASSUME NEW c \in Code, NEW d \in Code, Len(c) = Len(d), \A k \in 1..Len(c) : c[k].len = d[k].len
  PROVE  Compiler!Size(c) = Compiler!Size(d)
<1>1. \A b : b \in Bytes(c) <=> b \in Bytes(d)
  BY BytesAre
<1>2. Bytes(c) = Bytes(d)
  BY <1>1
<1> QED
  BY <1>2, BytesAre

\* The addresses of the first instruction, and of what is behind the last.
LEMMA StartEnds ==
  ASSUME NEW c \in Code
  PROVE  Compiler!Start(c, 1) = 0 /\ Compiler!Start(c, Len(c) + 1) = Compiler!Size(c)
<1>1. Compiler!Start(c, 1) = Compiler!Size(SubSeq(c, 1, 0))
  BY 1 - 1 = 0 DEF Compiler!Start
<1>2. SubSeq(c, 1, 0) = <<>>
  BY SubSeqEmpty
<1>3. Compiler!Start(c, Len(c) + 1) = Compiler!Size(SubSeq(c, 1, Len(c)))
  <2>1. Len(c) + 1 - 1 = Len(c)
    BY DEF Code
  <2> QED
    BY <2>1 DEF Compiler!Start
<1>4. SubSeq(c, 1, Len(c)) = c
  BY SubSeqFull DEF Code
<1> QED
  BY <1>1, <1>2, <1>3, <1>4, SizeEmpty

\* An address depends on what is before it only.
LEMMA StartLeft ==
  ASSUME NEW c \in Code, NEW d \in Code, NEW k \in 1..(Len(c) + 1)
  PROVE  Compiler!Start(c \o d, k) = Compiler!Start(c, k)
<1> DEFINE e == c \o d
           n == k - 1
<1>1. Len(c) \in Nat /\ Len(d) \in Nat /\ n \in Nat /\ n <= Len(c)
  BY DEF Code
<1>2. /\ e \in Code /\ Len(e) = Len(c) + Len(d)
      /\ \A i \in 1..(Len(c) + Len(d)) : e[i] = IF i <= Len(c) THEN c[i] ELSE d[i - Len(c)]
  BY ConcatProperties DEF Code
<1> HIDE DEF e, n
<1>3. n <= Len(e) /\ \A i \in 1..n : e[i] = c[i]
  BY <1>1, <1>2
<1>4. SubSeq(e, 1, n) \in Code /\ Len(SubSeq(e, 1, n)) = n /\ \A i \in 1..n : SubSeq(e, 1, n)[i] = e[i]
  BY <1>1, <1>2, <1>3, Prefix DEF Code
<1>5. SubSeq(c, 1, n) \in Code /\ Len(SubSeq(c, 1, n)) = n /\ \A i \in 1..n : SubSeq(c, 1, n)[i] = c[i]
  BY <1>1, Prefix DEF Code
<1>6. Compiler!Size(SubSeq(e, 1, n)) = Compiler!Size(SubSeq(c, 1, n))
  <2> DEFINE p == SubSeq(e, 1, n)
             q == SubSeq(c, 1, n)
  <2>1. p \in Code /\ q \in Code /\ Len(p) = Len(q) /\ \A i \in 1..Len(p) : p[i].len = q[i].len
    BY <1>3, <1>4, <1>5
  <2> HIDE DEF p, q
  <2>2. Compiler!Size(p) = Compiler!Size(q)
    BY <2>1, SameLengths
  <2> QED
    BY <2>2 DEF p, q
<1> QED
  BY <1>6 DEF e, n, Compiler!Start

LEMMA StartRight ==
  ASSUME NEW c \in Code, NEW d \in Code, NEW k \in 1..(Len(d) + 1)
  PROVE  Compiler!Start(c \o d, Len(c) + k) = Compiler!Size(c) + Compiler!Start(d, k)
<1> DEFINE e == c \o d
           n == k - 1
           m == Len(c) + k - 1
           p == SubSeq(d, 1, n)
           q == c \o p
<1>1. Len(c) \in Nat /\ Len(d) \in Nat /\ n \in Nat /\ n <= Len(d) /\ m = Len(c) + n /\ m \in Nat
  BY DEF Code
<1>2. /\ e \in Code /\ Len(e) = Len(c) + Len(d)
      /\ \A i \in 1..(Len(c) + Len(d)) : e[i] = IF i <= Len(c) THEN c[i] ELSE d[i - Len(c)]
  BY ConcatProperties DEF Code
<1>3. p \in Code /\ Len(p) = n /\ \A i \in 1..n : p[i] = d[i]
  BY <1>1, Prefix DEF Code
<1> HIDE DEF e, n, m, p
<1>4. /\ q \in Code /\ Len(q) = Len(c) + n
      /\ \A i \in 1..(Len(c) + n) : q[i] = IF i <= Len(c) THEN c[i] ELSE p[i - Len(c)]
  BY <1>3, ConcatProperties DEF Code
<1>5. Compiler!Size(q) = Compiler!Size(c) + Compiler!Size(p)
  BY <1>3, SizeConcat
<1> HIDE DEF q
<1>6. /\ SubSeq(e, 1, m) \in Code /\ Len(SubSeq(e, 1, m)) = m
      /\ \A i \in 1..m : SubSeq(e, 1, m)[i] = e[i]
  <2>1. m <= Len(e)
    BY <1>1, <1>2
  <2> QED
    BY <1>1, <1>2, <2>1, Prefix DEF Code
<1>7. \A i \in 1..m : SubSeq(e, 1, m)[i] = q[i]
  <2> TAKE i \in 1..m
  <2>1. CASE i <= Len(c)
    <3>1. i \in 1..(Len(c) + Len(d)) /\ i \in 1..(Len(c) + n)
      BY <1>1
    <3> QED
      BY <1>2, <1>4, <1>6, <2>1, <3>1
  <2>2. CASE ~(i <= Len(c))
    <3>1. i \in 1..(Len(c) + Len(d)) /\ i \in 1..(Len(c) + n) /\ i - Len(c) \in 1..n
      BY <1>1, <2>2
    <3> QED
      BY <1>2, <1>3, <1>4, <1>6, <2>2, <3>1
  <2> QED
    BY <2>1, <2>2
<1>8. Compiler!Size(SubSeq(e, 1, m)) = Compiler!Size(q)
  BY <1>1, <1>4, <1>6, <1>7, SameLengths
<1>9. Compiler!Start(e, Len(c) + k) = Compiler!Size(SubSeq(e, 1, m))
  BY DEF Compiler!Start, m
<1>10. Compiler!Start(d, k) = Compiler!Size(p)
  BY DEF Compiler!Start, p, n
<1> QED
  BY <1>5, <1>8, <1>9, <1>10 DEF e

\* An address is a natural number, and the next one is behind the instruction.
LEMMA StartNext ==
  ASSUME NEW c \in Code, NEW k \in 1..Len(c)
  PROVE  /\ Compiler!Start(c, k) \in Nat
         /\ Compiler!Start(c, k + 1) = Compiler!Start(c, k) + c[k].len
<1> DEFINE n == k - 1
           p == SubSeq(c, 1, n)
           q == p \o <<c[k]>>
<1>1. Len(c) \in Nat /\ n \in Nat /\ n <= Len(c) /\ k \in Nat /\ k <= Len(c) /\ k = n + 1 /\ k + 1 - 1 = k
      /\ c[k] \in InsType
  BY DEF Code
<1>2. p \in Code /\ Len(p) = n /\ \A i \in 1..n : p[i] = c[i]
  BY <1>1, Prefix DEF Code
<1>3. <<c[k]>> \in Code /\ Compiler!Size(<<c[k]>>) = c[k].len /\ Len(<<c[k]>>) = 1 /\ <<c[k]>>[1] = c[k]
  BY <1>1, SizeOne
<1> HIDE DEF p, n
<1>4. /\ q \in Code /\ Len(q) = n + 1
      /\ \A i \in 1..(n + 1) : q[i] = IF i <= n THEN p[i] ELSE <<c[k]>>[i - n]
  BY <1>2, <1>3, ConcatProperties DEF Code
<1>5. Compiler!Size(q) = Compiler!Size(p) + c[k].len
  BY <1>2, <1>3, SizeConcat
<1> HIDE DEF q
<1>6. SubSeq(c, 1, k) \in Code /\ Len(SubSeq(c, 1, k)) = k /\ \A i \in 1..k : SubSeq(c, 1, k)[i] = c[i]
  BY <1>1, Prefix DEF Code
<1>7. \A i \in 1..k : SubSeq(c, 1, k)[i] = q[i]
  <2> TAKE i \in 1..k
  <2>1. CASE i <= n
    BY <1>1, <1>2, <1>4, <1>6, <2>1
  <2>2. CASE ~(i <= n)
    <3>1. i = k /\ i - n = 1
      BY <1>1, <2>2
    <3>2. q[i] = c[k]
      BY <1>1, <1>3, <1>4, <2>2, <3>1
    <3> QED
      BY <1>6, <3>1, <3>2
  <2> QED
    BY <2>1, <2>2
<1>8. Compiler!Size(SubSeq(c, 1, k)) = Compiler!Size(q)
  BY <1>1, <1>4, <1>6, <1>7, SameLengths
<1>9. Compiler!Start(c, k) = Compiler!Size(p) /\ Compiler!Start(c, k + 1) = Compiler!Size(SubSeq(c, 1, k))
  BY <1>1 DEF Compiler!Start, p, n
<1> QED
  BY <1>2, <1>5, <1>8, <1>9, BytesAre

\* No two instructions have one address.
LEMMA StartIncreases ==
  ASSUME NEW c \in Code, NEW j \in 1..(Len(c) + 1), NEW k \in 1..(Len(c) + 1), j < k
  PROVE  Compiler!Start(c, j) < Compiler!Start(c, k)
<1> DEFINE T == {i \in 1..(Len(c) + 1) : j < i /\ ~(Compiler!Start(c, j) < Compiler!Start(c, i))}
<1>1. Len(c) \in Nat
  BY DEF Code
<1>2. \A i \in 1..Len(c) : /\ Compiler!Start(c, i) \in Nat /\ c[i].len \in Nat /\ c[i].len > 0
                           /\ Compiler!Start(c, i + 1) = Compiler!Start(c, i) + c[i].len
  <2> TAKE i \in 1..Len(c)
  <2>1. c[i] \in InsType
    BY DEF Code
  <2> QED
    BY <2>1, StartNext, InsFields
<1> SUFFICES T = {}
  OBVIOUS
<1> SUFFICES ASSUME T # {} PROVE FALSE
  OBVIOUS
<1>3. PICK i \in T : \A l \in T : i <= l
  <2>1. T \subseteq Nat
    BY <1>1
  <2> HIDE DEF T
  <2> QED
    BY <2>1, LeastNat
<1>4. i - 1 \in 1..Len(c) /\ (i - 1) + 1 = i /\ j <= i - 1 /\ i - 1 \notin T
  BY <1>1, <1>3
<1>5. Compiler!Start(c, j) <= Compiler!Start(c, i - 1)
  <2>1. CASE j = i - 1
    BY <1>2, <1>4, <2>1
  <2>2. CASE j < i - 1
    <3>1. Compiler!Start(c, j) < Compiler!Start(c, i - 1)
      BY <1>1, <1>4, <2>2
    <3>2. j \in 1..Len(c)
      BY <1>1, <1>3
    <3> QED
      BY <1>2, <1>4, <3>1, <3>2
  <2> QED
    BY <1>1, <1>3, <1>4, <2>1, <2>2
<1>6. j \in 1..Len(c)
  BY <1>1, <1>3
<1>7. Compiler!Start(c, j) < Compiler!Start(c, i)
  <2>1. Compiler!Start(c, j) \in Nat /\ Compiler!Start(c, i - 1) \in Nat
    BY <1>2, <1>4, <1>6
  <2>2. /\ c[i - 1].len \in Nat /\ c[i - 1].len > 0
        /\ Compiler!Start(c, i) = Compiler!Start(c, i - 1) + c[i - 1].len
    BY <1>2, <1>4
  <2> DEFINE a == Compiler!Start(c, j)
             b == Compiler!Start(c, i - 1)
             l == c[i - 1].len
  <2>3. a \in Nat /\ b \in Nat /\ l \in Nat /\ l > 0 /\ a <= b /\ Compiler!Start(c, i) = b + l
    BY <1>5, <2>1, <2>2
  <2> HIDE DEF a, b, l
  <2>4. a < b + l
    BY <2>3
  <2> QED
    BY <2>3, <2>4 DEF a
<1> QED
  BY <1>3, <1>7

---------------------------------------------------------------------------
(* Code that holds together *)

IsJump(ins) == ins.op \in {"je", "jne"}

\* An instruction that relies on registers set before it.
Inner(ins) == ins.op = "int" \/ (ins.op = "mov" /\ ins.dst \in {"ebx", "ecx", "edx"})

\* code[k] sets register r to the number imm.
Sets(code, k, r, imm) ==
  code[k].op = "mov" /\ code[k].dst = r /\ code[k].reg = "none" /\ code[k].imm = imm

\* The three instructions of an exit start at g.
ExitGroup(code, g) ==
  /\ g + 2 <= Len(code)
  /\ Sets(code, g, "eax", Compiler!SYS_EXIT)
  /\ code[g + 1].op = "mov" /\ code[g + 1].dst = "ebx"
  /\ code[g + 2].op = "int"

\* The five instructions of a read or a write start at g.
CallGroup(code, g) ==
  /\ g + 4 <= Len(code)
  /\ \E call \in {Compiler!SYS_READ, Compiler!SYS_WRITE} : Sets(code, g, "eax", call)
  /\ code[g + 1].op = "mov" /\ code[g + 1].dst = "ebx"
  /\ code[g + 2].op = "mov" /\ code[g + 2].dst = "ecx" /\ code[g + 2].reg = "edi"
  /\ code[g + 3].op = "mov" /\ code[g + 3].dst = "edx"
  /\ code[g + 4].op = "int"

\* Instruction k is inside the system call that starts at g.
Within(code, g, k) ==
  \/ ExitGroup(code, g) /\ k \in (g + 1)..(g + 2)
  \/ CallGroup(code, g) /\ k \in (g + 1)..(g + 4)

Grouped(code) ==
  \A k \in 1..Len(code) : Inner(code[k]) => \E g \in 1..Len(code) : Within(code, g, k)

\* The jump at k leads to instruction j of code or, j = Len(code) + 1, just
\* behind it, and never into a system call.
LandsAt(code, k, j) ==
  /\ Compiler!Start(code, k + 1) + code[k].imm = Compiler!Start(code, j)
  /\ j <= Len(code) => ~Inner(code[j])

Fits(code) == Compiler!Size(code) <= INT32_MAX

Good(code) ==
  /\ code \in Code
  /\ Grouped(code)
  /\ Fits(code) => \A k \in 1..Len(code) :
       IsJump(code[k]) => \E j \in 1..(Len(code) + 1) : LandsAt(code, k, j)

\* Code that ends with an exit, behind which no jump leads.
Complete(code) ==
  /\ Len(code) > 2
  /\ ExitGroup(code, Len(code) - 2)
  /\ Fits(code) => \A k \in 1..Len(code) :
       IsJump(code[k]) => \E j \in 1..Len(code) : LandsAt(code, k, j)

\* What is before and behind in c \o d.
LEMMA Joined ==
  ASSUME NEW c \in Code, NEW d \in Code, NEW e, e = c \o d
  PROVE  /\ e \in Code
         /\ Len(c) \in Nat /\ Len(d) \in Nat /\ Len(e) = Len(c) + Len(d)
         /\ \A k \in 1..Len(c) : e[k] = c[k]
         /\ \A k \in 1..Len(d) : e[Len(c) + k] = d[k]
         /\ \A k \in 1..Len(e) : k <= Len(c) \/ k - Len(c) \in 1..Len(d)
<1>1. /\ e \in Code /\ Len(e) = Len(c) + Len(d)
      /\ \A k \in 1..(Len(c) + Len(d)) : e[k] = IF k <= Len(c) THEN c[k] ELSE d[k - Len(c)]
  BY ConcatProperties DEF Code
<1>2. Len(c) \in Nat /\ Len(d) \in Nat
  BY DEF Code
<1>3. ASSUME NEW k \in 1..Len(c) PROVE e[k] = c[k]
  <2>1. k \in 1..(Len(c) + Len(d)) /\ k <= Len(c)
    BY <1>2
  <2> QED
    BY <1>1, <2>1
<1>4. ASSUME NEW k \in 1..Len(d) PROVE e[Len(c) + k] = d[k]
  <2>1. Len(c) + k \in 1..(Len(c) + Len(d)) /\ ~(Len(c) + k <= Len(c)) /\ (Len(c) + k) - Len(c) = k
    BY <1>2
  <2> QED
    BY <1>1, <2>1
<1> QED
  BY <1>1, <1>2, <1>3, <1>4

\* Groups stay groups wherever the code is put.
LEMMA WithinLeft ==
  ASSUME NEW c \in Code, NEW d \in Code, NEW e, e = c \o d,
         NEW g \in 1..Len(c), NEW k \in 1..Len(c), Within(c, g, k)
  PROVE  g \in 1..Len(e) /\ k \in 1..Len(e) /\ Within(e, g, k)
<1>1. /\ Len(c) \in Nat /\ Len(d) \in Nat /\ Len(e) = Len(c) + Len(d)
      /\ \A i \in 1..Len(c) : e[i] = c[i]
  BY Joined
<1>2. ASSUME ExitGroup(c, g) PROVE ExitGroup(e, g)
  <2>1. g \in 1..Len(c) /\ g + 1 \in 1..Len(c) /\ g + 2 \in 1..Len(c) /\ g + 2 <= Len(e)
    BY <1>1, <1>2 DEF ExitGroup
  <2>2. e[g] = c[g] /\ e[g + 1] = c[g + 1] /\ e[g + 2] = c[g + 2]
    BY <1>1, <2>1
  <2> QED
    BY <1>2, <2>1, <2>2 DEF ExitGroup, Sets
<1>3. ASSUME CallGroup(c, g) PROVE CallGroup(e, g)
  <2>1. /\ g + 4 <= Len(e)
        /\ g \in 1..Len(c) /\ g + 1 \in 1..Len(c) /\ g + 2 \in 1..Len(c)
        /\ g + 3 \in 1..Len(c) /\ g + 4 \in 1..Len(c)
    BY <1>1, <1>3, SMTT(30) DEF CallGroup
  <2>2. /\ e[g] = c[g] /\ e[g + 1] = c[g + 1] /\ e[g + 2] = c[g + 2]
        /\ e[g + 3] = c[g + 3] /\ e[g + 4] = c[g + 4]
    BY <1>1, <2>1
  <2> QED
    BY <1>3, <2>1, <2>2 DEF CallGroup, Sets
<1>4. g \in 1..Len(e) /\ k \in 1..Len(e)
  BY <1>1
<1> QED
  BY <1>2, <1>3, <1>4 DEF Within

LEMMA WithinRight ==
  ASSUME NEW c \in Code, NEW d \in Code, NEW e, e = c \o d,
         NEW g \in 1..Len(d), NEW k \in 1..Len(d), Within(d, g, k)
  PROVE  Len(c) + g \in 1..Len(e) /\ Len(c) + k \in 1..Len(e) /\ Within(e, Len(c) + g, Len(c) + k)
<1> DEFINE m == Len(c)
<1>1. /\ m \in Nat /\ Len(d) \in Nat /\ Len(e) = m + Len(d)
      /\ \A i \in 1..Len(d) : e[m + i] = d[i]
  BY Joined
<1> HIDE DEF m
<1>2. ASSUME ExitGroup(d, g) PROVE ExitGroup(e, m + g)
  <2>1. /\ g \in 1..Len(d) /\ g + 1 \in 1..Len(d) /\ g + 2 \in 1..Len(d) /\ (m + g) + 2 <= Len(e)
        /\ m + (g + 1) = (m + g) + 1 /\ m + (g + 2) = (m + g) + 2
    <3>1. g + 2 <= Len(d)
      BY <1>2 DEF ExitGroup
    <3> QED
      BY <1>1, <3>1
  <2>2. e[m + g] = d[g] /\ e[(m + g) + 1] = d[g + 1] /\ e[(m + g) + 2] = d[g + 2]
    BY <1>1, <2>1
  <2> QED
    BY <1>2, <2>1, <2>2 DEF ExitGroup, Sets
<1>3. ASSUME CallGroup(d, g) PROVE CallGroup(e, m + g)
  <2>1. /\ (m + g) + 4 <= Len(e)
        /\ g \in 1..Len(d) /\ g + 1 \in 1..Len(d) /\ g + 2 \in 1..Len(d)
        /\ g + 3 \in 1..Len(d) /\ g + 4 \in 1..Len(d)
    <3> DEFINE n == Len(d)
    <3>1. g + 4 <= n
      BY <1>3 DEF CallGroup
    <3>2. n \in Nat /\ g \in 1..n /\ Len(e) = m + n
      BY <1>1
    <3> HIDE DEF n
    <3>3. /\ (m + g) + 4 <= m + n
          /\ g \in 1..n /\ g + 1 \in 1..n /\ g + 2 \in 1..n
          /\ g + 3 \in 1..n /\ g + 4 \in 1..n
      BY <1>1, <3>1, <3>2
    <3> QED
      BY <3>2, <3>3 DEF n
  <2>2. /\ m + (g + 1) = (m + g) + 1 /\ m + (g + 2) = (m + g) + 2
        /\ m + (g + 3) = (m + g) + 3 /\ m + (g + 4) = (m + g) + 4
    BY <1>1
  <2>3. /\ e[m + g] = d[g] /\ e[(m + g) + 1] = d[g + 1] /\ e[(m + g) + 2] = d[g + 2]
        /\ e[(m + g) + 3] = d[g + 3] /\ e[(m + g) + 4] = d[g + 4]
    BY <1>1, <2>1, <2>2
  <2> QED
    BY <1>3, <2>1, <2>3 DEF CallGroup, Sets
<1>4. /\ m + g \in 1..Len(e) /\ m + k \in 1..Len(e)
      /\ k \in (g + 1)..(g + 2) => m + k \in ((m + g) + 1)..((m + g) + 2)
      /\ k \in (g + 1)..(g + 4) => m + k \in ((m + g) + 1)..((m + g) + 4)
  BY <1>1
<1> QED
  BY <1>2, <1>3, <1>4 DEF Within, m

LEMMA GroupedConcat ==
  ASSUME NEW c \in Code, NEW d \in Code, Grouped(c), Grouped(d), NEW e, e = c \o d
  PROVE  Grouped(e)
<1>1. /\ Len(c) \in Nat /\ Len(d) \in Nat /\ Len(e) = Len(c) + Len(d)
      /\ \A k \in 1..Len(c) : e[k] = c[k]
      /\ \A k \in 1..Len(d) : e[Len(c) + k] = d[k]
      /\ \A k \in 1..Len(e) : k <= Len(c) \/ k - Len(c) \in 1..Len(d)
  BY Joined
<1> SUFFICES ASSUME NEW k \in 1..Len(e), Inner(e[k]) PROVE \E g \in 1..Len(e) : Within(e, g, k)
  BY DEF Grouped
<1>2. CASE k <= Len(c)
  <2>1. k \in 1..Len(c) /\ Inner(c[k])
    BY <1>1, <1>2
  <2>2. PICK g \in 1..Len(c) : Within(c, g, k)
    BY <2>1 DEF Grouped
  <2> QED
    BY <2>1, <2>2, WithinLeft
<1>3. CASE k - Len(c) \in 1..Len(d)
  <2> DEFINE i == k - Len(c)
  <2>1. Len(c) + i = k /\ i \in 1..Len(d)
    BY <1>1, <1>3
  <2> HIDE DEF i
  <2>2. Inner(d[i])
    BY <1>1, <2>1
  <2>3. PICK g \in 1..Len(d) : Within(d, g, i)
    BY <2>1, <2>2 DEF Grouped
  <2> QED
    BY <2>1, <2>3, WithinRight
<1> QED
  BY <1>1, <1>2, <1>3

\* A system call does not start in its middle.
LEMMA FirstNotInner ==
  ASSUME NEW c \in Code, Grouped(c), Len(c) > 0
  PROVE  ~Inner(c[1])
<1>1. 1 \in 1..Len(c)
  BY DEF Code
<1>2. \A g \in 1..Len(c) : ~Within(c, g, 1)
  BY DEF Within
<1> QED
  BY <1>1, <1>2 DEF Grouped

---------------------------------------------------------------------------
(* Jumps *)

\* Where a jump leads does not depend on what the code is put into.
LEMMA LandsLeft ==
  ASSUME NEW c \in Code, NEW d \in Code, Grouped(d), NEW e, e = c \o d,
         NEW k \in 1..Len(c), NEW j \in 1..(Len(c) + 1), LandsAt(c, k, j)
  PROVE  j \in 1..(Len(e) + 1) /\ LandsAt(e, k, j)
<1>1. /\ Len(c) \in Nat /\ Len(d) \in Nat /\ Len(e) = Len(c) + Len(d)
      /\ \A i \in 1..Len(c) : e[i] = c[i]
      /\ \A i \in 1..Len(d) : e[Len(c) + i] = d[i]
  BY Joined
<1>2. k + 1 \in 1..(Len(c) + 1) /\ j \in 1..(Len(e) + 1)
  BY <1>1
<1>3. Compiler!Start(e, k + 1) = Compiler!Start(c, k + 1) /\ Compiler!Start(e, j) = Compiler!Start(c, j)
  BY <1>2, StartLeft
<1>4. Compiler!Start(e, k + 1) + e[k].imm = Compiler!Start(e, j)
  BY <1>1, <1>3 DEF LandsAt
<1>5. ASSUME j <= Len(e) PROVE ~Inner(e[j])
  <2>1. CASE j <= Len(c)
    <3>1. e[j] = c[j]
      BY <1>1, <2>1
    <3> QED
      BY <2>1, <3>1 DEF LandsAt
  <2>2. CASE j = Len(c) + 1
    <3>1. Len(d) > 0 /\ 1 \in 1..Len(d)
      BY <1>1, <1>5, <2>2
    <3>2. e[j] = d[1]
      BY <1>1, <2>2, <3>1
    <3>3. ~Inner(d[1])
      BY <3>1, FirstNotInner
    <3> QED
      BY <3>2, <3>3
  <2>3. j <= Len(c) \/ j = Len(c) + 1
    <3> DEFINE n == Len(c)
    <3>1. n \in Nat /\ j \in 1..(n + 1)
      BY <1>1
    <3> HIDE DEF n
    <3>2. j <= n \/ j = n + 1
      BY <3>1
    <3> QED
      BY <3>2 DEF n
  <2> QED
    BY <2>1, <2>2, <2>3
<1> QED
  BY <1>2, <1>4, <1>5 DEF LandsAt

LEMMA LandsRight ==
  ASSUME NEW c \in Code, NEW d \in Code, NEW e, e = c \o d,
         NEW k \in 1..Len(d), NEW j \in 1..(Len(d) + 1), LandsAt(d, k, j)
  PROVE  Len(c) + j \in 1..(Len(e) + 1) /\ LandsAt(e, Len(c) + k, Len(c) + j)
<1>1. /\ Len(c) \in Nat /\ Len(d) \in Nat /\ Len(e) = Len(c) + Len(d)
      /\ \A i \in 1..Len(d) : e[Len(c) + i] = d[i]
  BY Joined
<1>2. /\ k + 1 \in 1..(Len(d) + 1) /\ Len(c) + (k + 1) = (Len(c) + k) + 1
      /\ Len(c) + j \in 1..(Len(e) + 1)
  BY <1>1
<1>3. /\ Compiler!Start(e, (Len(c) + k) + 1) = Compiler!Size(c) + Compiler!Start(d, k + 1)
      /\ Compiler!Start(e, Len(c) + j) = Compiler!Size(c) + Compiler!Start(d, j)
  <2>1. Compiler!Start(e, Len(c) + (k + 1)) = Compiler!Size(c) + Compiler!Start(d, k + 1)
    BY <1>2, StartRight
  <2>2. Compiler!Start(e, Len(c) + j) = Compiler!Size(c) + Compiler!Start(d, j)
    BY StartRight
  <2> QED
    BY <1>2, <2>1, <2>2
<1>4. Compiler!Start(d, k + 1) + d[k].imm = Compiler!Start(d, j) /\ e[Len(c) + k] = d[k]
  BY <1>1 DEF LandsAt
<1>5. Compiler!Size(c) \in Nat /\ Compiler!Start(d, k + 1) \in Nat /\ d[k].imm \in Int
  <2>1. d[k] \in InsType
    BY DEF Code
  <2>2. Compiler!Start(d, k) \in Nat /\ Compiler!Start(d, k + 1) = Compiler!Start(d, k) + d[k].len
    BY StartNext
  <2>3. d[k].len \in Nat /\ d[k].imm \in Int
    BY <2>1, InsFields
  <2>4. Compiler!Size(c) \in Nat
    BY BytesAre
  <2> DEFINE a == Compiler!Start(d, k)
             l == d[k].len
  <2>5. a \in Nat /\ l \in Nat /\ Compiler!Start(d, k + 1) = a + l
    BY <2>2, <2>3
  <2> HIDE DEF a, l
  <2>6. Compiler!Start(d, k + 1) \in Nat
    BY <2>5
  <2> QED
    BY <2>3, <2>4, <2>6
<1>6. Compiler!Start(e, (Len(c) + k) + 1) + e[Len(c) + k].imm = Compiler!Start(e, Len(c) + j)
  <2> DEFINE s == Compiler!Size(c)
             a == Compiler!Start(d, k + 1)
             i == d[k].imm
  <2>1. s \in Nat /\ a \in Nat /\ i \in Int
    BY <1>5
  <2>2. /\ Compiler!Start(e, (Len(c) + k) + 1) = s + a
        /\ Compiler!Start(e, Len(c) + j) = s + (a + i)
        /\ e[Len(c) + k].imm = i
    BY <1>3, <1>4
  <2> HIDE DEF s, a, i
  <2>3. (s + a) + i = s + (a + i)
    BY <2>1
  <2> QED
    BY <2>2, <2>3
<1>7. ASSUME Len(c) + j <= Len(e) PROVE ~Inner(e[Len(c) + j])
  <2>1. j \in 1..Len(d)
    BY <1>1, <1>7
  <2> QED
    BY <1>1, <2>1 DEF LandsAt
<1> QED
  BY <1>2, <1>6, <1>7 DEF LandsAt

LEMMA FitsParts ==
  ASSUME NEW c \in Code, NEW d \in Code, NEW e, e = c \o d, Fits(e)
  PROVE  Fits(c) /\ Fits(d)
<1>1. /\ Compiler!Size(c) \in Nat /\ Compiler!Size(d) \in Nat
      /\ Compiler!Size(e) = Compiler!Size(c) + Compiler!Size(d)
  BY BytesAre, SizeConcat
<1> DEFINE a == Compiler!Size(c)
           b == Compiler!Size(d)
<1>2. a \in Nat /\ b \in Nat /\ a + b <= INT32_MAX /\ INT32_MAX \in Nat
  BY <1>1, Int32Assumption DEF Fits
<1> HIDE DEF a, b
<1>3. a <= INT32_MAX /\ b <= INT32_MAX
  BY <1>2
<1> QED
  BY <1>3 DEF Fits, a, b

\* Code is put together from parts that hold together.
LEMMA GoodConcat ==
  ASSUME NEW c \in Code, NEW d \in Code, Good(c), Good(d), NEW e, e = c \o d
  PROVE  Good(e)
<1>1. c \in Code /\ Grouped(c) /\ d \in Code /\ Grouped(d)
  BY DEF Good
<1>2. /\ e \in Code
      /\ Len(c) \in Nat /\ Len(d) \in Nat /\ Len(e) = Len(c) + Len(d)
      /\ \A k \in 1..Len(c) : e[k] = c[k]
      /\ \A k \in 1..Len(d) : e[Len(c) + k] = d[k]
      /\ \A k \in 1..Len(e) : k <= Len(c) \/ k - Len(c) \in 1..Len(d)
  <2>1. e = c \o d
    OBVIOUS
  <2> HIDE DEF Good
  <2> QED
    BY <2>1, Joined
<1>3. Grouped(e)
  BY <1>1, GroupedConcat
<1>4. ASSUME Fits(e), NEW k \in 1..Len(e), IsJump(e[k])
      PROVE  \E j \in 1..(Len(e) + 1) : LandsAt(e, k, j)
  <2>1. Fits(c) /\ Fits(d)
    BY <1>1, <1>4, FitsParts
  <2>2. CASE k <= Len(c)
    <3>1. k \in 1..Len(c) /\ IsJump(c[k])
      BY <1>2, <1>4, <2>2
    <3>2. PICK j \in 1..(Len(c) + 1) : LandsAt(c, k, j)
      BY <2>1, <3>1 DEF Good
    <3> QED
      BY <1>1, <3>1, <3>2, LandsLeft
  <2>3. CASE k - Len(c) \in 1..Len(d)
    <3> DEFINE i == k - Len(c)
    <3>1. Len(c) + i = k /\ i \in 1..Len(d)
      BY <1>2, <2>3
    <3> HIDE DEF i
    <3>2. IsJump(d[i])
      BY <1>2, <1>4, <3>1
    <3>3. PICK j \in 1..(Len(d) + 1) : LandsAt(d, i, j)
      BY <2>1, <3>1, <3>2 DEF Good
    <3> QED
      BY <1>1, <3>1, <3>3, LandsRight
  <2> QED
    BY <1>2, <2>2, <2>3
<1> QED
  BY <1>2, <1>3, <1>4 DEF Good

\* Code without jumps holds together if its system calls do.
LEMMA GoodStraight ==
  ASSUME NEW c \in Code, Grouped(c), \A k \in 1..Len(c) : ~IsJump(c[k])
  PROVE  Good(c)
BY DEF Good

---------------------------------------------------------------------------
(* What the emit functions emit *)

LEMMA ModSmall ==
  ASSUME NEW a \in Nat, NEW b \in Nat, a < b
  PROVE  a % b = a
OBVIOUS

LEMMA ModInt ==
  ASSUME NEW a \in Int, NEW b \in Nat, b > 0
  PROVE  a % b \in 0..(b - 1)
OBVIOUS

\* A conversion to fewer bits keeps what fits.
LEMMA SignedFits ==
  ASSUME NEW max \in Nat, NEW x \in Int
  PROVE  /\ Compiler!Signed(x, max) \in Int
         /\ x >= -max - 1 /\ x <= max => Compiler!Signed(x, max) = x
<1> DEFINE a == x + max + 1
           b == 2 * (max + 1)
<1>1. a \in Int /\ b \in Nat /\ b > 0
  OBVIOUS
<1>2. x >= -max - 1 /\ x <= max => a \in Nat /\ a < b
  OBVIOUS
<1>3. Compiler!Signed(x, max) = (a % b) - (max + 1)
  BY DEF Compiler!Signed
<1>4. a - (max + 1) = x
  OBVIOUS
<1> HIDE DEF a, b
<1>5. a % b \in Int
  BY <1>1, ModInt
<1>6. x >= -max - 1 /\ x <= max => a % b = a
  BY <1>1, <1>2, ModSmall
<1> QED
  BY <1>3, <1>4, <1>5, <1>6

LEMMA ConvertFits ==
  ASSUME NEW x \in Int
  PROVE  /\ Compiler!Int8(x) \in Int /\ Compiler!Int32(x) \in Int
         /\ x >= -INT8_MAX - 1 /\ x <= INT8_MAX => Compiler!Int8(x) = x
         /\ x >= -INT32_MAX - 1 /\ x <= INT32_MAX => Compiler!Int32(x) = x
<1>1. INT8_MAX \in Nat /\ INT32_MAX \in Nat
  BY Int8Assumption, Int32Assumption
<1> QED
  BY <1>1, SignedFits DEF Compiler!Int8, Compiler!Int32

Ops == {"mov", "push", "add", "sub", "cmp", "je", "jne", "int"}

LEMMA InsOf ==
  ASSUME NEW op \in Ops, NEW dst \in Places, NEW reg \in Places, NEW imm \in Int,
         NEW len \in Nat \ {0}, NEW ins, ins = Compiler!Ins(op, dst, reg, imm, len)
  PROVE  /\ ins \in InsType
         /\ ins.op = op /\ ins.dst = dst /\ ins.reg = reg /\ ins.imm = imm /\ ins.len = len
BY DEF Compiler!Ins, InsType, Ops

\* Two instructions that differ in their place in the source only.
Alike(a, b) == a.op = b.op /\ a.dst = b.dst /\ a.reg = b.reg /\ a.imm = b.imm /\ a.len = b.len

LEMMA AtKeeps ==
  ASSUME NEW a \in InsType, NEW at \in Int, NEW b, b = [a EXCEPT !.at = at]
  PROVE  b \in InsType /\ Alike(b, a)
BY DEF InsType, Alike

LEMMA PlaceKeeps ==
  ASSUME NEW c \in Code, NEW at \in Int, NEW p, p = Compiler!Place(c, at)
  PROVE  /\ p \in Code /\ Len(p) = Len(c) /\ Len(c) \in Nat
         /\ \A k \in 1..Len(c) : Alike(p[k], c[k])
         /\ Compiler!Size(p) = Compiler!Size(c)
<1> DEFINE n == Len(c)
<1>1. n \in Nat /\ \A k \in 1..n : c[k] \in InsType
  BY DEF Code
<1>2. p = [k \in 1..n |-> [c[k] EXCEPT !.at = at]]
  BY DEF Compiler!Place
<1> HIDE DEF n
<1>3. \A k \in 1..n : p[k] \in InsType /\ Alike(p[k], c[k])
  BY <1>1, <1>2, AtKeeps
<1>4. p \in Code /\ Len(p) = n
  BY <1>1, <1>2, <1>3 DEF Code
<1>5. \A k \in 1..n : p[k].len = c[k].len
  BY <1>3 DEF Alike
<1>6. Len(p) = Len(c) /\ \A k \in 1..Len(p) : p[k].len = c[k].len
  BY <1>4, <1>5 DEF n
<1>7. Compiler!Size(p) = Compiler!Size(c)
  BY <1>4, <1>6, SameLengths
<1> QED
  BY <1>1, <1>3, <1>4, <1>7 DEF n

\* No system call, no jump.
Plain(ins) == ~Inner(ins) /\ ~IsJump(ins)

LEMMA PlainGood ==
  ASSUME NEW c \in Code, \A k \in 1..Len(c) : Plain(c[k])
  PROVE  Good(c)
BY GoodStraight DEF Grouped, Plain

\* Moves and additions.
LEMMA AddSubGood ==
  ASSUME NEW dst \in {"edi", "mem"}, NEW arg \in Int, NEW at \in Int,
         NEW p, p = Compiler!Place(Compiler!emit_add_sub(dst, arg), at)
  PROVE  Good(p)
<1> DEFINE op == IF arg > 0 THEN "add" ELSE "sub"
           n == IF arg > 0 THEN arg ELSE -arg
           c == Compiler!emit_add_sub(dst, arg)
<1>1. op \in {"add", "sub"} /\ n \in Nat
  OBVIOUS
<1>2. INT8_MAX \in Nat /\ INT32_MAX \in Nat
  BY Int8Assumption, Int32Assumption
<1>3. Compiler!Int8(n) \in Int /\ Compiler!Int32(n) \in Int
  <2> HIDE DEF n
  <2> QED
    BY <1>1, <1>2, SignedFits DEF Compiler!Int8, Compiler!Int32
<1> DEFINE Short(i, l) == Compiler!Ins(op, dst, "none", i, l)
           Load == Compiler!Ins("mov", "eax", "none", Compiler!Int32(n), 6)
           Low == Compiler!Ins(op, "mem", "eax", 0, 2)
<1>4. \/ c = <<>>
      \/ \E i \in Int : \E l \in {1, 2, 3, 6} : c = <<Short(i, l)>>
      \/ c = <<Load, Low>>
  <2> DEFINE s1 == Short(1, IF dst = "edi" THEN 1 ELSE 2)
             s2 == Short(Compiler!Int8(n), 3)
             s3 == Short(Compiler!Int32(n), 6)
  <2>1. c \in {<<>>, <<s1>>, <<s2>>, <<s3>>, <<Load, Low>>}
    BY <1>1, <1>2 DEF Compiler!emit_add_sub
  <2>2. (IF dst = "edi" THEN 1 ELSE 2) \in {1, 2, 3, 6} /\ 3 \in {1, 2, 3, 6} /\ 6 \in {1, 2, 3, 6} /\ 1 \in Int
    OBVIOUS
  <2> QED
    BY <1>3, <2>1, <2>2
<1> HIDE DEF op, n, c
<1>5. \A i \in Int, l \in {1, 2, 3, 6} : Short(i, l) \in InsType /\ Plain(Short(i, l))
  <2> TAKE i \in Int, l \in {1, 2, 3, 6}
  <2> DEFINE ins == Short(i, l)
  <2>1. op \in Ops /\ dst \in Places /\ "none" \in Places /\ l \in Nat \ {0}
    BY <1>1 DEF Ops, Places, Compiler!Registers
  <2>2. ins \in InsType /\ ins.op = op
    BY <2>1, InsOf
  <2> QED
    BY <1>1, <2>2 DEF Plain, Inner, IsJump
<1>6. Load \in InsType /\ Plain(Load) /\ Low \in InsType /\ Plain(Low)
  <2>1. /\ "mov" \in Ops /\ op \in Ops /\ "eax" \in Places /\ "mem" \in Places /\ "none" \in Places
        /\ 0 \in Int /\ 2 \in Nat \ {0} /\ 6 \in Nat \ {0}
    BY <1>1 DEF Ops, Places, Compiler!Registers
  <2>2. Load \in InsType /\ Load.op = "mov" /\ Load.dst = "eax"
    BY <1>3, <2>1, InsOf
  <2>3. Low \in InsType /\ Low.op = op
    BY <2>1, InsOf
  <2> QED
    BY <1>1, <2>2, <2>3 DEF Plain, Inner, IsJump
<1> HIDE DEF Short, Load, Low
<1>7. c \in Code /\ \A k \in 1..Len(c) : Plain(c[k])
  <2>1. CASE c = <<>>
    BY <2>1 DEF Code
  <2>2. ASSUME NEW i \in Int, NEW l \in {1, 2, 3, 6}, c = <<Short(i, l)>>
        PROVE  c \in Code /\ \A k \in 1..Len(c) : Plain(c[k])
    <3> DEFINE ins == Short(i, l)
    <3>1. ins \in InsType /\ Plain(ins) /\ c = <<ins>>
      BY <1>5, <2>2
    <3> HIDE DEF ins
    <3> QED
      BY <3>1 DEF Code
  <2>3. CASE c = <<Load, Low>>
    <3>1. c \in Code /\ Len(c) = 2 /\ c[1] = Load /\ c[2] = Low
      BY <1>6, <2>3 DEF Code
    <3> QED
      BY <1>6, <3>1
  <2> QED
    BY <1>4, <2>1, <2>2, <2>3
<1>8. /\ p \in Code /\ Len(p) = Len(c)
      /\ \A k \in 1..Len(c) : Alike(p[k], c[k])
  BY <1>7, PlaceKeeps DEF c
<1>9. \A k \in 1..Len(p) : Plain(p[k])
  BY <1>7, <1>8 DEF Alike, Plain, Inner, IsJump
<1> QED
  BY <1>8, <1>9, PlainGood

\* A part that is one system call.
LEMMA ExitGood ==
  ASSUME NEW arg \in Int, NEW at \in Int,
         NEW p, p = Compiler!Place(Compiler!emit_code_exit(arg), at)
  PROVE  /\ Good(p) /\ Len(p) = 3 /\ ExitGroup(p, 1)
         /\ \A k \in 1..Len(p) : ~IsJump(p[k])
<1> DEFINE c == Compiler!emit_code_exit(arg)
           i1 == Compiler!Ins("mov", "eax", "none", Compiler!SYS_EXIT, 5)
           i2 == Compiler!Ins("mov", "ebx", "none", arg, 5)
           i3 == Compiler!Ins("int", "none", "none", 0, 2)
<1>1. /\ "mov" \in Ops /\ "int" \in Ops /\ "eax" \in Places /\ "ebx" \in Places /\ "none" \in Places
      /\ Compiler!SYS_EXIT \in Int /\ 0 \in Int /\ 5 \in Nat \ {0} /\ 2 \in Nat \ {0}
  BY DEF Ops, Places, Compiler!Registers, Compiler!SYS_EXIT
<1>2. i1 \in InsType /\ i1.op = "mov" /\ i1.dst = "eax" /\ i1.reg = "none" /\ i1.imm = Compiler!SYS_EXIT
  BY <1>1, InsOf
<1>3. i2 \in InsType /\ i2.op = "mov" /\ i2.dst = "ebx"
  BY <1>1, InsOf
<1>4. i3 \in InsType /\ i3.op = "int"
  BY <1>1, InsOf
<1>5. c = <<i1, i2, i3>>
  BY DEF Compiler!emit_code_exit
<1> HIDE DEF c, i1, i2, i3
<1>6. c \in Code /\ Len(c) = 3 /\ c[1] = i1 /\ c[2] = i2 /\ c[3] = i3
  BY <1>2, <1>3, <1>4, <1>5 DEF Code
<1>7. /\ p \in Code /\ Len(p) = 3
      /\ \A k \in 1..3 : Alike(p[k], c[k])
  BY <1>6, PlaceKeeps DEF c
<1>8. Alike(p[1], i1) /\ Alike(p[2], i2) /\ Alike(p[3], i3)
  BY <1>6, <1>7
<1>9. ExitGroup(p, 1)
  BY <1>2, <1>3, <1>4, <1>7, <1>8 DEF ExitGroup, Sets, Alike
<1>10. ~Inner(p[1]) /\ ~IsJump(p[1]) /\ ~IsJump(p[2]) /\ ~IsJump(p[3])
  BY <1>2, <1>3, <1>4, <1>8 DEF Alike, Inner, IsJump
<1>11. Grouped(p)
  <2>1. ASSUME NEW k \in 1..3, Inner(p[k]) PROVE k \in 2..3
    BY <1>10, <2>1
  <2>2. \A k \in 2..3 : Within(p, 1, k)
    BY <1>9 DEF Within
  <2> QED
    BY <1>7, <2>1, <2>2 DEF Grouped
<1>12. \A k \in 1..Len(p) : ~IsJump(p[k])
  BY <1>7, <1>10
<1> QED
  BY <1>7, <1>9, <1>11, <1>12, GoodStraight

\* What Transfer emits.
LEMMA TransferIs ==
  ASSUME NEW call \in {Compiler!SYS_READ, Compiler!SYS_WRITE}, NEW fd \in Int,
         NEW c, c = Compiler!Transfer(call, fd)
  PROVE  /\ c \in Code /\ Len(c) = 5
         /\ Sets(c, 1, "eax", call)
         /\ c[2].op = "mov" /\ c[2].dst = "ebx"
         /\ c[3].op = "mov" /\ c[3].dst = "ecx" /\ c[3].reg = "edi"
         /\ c[4].op = "mov" /\ c[4].dst = "edx"
         /\ c[5].op = "int"
<1> DEFINE i1 == Compiler!Ins("mov", "eax", "none", call, 5)
           i2 == Compiler!Ins("mov", "ebx", "none", fd, 5)
           i3 == Compiler!Ins("mov", "ecx", "edi", 0, 2)
           i4 == Compiler!Ins("mov", "edx", "none", 1, 5)
           i5 == Compiler!Ins("int", "none", "none", 0, 2)
<1>1. /\ "mov" \in Ops /\ "int" \in Ops
      /\ {"eax", "ebx", "ecx", "edx", "edi", "none"} \subseteq Places
      /\ call \in Int /\ 0 \in Int /\ 1 \in Int /\ 5 \in Nat \ {0} /\ 2 \in Nat \ {0}
  BY DEF Ops, Places, Compiler!Registers, Compiler!SYS_READ, Compiler!SYS_WRITE
<1>2. i1 \in InsType /\ i1.op = "mov" /\ i1.dst = "eax" /\ i1.reg = "none" /\ i1.imm = call
  BY <1>1, InsOf
<1>3. i2 \in InsType /\ i2.op = "mov" /\ i2.dst = "ebx"
  BY <1>1, InsOf
<1>4. i3 \in InsType /\ i3.op = "mov" /\ i3.dst = "ecx" /\ i3.reg = "edi"
  BY <1>1, InsOf
<1>5. i4 \in InsType /\ i4.op = "mov" /\ i4.dst = "edx"
  BY <1>1, InsOf
<1>6. i5 \in InsType /\ i5.op = "int"
  BY <1>1, InsOf
<1>7. c = <<i1, i2, i3, i4, i5>>
  BY DEF Compiler!Transfer
<1> HIDE DEF i1, i2, i3, i4, i5
<1>8. c \in Code /\ Len(c) = 5 /\ c[1] = i1 /\ c[2] = i2 /\ c[3] = i3 /\ c[4] = i4 /\ c[5] = i5
  BY <1>2, <1>3, <1>4, <1>5, <1>6, <1>7 DEF Code
<1> QED
  BY <1>2, <1>3, <1>4, <1>5, <1>6, <1>8 DEF Sets

\* Code that is nothing but a system calls.
LEMMA CallsGood ==
  ASSUME NEW w \in Code, NEW a \in Nat, Len(w) = 5 * a,
         \A q \in 0..(a - 1) : CallGroup(w, 5 * q + 1)
  PROVE  Good(w)
<1>1. ASSUME NEW k \in 1..Len(w)
      PROVE  \E q \in 0..(a - 1), r \in 0..4 : k = (5 * q + 1) + r
  <2> DEFINE q == (k - 1) \div 5
             r == (k - 1) % 5
  <2>1. k \in 1..(5 * a)
    BY <1>1
  <2>2. q \in 0..(a - 1) /\ r \in 0..4 /\ k = (5 * q + 1) + r
    BY <2>1
  <2> QED
    BY <2>2
<1>2. ASSUME NEW k \in 1..Len(w), NEW q \in 0..(a - 1), NEW r \in 0..4, k = (5 * q + 1) + r
      PROVE  /\ ~IsJump(w[k])
             /\ Inner(w[k]) => \E g \in 1..Len(w) : Within(w, g, k)
  <2> DEFINE g == 5 * q + 1
  <2>1. g \in Nat /\ g \in 1..Len(w) /\ k = g + r
    BY <1>2
  <2>2. CallGroup(w, g)
    OBVIOUS
  <2> HIDE DEF g
  <2>3. CASE r = 0
    <3>1. k = g /\ w[k].op = "mov" /\ w[k].dst = "eax"
      BY <2>1, <2>2, <2>3 DEF CallGroup, Sets
    <3> QED
      BY <3>1 DEF IsJump, Inner
  <2>4. CASE r # 0
    <3>1. k \in (g + 1)..(g + 4) /\ (k = g + 1 \/ k = g + 2 \/ k = g + 3 \/ k = g + 4)
      BY <2>1, <2>4
    <3>2. w[k].op \in {"mov", "int"}
      BY <2>2, <3>1 DEF CallGroup
    <3>3. Within(w, g, k)
      BY <2>2, <3>1 DEF Within
    <3> QED
      BY <2>1, <3>2, <3>3 DEF IsJump
  <2> QED
    BY <2>3, <2>4
<1>3. Grouped(w) /\ \A k \in 1..Len(w) : ~IsJump(w[k])
  BY <1>1, <1>2 DEF Grouped
<1> QED
  BY <1>3, GoodStraight

LEMMA ReadGood ==
  ASSUME NEW arg, NEW at \in Int, NEW p, p = Compiler!emit_code_read(arg, at)
  PROVE  Good(p)
<1> DEFINE c == Compiler!Transfer(Compiler!SYS_READ, 0)
<1>1. /\ c \in Code /\ Len(c) = 5
      /\ Sets(c, 1, "eax", Compiler!SYS_READ)
      /\ c[2].op = "mov" /\ c[2].dst = "ebx"
      /\ c[3].op = "mov" /\ c[3].dst = "ecx" /\ c[3].reg = "edi"
      /\ c[4].op = "mov" /\ c[4].dst = "edx"
      /\ c[5].op = "int"
  BY TransferIs
<1>2. p = Compiler!Place(c, at)
  BY DEF Compiler!emit_code_read
<1> HIDE DEF c
<1>3. p \in Code /\ Len(p) = 5 /\ \A k \in 1..5 : Alike(p[k], c[k])
  BY <1>1, <1>2, PlaceKeeps
<1>4. Alike(p[1], c[1]) /\ Alike(p[2], c[2]) /\ Alike(p[3], c[3]) /\ Alike(p[4], c[4]) /\ Alike(p[5], c[5])
  BY <1>3
<1>5. CallGroup(p, 1)
  BY <1>1, <1>3, <1>4 DEF CallGroup, Sets, Alike
<1>6. Len(p) = 5 * 1 /\ \A q \in 0..(1 - 1) : CallGroup(p, 5 * q + 1)
  BY <1>3, <1>5
<1> QED
  BY <1>3, <1>6, CallsGood

LEMMA WriteGood ==
  ASSUME NEW arg \in Int, NEW at \in Int, NEW w, w = Compiler!emit_code_write(arg, at)
  PROVE  Good(w)
<1> DEFINE c == Compiler!Transfer(Compiler!SYS_WRITE, 1)
           a == IF arg > 0 THEN arg ELSE 0
           Copy(k) == [c[((k - 1) % 5) + 1] EXCEPT !.at = at + ((k - 1) \div 5)]
<1>1. /\ c \in Code /\ Len(c) = 5
      /\ Sets(c, 1, "eax", Compiler!SYS_WRITE)
      /\ c[2].op = "mov" /\ c[2].dst = "ebx"
      /\ c[3].op = "mov" /\ c[3].dst = "ecx" /\ c[3].reg = "edi"
      /\ c[4].op = "mov" /\ c[4].dst = "edx"
      /\ c[5].op = "int"
  BY TransferIs
<1>2. w = [k \in 1..(5 * a) |-> Copy(k)] /\ a \in Nat
  <2>1. 1..(arg * 5) = 1..(5 * a)
    OBVIOUS
  <2>2. w = [k \in 1..(arg * 5) |-> Copy(k)]
    BY <1>1 DEF Compiler!emit_code_write
  <2> QED
    BY <2>1, <2>2
<1> HIDE DEF a
<1>3. ASSUME NEW k \in 1..(5 * a)
      PROVE  Copy(k) \in InsType /\ Alike(Copy(k), c[((k - 1) % 5) + 1])
  <2>1. ((k - 1) % 5) + 1 \in 1..5 /\ at + ((k - 1) \div 5) \in Int
    BY <1>2, SMTT(30)
  <2> DEFINE x == c[((k - 1) % 5) + 1]
             y == at + ((k - 1) \div 5)
  <2>2. x \in InsType /\ y \in Int
    BY <1>1, <2>1 DEF Code
  <2>3. Copy(k) = [x EXCEPT !.at = y]
    OBVIOUS
  <2> HIDE DEF x, y, Copy
  <2>4. Copy(k) \in InsType /\ Alike(Copy(k), x)
    BY <2>2, <2>3, AtKeeps
  <2> QED
    BY <2>4 DEF x
<1> HIDE DEF Copy, c
<1>4. /\ w \in Code /\ Len(w) = 5 * a
      /\ \A k \in 1..(5 * a) : Alike(w[k], c[((k - 1) % 5) + 1])
  <2> DEFINE n == 5 * a
  <2>1. n \in Nat /\ w = [k \in 1..n |-> Copy(k)] /\ \A k \in 1..n : Copy(k) \in InsType
    BY <1>2, <1>3
  <2>2. \A k \in 1..n : w[k] = Copy(k)
    BY <2>1
  <2>3. \A k \in 1..n : Alike(w[k], c[((k - 1) % 5) + 1])
    BY <1>3, <2>2
  <2> HIDE DEF n
  <2>4. w \in Code /\ Len(w) = n
    BY <2>1 DEF Code
  <2> QED
    BY <2>3, <2>4 DEF n
<1>5. ASSUME NEW q \in 0..(a - 1) PROVE CallGroup(w, 5 * q + 1)
  <2> DEFINE g == 5 * q + 1
  <2>1. /\ g \in 1..(5 * a) /\ g + 1 \in 1..(5 * a) /\ g + 2 \in 1..(5 * a)
        /\ g + 3 \in 1..(5 * a) /\ g + 4 \in 1..(5 * a) /\ g + 4 <= 5 * a
    BY <1>2, <1>5
  <2>2. /\ ((g - 1) % 5) + 1 = 1 /\ ((g + 1 - 1) % 5) + 1 = 2 /\ ((g + 2 - 1) % 5) + 1 = 3
        /\ ((g + 3 - 1) % 5) + 1 = 4 /\ ((g + 4 - 1) % 5) + 1 = 5
    BY <1>2, <1>5
  <2> HIDE DEF g
  <2>3. /\ Alike(w[g], c[1]) /\ Alike(w[g + 1], c[2]) /\ Alike(w[g + 2], c[3])
        /\ Alike(w[g + 3], c[4]) /\ Alike(w[g + 4], c[5])
    BY <1>4, <2>1, <2>2
  <2>4. CallGroup(w, g)
    BY <1>1, <1>4, <2>1, <2>3 DEF CallGroup, Sets, Alike
  <2> QED
    BY <2>4 DEF g
<1> QED
  BY <1>2, <1>4, <1>5, CallsGood

\* A comparison and a jump, placed.
TestAndJump(op, imm, len) == <<Compiler!CmpZero, Compiler!Ins(op, "none", "none", imm, len)>>

LEMMA JumpCode ==
  ASSUME NEW op \in Ops, op \notin {"mov", "int"},
         NEW imm \in Int, NEW len \in Nat \ {0}, NEW at \in Int,
         NEW p, p = Compiler!Place(TestAndJump(op, imm, len), at)
  PROVE  /\ p \in Code /\ Len(p) = 2 /\ Compiler!Size(p) = 3 + len
         /\ ~Inner(p[1]) /\ ~Inner(p[2]) /\ ~IsJump(p[1])
         /\ p[2].imm = imm
         /\ Grouped(p)
<1> DEFINE i1 == Compiler!CmpZero
           i2 == Compiler!Ins(op, "none", "none", imm, len)
           c == <<i1, i2>>
<1>1. "cmp" \in Ops /\ {"mem", "none"} \subseteq Places /\ 0 \in Int /\ 3 \in Nat \ {0}
  BY DEF Ops, Places, Compiler!Registers
<1>2. i1 \in InsType /\ i1.op = "cmp" /\ i1.len = 3
  BY <1>1, InsOf DEF Compiler!CmpZero
<1>3. i2 \in InsType /\ i2.op = op /\ i2.imm = imm /\ i2.len = len
  BY <1>1, InsOf
<1>4. p = Compiler!Place(c, at)
  BY DEF TestAndJump
<1>5. c = <<i1>> \o <<i2>>
  BY DEF Compiler!CmpZero
<1> HIDE DEF i1, i2
<1>6. c \in Code /\ Len(c) = 2 /\ c[1] = i1 /\ c[2] = i2
  BY <1>2, <1>3 DEF Code
<1>7. Compiler!Size(c) = 3 + len
  <2>1. <<i1>> \in Code /\ Compiler!Size(<<i1>>) = 3 /\ <<i2>> \in Code /\ Compiler!Size(<<i2>>) = len
    BY <1>2, <1>3, SizeOne
  <2>2. Compiler!Size(<<i1>> \o <<i2>>) = Compiler!Size(<<i1>>) + Compiler!Size(<<i2>>)
    BY <2>1, SizeConcat
  <2> QED
    BY <1>5, <2>1, <2>2
<1> HIDE DEF c
<1>8. /\ p \in Code /\ Len(p) = 2 /\ Compiler!Size(p) = 3 + len
      /\ \A k \in 1..2 : Alike(p[k], c[k])
  BY <1>4, <1>6, <1>7, PlaceKeeps
<1>9. Alike(p[1], i1) /\ Alike(p[2], i2)
  BY <1>6, <1>8
<1>10. ~Inner(p[1]) /\ ~Inner(p[2]) /\ ~IsJump(p[1]) /\ p[2].imm = imm
  BY <1>2, <1>3, <1>9 DEF Alike, Inner, IsJump
<1>11. Grouped(p)
  BY <1>8, <1>10 DEF Grouped
<1> QED
  BY <1>8, <1>10, <1>11

\* The jump over size bytes.
LEMMA LoopStartCode ==
  ASSUME NEW size \in Nat, NEW at \in Int,
         NEW p, p = Compiler!Place(Compiler!emit_code_loop_start(size), at)
  PROVE  /\ p \in Code /\ Len(p) = 2 /\ Grouped(p) /\ ~IsJump(p[1])
         /\ size <= INT32_MAX => p[2].imm = size
<1> DEFINE imm == IF size + 2 <= INT8_MAX THEN Compiler!Int8(size) ELSE Compiler!Int32(size)
           len == IF size + 2 <= INT8_MAX THEN 2 ELSE 6
<1>1. INT8_MAX \in Nat /\ INT32_MAX \in Nat
  BY Int8Assumption, Int32Assumption
<1>2. p = Compiler!Place(TestAndJump("je", imm, len), at)
  BY DEF Compiler!emit_code_loop_start, TestAndJump
<1>3. /\ Compiler!Int8(size) \in Int /\ Compiler!Int32(size) \in Int
      /\ size <= INT8_MAX => Compiler!Int8(size) = size
      /\ size <= INT32_MAX => Compiler!Int32(size) = size
  <2>1. size \in Int /\ size >= -INT8_MAX - 1 /\ size >= -INT32_MAX - 1
    BY <1>1
  <2> QED
    BY <2>1, ConvertFits
<1>4. imm \in Int /\ len \in {2, 6} /\ (size <= INT32_MAX => imm = size)
  BY <1>1, <1>3
<1> HIDE DEF imm, len
<1>5. "je" \in Ops /\ "je" \notin {"mov", "int"} /\ len \in Nat \ {0}
  BY <1>4 DEF Ops
<1>6. /\ p \in Code /\ Len(p) = 2 /\ Compiler!Size(p) = 3 + len
      /\ ~Inner(p[1]) /\ ~Inner(p[2]) /\ ~IsJump(p[1])
      /\ p[2].imm = imm
      /\ Grouped(p)
  BY <1>2, <1>4, <1>5, JumpCode
<1> QED
  BY <1>4, <1>6

\* The jump back over itself and size bytes.
LEMMA LoopEndCode ==
  ASSUME NEW size \in Nat, NEW at \in Int,
         NEW p, p = Compiler!Place(Compiler!emit_code_loop_end(size), at)
  PROVE  /\ p \in Code /\ Len(p) = 2 /\ Grouped(p) /\ ~IsJump(p[1])
         /\ size + Compiler!Size(p) <= INT32_MAX => p[2].imm = -(size + Compiler!Size(p))
<1> DEFINE offset == -(size + 3 + 2)
           imm == IF offset >= -INT8_MAX - 1 THEN Compiler!Int8(offset) ELSE Compiler!Int32(offset - 4)
           len == IF offset >= -INT8_MAX - 1 THEN 2 ELSE 6
<1>1. INT8_MAX \in Nat /\ INT32_MAX \in Nat
  BY Int8Assumption, Int32Assumption
<1>2. p = Compiler!Place(TestAndJump("jne", imm, len), at)
  <2>1. Compiler!CmpZero.len = 3
    BY DEF Compiler!CmpZero, Compiler!Ins
  <2> QED
    BY <2>1 DEF Compiler!emit_code_loop_end, TestAndJump
<1>3. /\ Compiler!Int8(offset) \in Int
      /\ offset >= -INT8_MAX - 1 /\ offset <= INT8_MAX => Compiler!Int8(offset) = offset
      /\ Compiler!Int32(offset - 4) \in Int
      /\ offset - 4 >= -INT32_MAX - 1 /\ offset - 4 <= INT32_MAX => Compiler!Int32(offset - 4) = offset - 4
  <2>1. offset \in Int /\ offset - 4 \in Int
    OBVIOUS
  <2> HIDE DEF offset
  <2> QED
    BY <1>1, <2>1, ConvertFits
<1>4. imm \in Int /\ len \in {2, 6} /\ (size + (3 + len) <= INT32_MAX => imm = -(size + (3 + len)))
  BY <1>1, <1>3
<1> HIDE DEF imm, len
<1>5. "jne" \in Ops /\ "jne" \notin {"mov", "int"} /\ len \in Nat \ {0}
  BY <1>4 DEF Ops
<1>6. /\ p \in Code /\ Len(p) = 2 /\ Compiler!Size(p) = 3 + len
      /\ ~Inner(p[1]) /\ ~Inner(p[2]) /\ ~IsJump(p[1])
      /\ p[2].imm = imm
      /\ Grouped(p)
  BY <1>2, <1>4, <1>5, JumpCode
<1> QED
  BY <1>4, <1>6

\* The jump over the body of a loop leads behind it.
LEMMA LoopStartGood ==
  ASSUME NEW b \in Code, Good(b),
         NEW p \in Code, Len(p) = 2, Grouped(p), ~IsJump(p[1]),
         Compiler!Size(b) <= INT32_MAX => p[2].imm = Compiler!Size(b),
         NEW w, w = p \o b
  PROVE  Good(w)
<1>1. Grouped(b)
  BY DEF Good
<1>2. /\ w \in Code /\ Len(b) \in Nat /\ Len(w) = 2 + Len(b)
      /\ w[1] = p[1] /\ w[2] = p[2]
      /\ \A k \in 1..Len(b) : w[2 + k] = b[k]
      /\ \A k \in 1..Len(w) : k <= 2 \/ k - 2 \in 1..Len(b)
  <2>1. /\ w \in Code
        /\ Len(p) \in Nat /\ Len(b) \in Nat /\ Len(w) = Len(p) + Len(b)
        /\ \A k \in 1..Len(p) : w[k] = p[k]
        /\ \A k \in 1..Len(b) : w[Len(p) + k] = b[k]
        /\ \A k \in 1..Len(w) : k <= Len(p) \/ k - Len(p) \in 1..Len(b)
    <3>1. w = p \o b
      OBVIOUS
    <3> QED
      BY <3>1, Joined
  <2>2. Len(p) = 2 /\ 1 \in 1..2 /\ 2 \in 1..2
    OBVIOUS
  <2> QED
    BY <2>1, <2>2
<1>3. Grouped(w)
  BY <1>1, GroupedConcat
<1>4. ASSUME Fits(w), NEW k \in 1..Len(w), IsJump(w[k])
       PROVE  \E j \in 1..(Len(w) + 1) : LandsAt(w, k, j)
  <2>1. Fits(b)
    BY <1>4, FitsParts
  <2>2. CASE k = 2
    <3> DEFINE j == Len(w) + 1
    <3>1. Compiler!Start(w, j) = Compiler!Size(w) /\ Compiler!Size(w) = Compiler!Size(p) + Compiler!Size(b)
      BY <1>2, StartEnds, SizeConcat
    <3>2. Compiler!Start(w, 2 + 1) = Compiler!Size(p)
      <4>1. 2 + 1 \in 1..(Len(p) + 1) /\ 2 + 1 = Len(p) + 1
        OBVIOUS
      <4>2. Compiler!Start(w, 2 + 1) = Compiler!Start(p, 2 + 1)
        BY <4>1, StartLeft
      <4>3. Compiler!Start(p, Len(p) + 1) = Compiler!Size(p)
        BY StartEnds
      <4> QED
        BY <4>1, <4>2, <4>3
    <3>3. w[2].imm = Compiler!Size(b)
      BY <1>2, <2>1 DEF Fits
    <3>4. Compiler!Start(w, k + 1) + w[k].imm = Compiler!Start(w, j)
      BY <2>2, <3>1, <3>2, <3>3
    <3>5. ~(j <= Len(w)) /\ j \in 1..(Len(w) + 1)
      BY <1>2
    <3> QED
      BY <3>4, <3>5 DEF LandsAt
  <2>3. CASE k - 2 \in 1..Len(b)
    <3> DEFINE i == k - 2
    <3>1. 2 + i = k /\ i \in 1..Len(b)
      BY <1>2, <2>3
    <3> HIDE DEF i
    <3>2. IsJump(b[i])
      BY <1>2, <1>4, <3>1
    <3>3. PICK j \in 1..(Len(b) + 1) : LandsAt(b, i, j)
      BY <2>1, <3>1, <3>2 DEF Good
    <3>4. 2 + j \in 1..(Len(w) + 1) /\ LandsAt(w, 2 + i, 2 + j)
      BY <3>1, <3>3, LandsRight
    <3> QED
      BY <3>1, <3>4
  <2>4. k # 1
    BY <1>2, <1>4
  <2>5. k \in 1..2 \/ k - 2 \in 1..Len(b)
    BY <1>2
  <2> QED
    BY <2>2, <2>3, <2>4, <2>5
<1> QED
  BY <1>2, <1>3, <1>4 DEF Good

\* The jump at the end of a loop leads to its beginning.
LEMMA LoopEndGood ==
  ASSUME NEW c \in Code, Good(c),
         NEW p \in Code, Len(p) = 2, Grouped(p), ~IsJump(p[1]),
         Compiler!Size(c) + Compiler!Size(p) <= INT32_MAX
           => p[2].imm = -(Compiler!Size(c) + Compiler!Size(p)),
         NEW w, w = c \o p
  PROVE  Good(w)
<1>1. Grouped(c)
  BY DEF Good
<1>2. /\ w \in Code /\ Len(c) \in Nat /\ Len(w) = Len(c) + 2
      /\ \A k \in 1..Len(c) : w[k] = c[k]
      /\ \A k \in 1..2 : w[Len(c) + k] = p[k]
      /\ \A k \in 1..Len(w) : k <= Len(c) \/ k - Len(c) \in 1..2
  <2>1. /\ w \in Code
        /\ Len(c) \in Nat /\ Len(p) \in Nat /\ Len(w) = Len(c) + Len(p)
        /\ \A k \in 1..Len(c) : w[k] = c[k]
        /\ \A k \in 1..Len(p) : w[Len(c) + k] = p[k]
        /\ \A k \in 1..Len(w) : k <= Len(c) \/ k - Len(c) \in 1..Len(p)
    <3>1. w = c \o p
      OBVIOUS
    <3> QED
      BY <3>1, Joined
  <2> QED
    BY <2>1
<1>3. Grouped(w)
  BY <1>1, GroupedConcat
<1>4. ASSUME Fits(w), NEW k \in 1..Len(w), IsJump(w[k])
       PROVE  \E j \in 1..(Len(w) + 1) : LandsAt(w, k, j)
  <2>1. Fits(c)
    BY <1>4, FitsParts
  <2>2. CASE k <= Len(c)
    <3>1. k \in 1..Len(c) /\ IsJump(c[k])
      BY <1>2, <1>4, <2>2
    <3>2. PICK j \in 1..(Len(c) + 1) : LandsAt(c, k, j)
      BY <2>1, <3>1 DEF Good
    <3> QED
      BY <3>1, <3>2, LandsLeft
  <2>3. CASE k = Len(c) + 2
    <3>1. Compiler!Start(w, Len(w) + 1) = Compiler!Size(w) /\ Compiler!Start(w, 1) = 0
      BY <1>2, StartEnds
    <3>2. Compiler!Size(w) = Compiler!Size(c) + Compiler!Size(p)
      BY SizeConcat
    <3>3. w[k] = p[2] /\ k + 1 = Len(w) + 1
      BY <1>2, <2>3
    <3>4. w[k].imm = -Compiler!Size(w)
      BY <1>4, <3>2, <3>3 DEF Fits
    <3>5. Compiler!Size(w) \in Nat
      BY <1>2, BytesAre
    <3>6. Compiler!Start(w, k + 1) + w[k].imm = Compiler!Start(w, 1)
      BY <3>1, <3>3, <3>4, <3>5
    <3>7. ~Inner(w[1])
      <4>1. Len(w) > 0
        BY <1>2
      <4> QED
        BY <1>2, <1>3, <4>1, FirstNotInner
    <3>8. 1 \in 1..(Len(w) + 1)
      BY <1>2
    <3> QED
      BY <3>6, <3>7, <3>8 DEF LandsAt
  <2>4. k # Len(c) + 1
    <3>1. 1 \in 1..2
      OBVIOUS
    <3> QED
      BY <1>2, <1>4, <3>1
  <2>5. k <= Len(c) \/ k = Len(c) + 1 \/ k = Len(c) + 2
    BY <1>2
  <2> QED
    BY <2>2, <2>3, <2>4, <2>5
<1> QED
  BY <1>2, <1>3, <1>4 DEF Good

\* With an exit behind it, code that holds together is complete.
LEMMA ExitCompletes ==
  ASSUME NEW c \in Code, Good(c),
         NEW p \in Code, Len(p) = 3, ExitGroup(p, 1), Grouped(p), \A k \in 1..Len(p) : ~IsJump(p[k]),
         NEW e, e = c \o p
  PROVE  Complete(e)
<1>1. /\ e \in Code
      /\ Len(c) \in Nat /\ Len(p) \in Nat /\ Len(e) = Len(c) + Len(p)
      /\ \A k \in 1..Len(c) : e[k] = c[k]
      /\ \A k \in 1..Len(p) : e[Len(c) + k] = p[k]
      /\ \A k \in 1..Len(e) : k <= Len(c) \/ k - Len(c) \in 1..Len(p)
  <2>1. e = c \o p
    OBVIOUS
  <2> QED
    BY <2>1, Joined
<1>2. Len(e) = Len(c) + 3 /\ Len(e) > 2 /\ Len(e) - 2 = Len(c) + 1
      /\ 1 \in 1..Len(p) /\ 2 \in 1..Len(p)
  BY <1>1
<1>3. ExitGroup(e, Len(e) - 2)
  <2>1. Within(p, 1, 2)
    BY DEF Within
  <2>2. Within(e, Len(c) + 1, Len(c) + 2)
    BY <1>2, <2>1, WithinRight
  <2>3. ~CallGroup(e, Len(c) + 1)
    BY <1>1, <1>2 DEF CallGroup
  <2> QED
    BY <1>2, <2>2, <2>3 DEF Within
<1>4. ASSUME Fits(e), NEW k \in 1..Len(e), IsJump(e[k])
      PROVE  \E j \in 1..Len(e) : LandsAt(e, k, j)
  <2>1. k \in 1..Len(c)
    <3>1. CASE k <= Len(c)
      BY <1>1, <3>1
    <3>2. CASE k - Len(c) \in 1..Len(p)
      <4> DEFINE i == k - Len(c)
      <4>1. Len(c) + i = k /\ i \in 1..Len(p)
        BY <1>1, <3>2
      <4> HIDE DEF i
      <4> QED
        BY <1>1, <1>4, <4>1
    <3> QED
      BY <1>1, <3>1, <3>2
  <2>2. IsJump(c[k])
    BY <1>1, <1>4, <2>1
  <2>3. Fits(c)
    <3>1. Fits(c) /\ Fits(p)
      BY <1>4, FitsParts
    <3> QED
      BY <3>1
  <2>4. PICK j \in 1..(Len(c) + 1) : LandsAt(c, k, j)
    BY <2>1, <2>2, <2>3 DEF Good
  <2>5. j \in 1..(Len(e) + 1) /\ LandsAt(e, k, j)
    BY <2>1, <2>4, LandsLeft
  <2>6. j \in 1..Len(e)
    BY <1>1, <1>2
  <2> QED
    BY <2>5, <2>6
<1> QED
  BY <1>2, <1>3, <1>4 DEF Complete

---------------------------------------------------------------------------
(* The calls of ir_ctx_compile__ *)

Frame == [i : Nat, code : Code]

\* The operation behind the first i is not in the body of a closed loop, nor
\* its end.
Outside(s, i) ==
  \A p \in 1..Len(s) : IsClosed(s, p) => ~(p <= i /\ i < p + s[p].arg)

\* A call of ir_ctx_compile__ that waits for another: it is at a loop_start.
Waits(s, frame) == frame.i < Len(s) /\ s[frame.i + 1].kind = "loop_start"

\* The call that ir_ctx_compile made.
Outermost(s, frame) ==
  /\ frame.i <= Len(s)
  /\ Outside(s, frame.i)
  /\ Len(frame.code) > 0 /\ frame.code[1].op = "mov" /\ frame.code[1].dst = "edi"
  /\ frame.i = Len(s) => Complete(frame.code)

\* What s, fs and res are while ir_ctx_compile runs, and after.
Calls(s, fs, res) ==
  /\ fs \in Seq(Frame)
  /\ Len(fs) > 0
  /\ \A n \in 1..Len(fs) : Good(fs[n].code)
  /\ \A n \in 1..(Len(fs) - 1) : Waits(s, fs[n])
  /\ Outermost(s, fs[1])
  /\ res = "ok" => Len(fs) = 1 /\ fs[1].i = Len(s)

CompileInv ==
  \/ result = "idle" /\ frames = <<>> /\ IInv
  \/ /\ result \in {"busy", "ok", "operand_size"}
     /\ pc = "parsed"
     /\ WellFormed(ir) /\ LoopsNested(ir)
     /\ src \in Seq(Int) /\ Len(src) = Len(ir) - 1
     /\ Calls(ir, frames, result)

LEMMA ProgramFacts ==
  ASSUME NEW s, WellFormed(s)
  PROVE  Len(s) \in Nat /\ \A p \in 1..Len(s) : s[p].arg \in Int
<1>1. s \in Seq(OpType)
  BY DEF WellFormed
<1>2. Len(s) \in Nat /\ \A p \in 1..Len(s) : s[p] \in OpType
  BY <1>1
<1> QED
  BY <1>2 DEF OpType

\* An operation that is not part of a loop does not lead into one.
LEMMA OutsideNext ==
  ASSUME NEW s, WellFormed(s), NEW i \in Nat, i < Len(s), Outside(s, i),
         s[i + 1].kind # "loop_start" \/ s[i + 1].arg = 0
  PROVE  Outside(s, i + 1)
<1>1. Len(s) \in Nat /\ \A p \in 1..Len(s) : s[p].arg \in Int
  BY ProgramFacts
<1> SUFFICES ASSUME NEW p \in 1..Len(s), IsClosed(s, p), p <= i + 1, i + 1 < p + s[p].arg
             PROVE  FALSE
  BY DEF Outside
<1>2. p # i + 1
  BY DEF IsClosed
<1>3. p <= i /\ i < p + s[p].arg
  BY <1>1, <1>2
<1> QED
  BY <1>3 DEF Outside

\* Nor does skipping a loop.
LEMMA OutsideSkip ==
  ASSUME NEW s, WellFormed(s), LoopsNested(s), NEW i \in Nat, i < Len(s), Outside(s, i),
         s[i + 1].kind = "loop_start"
  PROVE  /\ i + s[i + 1].arg + 1 \in Nat
         /\ i + s[i + 1].arg + 1 < Len(s)
         /\ Outside(s, i + s[i + 1].arg + 1)
<1> DEFINE b == i + 1
           d == s[i + 1].arg
<1>1. Len(s) \in Nat /\ \A p \in 1..Len(s) : s[p].arg \in Int
  BY ProgramFacts
<1>2. b \in 1..Len(s) /\ d \in Int /\ s[b].arg = d /\ s[b].kind = "loop_start"
  BY <1>1
<1>3. b # Len(s)
  BY <1>1, <1>2 DEF WellFormed
<1>4. CASE d = 0
  <2>1. i + d + 1 = i + 1 /\ i + d + 1 \in Nat /\ i + d + 1 < Len(s)
    BY <1>1, <1>2, <1>3, <1>4
  <2>2. Outside(s, i + 1)
    BY <1>4, OutsideNext
  <2> QED
    BY <2>1, <2>2
<1>5. CASE d # 0
  <2> HIDE DEF d
  <2>1. IsClosed(s, b)
    BY <1>2, <1>5 DEF IsClosed
  <2>2. d > 0 /\ b + d <= Len(s) /\ s[b + d] = Op("loop_end", -d)
    BY <1>2, <2>1 DEF WellFormed, LoopsMatched
  <2>3. b + d \in 1..Len(s) /\ s[b + d].kind = "loop_end"
    BY <1>1, <1>2, <2>2, OpFields
  <2>4. b + d # Len(s)
    BY <2>3 DEF WellFormed
  <2>5. i + d + 1 = b + d /\ i + d + 1 \in Nat /\ i + d + 1 < Len(s)
    BY <1>1, <1>2, <2>2, <2>4
  <2>6. ASSUME NEW p \in 1..Len(s), IsClosed(s, p), p <= b + d, b + d < p + s[p].arg
        PROVE  FALSE
    <3>1. s[p].arg \in Int
      BY <1>1
    <3>2. CASE p < b
      <4>1. p <= i /\ i < p + s[p].arg
        BY <1>2, <2>2, <2>6, <3>1, <3>2
      <4> QED
        BY <2>6, <4>1 DEF Outside
    <3>3. CASE p = b
      BY <1>2, <2>6, <3>3
    <3>4. CASE b < p /\ p < b + d
      <4>1. p + s[p].arg < b + s[b].arg
        BY <1>2, <2>1, <2>6, <3>4 DEF LoopsNested
      <4> QED
        BY <1>2, <2>2, <2>6, <3>1, <4>1
    <3>5. CASE p = b + d
      BY <2>3, <2>6, <3>5 DEF IsClosed
    <3> QED
      BY <1>1, <1>2, <2>2, <2>6, <3>2, <3>3, <3>4, <3>5
  <2>7. Outside(s, b + d)
    BY <2>6 DEF Outside
  <2> QED
    BY <2>5, <2>7 DEF d
<1> QED
  BY <1>4, <1>5

\* The end of a loop is met in the call for that loop only.
LEMMA OutsideNoEnd ==
  ASSUME NEW s, WellFormed(s), NEW i \in Nat, i < Len(s), Outside(s, i)
  PROVE  s[i + 1].kind # "loop_end"
<1>1. Len(s) \in Nat /\ \A p \in 1..Len(s) : s[p].arg \in Int
  BY ProgramFacts
<1> SUFFICES ASSUME s[i + 1].kind = "loop_end" PROVE FALSE
  OBVIOUS
<1> DEFINE e == i + 1
           d == s[e].arg
           p == e + d
<1>2. e \in 1..Len(s) /\ d \in Int
  BY <1>1
<1>3. d < 0 /\ p >= 1 /\ s[p] = Op("loop_start", -d)
  BY <1>2 DEF WellFormed, LoopsMatched
<1> HIDE DEF d
<1>4. p \in 1..Len(s) /\ s[p].kind = "loop_start" /\ s[p].arg = -d /\ -d # 0
  BY <1>1, <1>2, <1>3, OpFields
<1>5. IsClosed(s, p)
  BY <1>4 DEF IsClosed
<1>6. p <= i /\ i < p + s[p].arg
  BY <1>2, <1>3, <1>4
<1> QED
  BY <1>4, <1>5, <1>6 DEF Outside

LEMMA CallsFacts ==
  ASSUME NEW s, NEW fs, NEW res, Calls(s, fs, res), NEW n, n = Len(fs)
  PROVE  /\ n \in Nat /\ n > 0 /\ fs \in Seq(Frame)
         /\ \A k \in 1..n : fs[k].i \in Nat /\ fs[k].code \in Code /\ Good(fs[k].code)
         /\ \A k \in 1..(n - 1) : Waits(s, fs[k])
         /\ Outermost(s, fs[1])
<1>1. fs \in Seq(Frame) /\ n > 0
  BY DEF Calls
<1>2. n \in Nat /\ \A k \in 1..n : fs[k] \in Frame
  BY <1>1
<1>3. \A k \in 1..n : fs[k].i \in Nat /\ fs[k].code \in Code
  BY <1>2 DEF Frame
<1>4. /\ \A k \in 1..n : Good(fs[k].code)
      /\ \A k \in 1..(n - 1) : Waits(s, fs[k])
      /\ Outermost(s, fs[1])
  BY DEF Calls
<1> QED
  BY <1>1, <1>2, <1>3, <1>4

\* The parts of a program stay behind its first instruction.
LEMMA FirstStays ==
  ASSUME NEW c \in Code, NEW d \in Code, Len(c) > 0, NEW e, e = c \o d
  PROVE  Len(e) > 0 /\ e[1] = c[1]
<1>1. /\ e \in Code
      /\ Len(c) \in Nat /\ Len(d) \in Nat /\ Len(e) = Len(c) + Len(d)
      /\ \A k \in 1..Len(c) : e[k] = c[k]
      /\ \A k \in 1..Len(d) : e[Len(c) + k] = d[k]
      /\ \A k \in 1..Len(e) : k <= Len(c) \/ k - Len(c) \in 1..Len(d)
  <2>1. e = c \o d
    OBVIOUS
  <2> QED
    BY <2>1, Joined
<1> QED
  BY <1>1

\* The innermost call gets more code and a new place, that of an operation
\* that it emits.
LEMMA CallsEmit ==
  ASSUME NEW s, WellFormed(s), NEW fs, Calls(s, fs, "busy"), NEW n, n = Len(fs),
         fs[n].i < Len(s), s[fs[n].i + 1].kind \notin {"loop_start", "loop_end"},
         NEW d \in Code, Good(d),
         s[fs[n].i + 1].kind = "halt" => Complete(fs[n].code \o d),
         NEW t, t = [fs EXCEPT ![n] = [i |-> @.i + 1, code |-> @.code \o d]]
  PROVE  Calls(s, t, "busy")
<1>1. /\ n \in Nat /\ n > 0 /\ fs \in Seq(Frame)
      /\ \A k \in 1..n : fs[k].i \in Nat /\ fs[k].code \in Code /\ Good(fs[k].code)
      /\ \A k \in 1..(n - 1) : Waits(s, fs[k])
      /\ Outermost(s, fs[1])
  BY CallsFacts
<1> DEFINE i == fs[n].i
           c == fs[n].code
           e == c \o d
           f == [i |-> i + 1, code |-> e]
<1>2. n \in 1..n /\ i \in Nat /\ c \in Code /\ Good(c) /\ i < Len(s)
  BY <1>1
<1>3. Len(s) \in Nat
  BY ProgramFacts
<1>4. e \in Code /\ Good(e)
  <2>1. Good(e)
    BY <1>2, GoodConcat
  <2> QED
    BY <2>1 DEF Good
<1>5. f \in Frame
  BY <1>2, <1>4 DEF Frame
<1>6. t = [fs EXCEPT ![n] = f]
  OBVIOUS
<1>7. f.i = i + 1 /\ f.code = e
  OBVIOUS
<1> HIDE DEF f
<1>8. t \in Seq(Frame) /\ Len(t) = n /\ t[n] = f /\ \A k \in 1..(n - 1) : t[k] = fs[k]
  <2>1. n \in 1..Len(fs)
    BY <1>2
  <2>2. \A u : u = [fs EXCEPT ![n] = f]
               => /\ u \in Seq(Frame) /\ Len(u) = Len(fs) /\ u[n] = f
                  /\ \A k \in 1..Len(fs) : k # n => u[k] = fs[k]
    BY <1>1, <1>5, <2>1, Replaced
  <2>3. \A k \in 1..(n - 1) : k \in 1..Len(fs) /\ k # n
    BY <1>1
  <2>4. /\ t \in Seq(Frame) /\ Len(t) = Len(fs) /\ t[n] = f
        /\ \A k \in 1..Len(fs) : k # n => t[k] = fs[k]
    BY <1>6, <2>2, Zenon
  <2> QED
    BY <2>3, <2>4
<1>9. Outermost(s, t[1])
  <2>1. CASE n = 1
    <3>1. t[1] = f /\ Outermost(s, fs[1]) /\ i = fs[1].i /\ c = fs[1].code
      BY <1>1, <1>8, <2>1
    <3> HIDE DEF i, c, e
    <3>2. Outside(s, i) /\ Len(c) > 0 /\ c[1].op = "mov" /\ c[1].dst = "edi"
      BY <3>1 DEF Outermost
    <3>3. s[i + 1].kind \notin {"loop_start", "loop_end"} /\ (s[i + 1].kind = "halt" => Complete(e))
      BY DEF i, c, e
    <3>4. Outside(s, i + 1)
      BY <1>2, <3>2, <3>3, OutsideNext
    <3>5. Len(e) > 0 /\ e[1] = c[1]
      BY <1>2, <3>2, FirstStays DEF e
    <3>6. i + 1 = Len(s) => Complete(e)
      <4>1. i + 1 \in 1..Len(s)
        BY <1>2, <1>3
      <4>2. i + 1 = Len(s) => s[i + 1].kind = "halt"
        BY <4>1 DEF WellFormed
      <4> QED
        BY <3>3, <4>2
    <3>7. i + 1 <= Len(s)
      BY <1>2, <1>3
    <3> QED
      BY <1>7, <3>1, <3>2, <3>4, <3>5, <3>6, <3>7 DEF Outermost
  <2>2. CASE n # 1
    <3>1. t[1] = fs[1]
      BY <1>1, <1>8, <2>2
    <3> QED
      BY <1>1, <3>1
  <2> QED
    BY <2>1, <2>2
<1>10. \A k \in 1..n : Good(t[k].code)
  <2> TAKE k \in 1..n
  <2>1. CASE k = n
    BY <1>4, <1>7, <1>8, <2>1
  <2>2. CASE k # n
    <3>1. k \in 1..(n - 1)
      BY <1>1, <2>2
    <3> QED
      BY <1>1, <1>8, <3>1
  <2> QED
    BY <2>1, <2>2
<1>11. \A k \in 1..(n - 1) : Waits(s, t[k])
  BY <1>1, <1>8
<1> QED
  BY <1>1, <1>8, <1>9, <1>10, <1>11 DEF Calls

\* ir_ctx_compile__ calls itself.
LEMMA CallsEnter ==
  ASSUME NEW s, NEW fs, Calls(s, fs, "busy"), NEW n, n = Len(fs), Waits(s, fs[n]),
         NEW t, t = Append(fs, [i |-> fs[n].i + 1, code |-> <<>>])
  PROVE  Calls(s, t, "busy")
<1>1. /\ n \in Nat /\ n > 0 /\ fs \in Seq(Frame)
      /\ \A k \in 1..n : fs[k].i \in Nat /\ fs[k].code \in Code /\ Good(fs[k].code)
      /\ \A k \in 1..(n - 1) : Waits(s, fs[k])
      /\ Outermost(s, fs[1])
  BY CallsFacts
<1> DEFINE f == [i |-> fs[n].i + 1, code |-> <<>>]
<1>2. <<>> \in Code /\ Good(<<>>)
  <2>1. <<>> \in Code
    BY SizeEmpty
  <2>2. \A k \in 1..Len(<<>>) : Plain(<<>>[k])
    OBVIOUS
  <2> QED
    BY <2>1, <2>2, PlainGood
<1>3. f \in Frame /\ f.code = <<>>
  BY <1>1, <1>2 DEF Frame
<1>4. t = Append(fs, f)
  OBVIOUS
<1> HIDE DEF f
<1>5. t \in Seq(Frame) /\ Len(t) = n + 1 /\ t[n + 1] = f /\ \A k \in 1..n : t[k] = fs[k]
  BY <1>1, <1>3, <1>4
<1>6. \A k \in 1..(n + 1) : k \in 1..n \/ k = n + 1
  BY <1>1
<1>7. \A k \in 1..(n + 1) : Good(t[k].code)
  BY <1>1, <1>2, <1>3, <1>5, <1>6
<1>8. \A k \in 1..n : Waits(s, t[k])
  <2>1. \A k \in 1..n : k \in 1..(n - 1) \/ k = n
    BY <1>1
  <2> QED
    BY <1>1, <1>5, <2>1
<1>9. Outermost(s, t[1])
  BY <1>1, <1>5
<1>10. n + 1 - 1 = n /\ n + 1 > 0
  BY <1>1
<1> QED
  BY <1>5, <1>7, <1>8, <1>9, <1>10 DEF Calls

\* ir_ctx_compile__ returns to itself with the code b of a loop.
LEMMA CallsReturn ==
  ASSUME NEW s, WellFormed(s), LoopsNested(s), NEW fs, Calls(s, fs, "busy"),
         NEW n \in Nat, Len(fs) = n + 1, n > 0,
         NEW d \in Code, Good(d),
         NEW t, t = Append(SubSeq(fs, 1, n - 1), [i    |-> fs[n].i + s[fs[n].i + 1].arg + 1,
                                                  code |-> fs[n].code \o d])
  PROVE  Calls(s, t, "busy")
<1> DEFINE i == fs[n].i
           j == fs[n].i + s[fs[n].i + 1].arg + 1
           c == fs[n].code
           e == c \o d
           f == [i |-> j, code |-> e]
           p == SubSeq(fs, 1, n - 1)
<1>1. /\ n + 1 \in Nat /\ n + 1 > 0 /\ fs \in Seq(Frame)
      /\ \A k \in 1..(n + 1) : fs[k].i \in Nat /\ fs[k].code \in Code /\ Good(fs[k].code)
      /\ \A k \in 1..((n + 1) - 1) : Waits(s, fs[k])
      /\ Outermost(s, fs[1])
  <2>1. n + 1 = Len(fs)
    OBVIOUS
  <2> QED
    BY <2>1, CallsFacts
<1>2. i \in Nat /\ c \in Code /\ Good(c) /\ Waits(s, fs[n])
  <2>1. n \in 1..(n + 1) /\ n \in 1..((n + 1) - 1)
    OBVIOUS
  <2> QED
    BY <1>1, <2>1
<1>3. i < Len(s) /\ s[i + 1].kind = "loop_start"
  BY <1>2 DEF Waits
<1>4. e \in Code /\ Good(e)
  <2>1. Good(e)
    BY <1>2, GoodConcat
  <2> QED
    BY <2>1 DEF Good
<1>5. /\ Len(s) \in Nat
      /\ s[i + 1].arg \in Int
      /\ s[i + 1].arg >= 0
  <2>1. Len(s) \in Nat /\ i + 1 \in 1..Len(s) /\ s[i + 1].arg \in Int
    BY <1>2, <1>3, ProgramFacts, SMTT(30)
  <2>2. IsClosed(s, i + 1) => s[i + 1].arg > 0
    BY <2>1 DEF WellFormed, LoopsMatched
  <2> QED
    BY <1>3, <2>1, <2>2 DEF IsClosed
<1>6. j \in Nat /\ j = i + s[i + 1].arg + 1
  BY <1>2, <1>5, SMTT(30)
<1>7. p \in Seq(Frame) /\ Len(p) = n - 1 /\ \A k \in 1..(n - 1) : p[k] = fs[k]
  <2>1. n - 1 \in Nat /\ n - 1 <= Len(fs)
    OBVIOUS
  <2> HIDE DEF p
  <2>2. \A m \in Nat : m <= Len(fs) =>
          /\ SubSeq(fs, 1, m) \in Seq(Frame)
          /\ Len(SubSeq(fs, 1, m)) = m
          /\ \A k \in 1..m : SubSeq(fs, 1, m)[k] = fs[k]
    BY <1>1, Prefix
  <2> QED
    BY <2>1, <2>2 DEF p
<1>8. t = Append(p, f) /\ f.i = j /\ f.code = e
  OBVIOUS
<1> HIDE DEF i, j, c, e, p
<1>9. f \in Frame
  BY <1>4, <1>6 DEF Frame
<1> HIDE DEF f
<1>10. t \in Seq(Frame) /\ Len(t) = n /\ t[n] = f /\ \A k \in 1..(n - 1) : t[k] = fs[k]
  <2>1. /\ Append(p, f) \in Seq(Frame) /\ Len(Append(p, f)) = Len(p) + 1
        /\ Append(p, f)[Len(p) + 1] = f
        /\ \A k \in 1..Len(p) : Append(p, f)[k] = p[k]
    BY <1>7, <1>9
  <2>2. Len(p) + 1 = n
    BY <1>7
  <2> QED
    BY <1>7, <1>8, <2>1, <2>2
<1>11. Outermost(s, t[1])
  <2>1. CASE n = 1
    <3>1. t[1] = f
      BY <1>10, <2>1
    <3>2. Outside(s, i) /\ Len(c) > 0 /\ c[1].op = "mov" /\ c[1].dst = "edi"
      BY <1>1, <2>1 DEF Outermost, i, c
    <3>3. /\ i + s[i + 1].arg + 1 \in Nat
          /\ i + s[i + 1].arg + 1 < Len(s)
          /\ Outside(s, i + s[i + 1].arg + 1)
      BY <1>2, <1>3, <3>2, OutsideSkip
    <3>4. Len(e) > 0 /\ e[1] = c[1]
      BY <1>2, <3>2, FirstStays DEF e
    <3>5. j < Len(s) /\ Outside(s, j)
      BY <1>6, <3>3
    <3>6. j <= Len(s) /\ j # Len(s)
      BY <1>5, <1>6, <3>5
    <3> QED
      BY <1>8, <3>1, <3>2, <3>4, <3>5, <3>6 DEF Outermost
  <2>2. CASE n # 1
    <3>1. t[1] = fs[1]
      BY <1>10, <2>2
    <3> QED
      BY <1>1, <3>1
  <2> QED
    BY <2>1, <2>2
<1>12. \A k \in 1..n : Good(t[k].code)
  <2> TAKE k \in 1..n
  <2>1. CASE k = n
    BY <1>4, <1>8, <1>10, <2>1
  <2>2. CASE k # n
    <3>1. k \in 1..(n - 1) /\ k \in 1..(n + 1)
      BY <2>2
    <3> QED
      BY <1>1, <1>10, <3>1
  <2> QED
    BY <2>1, <2>2
<1>13. \A k \in 1..(n - 1) : Waits(s, t[k])
  <2> TAKE k \in 1..(n - 1)
  <2>1. k \in 1..((n + 1) - 1)
    OBVIOUS
  <2> QED
    BY <1>1, <1>10, <2>1
<1> QED
  BY <1>10, <1>11, <1>12, <1>13 DEF Calls

\* The call of ir_ctx_compile returns.
LEMMA CallsFinish ==
  ASSUME NEW s, WellFormed(s), NEW fs, Calls(s, fs, "busy"), Len(fs) = 1, fs[1].i >= Len(s),
         NEW t, t = <<[fs[1] EXCEPT !.code = fs[1].code]>>
  PROVE  Calls(s, t, "ok")
<1>1. fs[1] \in Frame /\ Good(fs[1].code) /\ Outermost(s, fs[1])
  <2>1. /\ fs \in Seq(Frame) /\ Outermost(s, fs[1])
        /\ \A n \in 1..Len(fs) : Good(fs[n].code)
    BY DEF Calls
  <2>2. 1 \in 1..Len(fs)
    OBVIOUS
  <2> QED
    BY <2>1, <2>2
<1>2. fs[1].i = Len(s)
  <2>1. fs[1].i \in Nat /\ fs[1].i <= Len(s) /\ Len(s) \in Nat
    BY <1>1, ProgramFacts DEF Frame, Outermost
  <2> QED
    BY <2>1
<1>3. [fs[1] EXCEPT !.code = fs[1].code] = fs[1]
  BY <1>1 DEF Frame
<1>4. t = <<fs[1]>>
  BY <1>3
<1>5. t \in Seq(Frame) /\ Len(t) = 1 /\ t[1] = fs[1]
  BY <1>1, <1>4
<1> QED
  BY <1>1, <1>2, <1>5 DEF Calls

\* ir_ctx_compile__ fails.
LEMMA CallsFail ==
  ASSUME NEW s, NEW fs, Calls(s, fs, "busy"), NEW t, t = <<Head(fs)>>
  PROVE  Calls(s, t, "operand_size")
<1>1. Head(fs) = fs[1] /\ fs[1] \in Frame /\ Good(fs[1].code) /\ Outermost(s, fs[1])
  <2>1. /\ fs \in Seq(Frame) /\ Len(fs) > 0 /\ Outermost(s, fs[1])
        /\ \A n \in 1..Len(fs) : Good(fs[n].code)
    BY DEF Calls
  <2>2. 1 \in 1..Len(fs) /\ Head(fs) = fs[1]
    BY <2>1
  <2> QED
    BY <2>1, <2>2
<1>2. t \in Seq(Frame) /\ Len(t) = 1 /\ t[1] = fs[1]
  BY <1>1
<1> QED
  BY <1>1, <1>2 DEF Calls

\* ir_ctx_compile calls ir_ctx_compile__.
LEMMA CallsBegin ==
  ASSUME NEW s, WellFormed(s), NEW t, t = <<[i |-> 0, code |-> Compiler!Prologue]>>
  PROVE  Calls(s, t, "busy")
<1> DEFINE i1 == Compiler!Preload
           i2 == Compiler!Ins("push", "none", "edi", 0, 2)
           c == Compiler!Prologue
           f == [i |-> 0, code |-> c]
<1>1. /\ "mov" \in Ops /\ "push" \in Ops /\ "edi" \in Places /\ "none" \in Places
      /\ 0 \in Int /\ -1 \in Int /\ 5 \in Nat \ {0} /\ 2 \in Nat \ {0}
  BY DEF Ops, Places, Compiler!Registers
<1>2. i1 \in InsType /\ i1.op = "mov" /\ i1.dst = "edi"
  BY <1>1, InsOf DEF Compiler!Preload
<1>3. i2 \in InsType /\ i2.op = "push"
  BY <1>1, InsOf
<1>4. c = <<i1, i2>>
  BY DEF Compiler!Prologue
<1>5. t = <<f>> /\ f.i = 0 /\ f.code = c
  OBVIOUS
<1> HIDE DEF i1, i2, c
<1>6. c \in Code /\ Len(c) = 2 /\ c[1] = i1 /\ c[2] = i2
  BY <1>2, <1>3, <1>4 DEF Code
<1>7. Plain(i1) /\ Plain(i2)
  BY <1>2, <1>3 DEF Plain, Inner, IsJump
<1>8. Good(c)
  <2>1. \A k \in 1..Len(c) : Plain(c[k])
    BY <1>6, <1>7
  <2> QED
    BY <1>6, <2>1, PlainGood
<1>9. f \in Frame
  BY <1>6 DEF Frame
<1> HIDE DEF f
<1>10. t \in Seq(Frame) /\ Len(t) = 1 /\ t[1] = f
  BY <1>5, <1>9
<1>11. Outermost(s, f)
  <2>1. Len(s) \in Nat /\ Len(s) > 0 /\ \A p \in 1..Len(s) : s[p].arg \in Int
    BY ProgramFacts DEF WellFormed
  <2>2. Outside(s, 0)
    BY <2>1 DEF Outside
  <2> QED
    BY <1>2, <1>5, <1>6, <2>1, <2>2 DEF Outermost
<1> QED
  BY <1>5, <1>8, <1>10, <1>11 DEF Calls

---------------------------------------------------------------------------
(* The steps of main *)

\* ir_ctx_compile is running, or has returned.
Compiling ==
  /\ result \in {"busy", "ok", "operand_size"}
  /\ pc = "parsed"
  /\ WellFormed(ir) /\ LoopsNested(ir)
  /\ src \in Seq(Int) /\ Len(src) = Len(ir) - 1
  /\ Calls(ir, frames, result)

LEMMA CompileInvIs == CompileInv <=> (result = "idle" /\ frames = <<>> /\ IInv) \/ Compiling
BY DEF CompileInv, Compiling

\* The frame, operation and place in the source that ir_ctx_compile__ is at.
LEMMA AtTop ==
  ASSUME Compiling, NEW n, n = Len(frames)
  PROVE  /\ n \in Nat /\ n \in 1..n /\ Compiler!Top = frames[n]
         /\ Compiler!Top.i \in Nat /\ Compiler!Top.code \in Code /\ Good(Compiler!Top.code)
         /\ Compiler!Where \in Int
         /\ Compiler!Top.i < Len(ir) => Compiler!opcode = ir[frames[n].i + 1] /\ Compiler!opcode.arg \in Int
<1>1. Calls(ir, frames, result) /\ WellFormed(ir) /\ src \in Seq(Int)
  BY DEF Compiling
<1>2. /\ n \in Nat /\ n > 0 /\ frames \in Seq(Frame)
      /\ \A k \in 1..n : frames[k].i \in Nat /\ frames[k].code \in Code /\ Good(frames[k].code)
      /\ \A k \in 1..(n - 1) : Waits(ir, frames[k])
      /\ Outermost(ir, frames[1])
  BY <1>1, CallsFacts
<1>3. n \in 1..n /\ Compiler!Top = frames[n]
  BY <1>2 DEF Compiler!Top
<1>4. Compiler!Top.i \in Nat /\ Compiler!Top.code \in Code /\ Good(Compiler!Top.code)
  BY <1>2, <1>3
<1>5. Compiler!Where \in Int
  <2> DEFINE i == Compiler!Top.i
  <2>1. i \in Nat
    BY <1>4
  <2>2. Compiler!Where = IF i < Len(src) THEN src[i + 1] ELSE -1
    BY DEF Compiler!Where
  <2> HIDE DEF i
  <2>3. i < Len(src) => src[i + 1] \in Int
    <3>1. i < Len(src) => i + 1 \in 1..Len(src)
      BY <1>1, <2>1
    <3> QED
      BY <1>1, <3>1
  <2> QED
    BY <2>2, <2>3
<1>6. Compiler!Top.i < Len(ir) => Compiler!opcode = ir[frames[n].i + 1] /\ Compiler!opcode.arg \in Int
  <2> DEFINE i == frames[n].i
  <2>1. i = Compiler!Top.i /\ Compiler!opcode = ir[i + 1] /\ i \in Nat
    BY <1>3, <1>4 DEF Compiler!opcode
  <2>2. Len(ir) \in Nat /\ \A p \in 1..Len(ir) : ir[p].arg \in Int
    BY <1>1, ProgramFacts
  <2> HIDE DEF i
  <2>3. i < Len(ir) => i + 1 \in 1..Len(ir)
    BY <2>1, <2>2
  <2> QED
    BY <2>1, <2>2, <2>3 DEF i
<1> QED
  BY <1>2, <1>3, <1>4, <1>5, <1>6

LEMMA EmitKeeps ==
  ASSUME Compiling, pc' = pc, NEW kind, Compiler!AtOp(kind), kind \notin {"loop_start", "loop_end"},
         NEW d \in Code, Good(d), kind = "halt" => Complete(Compiler!Top.code \o d),
         Compiler!Emit(d)
  PROVE  Compiling'
<1> DEFINE n == Len(frames)
<1>1. WellFormed(ir) /\ LoopsNested(ir) /\ result = "busy" /\ Calls(ir, frames, "busy")
      /\ pc = "parsed" /\ src \in Seq(Int) /\ Len(src) = Len(ir) - 1
  BY DEF Compiling, Compiler!AtOp
<1>2. /\ n \in Nat /\ n \in 1..n /\ Compiler!Top = frames[n]
      /\ Compiler!Top.i \in Nat /\ Compiler!Top.code \in Code /\ Good(Compiler!Top.code)
      /\ Compiler!Where \in Int
      /\ Compiler!Top.i < Len(ir) => Compiler!opcode = ir[frames[n].i + 1] /\ Compiler!opcode.arg \in Int
  BY AtTop
<1>3. frames[n].i < Len(ir) /\ ir[frames[n].i + 1].kind = kind
  BY <1>2 DEF Compiler!AtOp
<1>4. /\ frames' = [frames EXCEPT ![n] = [i |-> @.i + 1, code |-> @.code \o d]]
      /\ ir' = ir /\ src' = src /\ result' = result
  BY DEF Compiler!Emit
<1>5. kind = "halt" => Complete(frames[n].code \o d)
  BY <1>2
<1>6. \A t : t = [frames EXCEPT ![n] = [i |-> @.i + 1, code |-> @.code \o d]] => Calls(ir, t, "busy")
  BY <1>1, <1>3, <1>5, CallsEmit
<1>7. Calls(ir, frames', "busy")
  BY <1>4, <1>6, Zenon
<1> QED
  BY <1>1, <1>4, <1>7 DEF Compiling

LEMMA EmitTapeKeeps ==
  ASSUME Compiling, pc' = pc, Compiler!EmitTape
  PROVE  Compiling'
<1> DEFINE d == Compiler!Place(Compiler!emit_add_sub("edi", Compiler!opcode.arg), Compiler!Where)
<1>1. Compiler!AtOp("tape") /\ Compiler!Emit(d)
  BY DEF Compiler!EmitTape
<1>2. Compiler!opcode.arg \in Int /\ Compiler!Where \in Int
  BY <1>1, AtTop DEF Compiler!AtOp
<1>3. Good(d)
  BY <1>2, AddSubGood
<1> HIDE DEF d
<1>4. d \in Code
  BY <1>3 DEF Good
<1> QED
  BY <1>1, <1>3, <1>4, EmitKeeps

LEMMA EmitCellKeeps ==
  ASSUME Compiling, pc' = pc, Compiler!EmitCell
  PROVE  Compiling'
<1> DEFINE d == Compiler!Place(Compiler!emit_add_sub("mem", Compiler!opcode.arg), Compiler!Where)
<1>1. Compiler!AtOp("cell") /\ Compiler!Emit(d)
  BY DEF Compiler!EmitCell
<1>2. Compiler!opcode.arg \in Int /\ Compiler!Where \in Int
  BY <1>1, AtTop DEF Compiler!AtOp
<1>3. Good(d)
  BY <1>2, AddSubGood
<1> HIDE DEF d
<1>4. d \in Code
  BY <1>3 DEF Good
<1> QED
  BY <1>1, <1>3, <1>4, EmitKeeps

LEMMA EmitWriteKeeps ==
  ASSUME Compiling, pc' = pc, Compiler!EmitWrite
  PROVE  Compiling'
<1> DEFINE d == Compiler!emit_code_write(Compiler!opcode.arg, Compiler!Where)
<1>1. Compiler!AtOp("write") /\ Compiler!Emit(d)
  BY DEF Compiler!EmitWrite
<1>2. Compiler!opcode.arg \in Int /\ Compiler!Where \in Int
  BY <1>1, AtTop DEF Compiler!AtOp
<1>3. Good(d)
  BY <1>2, WriteGood
<1> HIDE DEF d
<1>4. d \in Code
  BY <1>3 DEF Good
<1> QED
  BY <1>1, <1>3, <1>4, EmitKeeps

LEMMA EmitReadKeeps ==
  ASSUME Compiling, pc' = pc, Compiler!EmitRead
  PROVE  Compiling'
<1> DEFINE d == Compiler!emit_code_read(Compiler!opcode.arg, Compiler!Where)
<1>1. Compiler!AtOp("read") /\ Compiler!Emit(d)
  BY DEF Compiler!EmitRead
<1>2. Compiler!Where \in Int
  BY AtTop
<1>3. Good(d)
  BY <1>2, ReadGood
<1> HIDE DEF d
<1>4. d \in Code
  BY <1>3 DEF Good
<1> QED
  BY <1>1, <1>3, <1>4, EmitKeeps

LEMMA EmitExitKeeps ==
  ASSUME Compiling, pc' = pc, Compiler!EmitExit
  PROVE  Compiling'
<1> DEFINE d == Compiler!Place(Compiler!emit_code_exit(Compiler!opcode.arg), Compiler!Where)
           c == Compiler!Top.code
<1>1. Compiler!AtOp("halt") /\ Compiler!Emit(d)
  BY DEF Compiler!EmitExit
<1>2. Compiler!opcode.arg \in Int /\ Compiler!Where \in Int /\ c \in Code /\ Good(c)
  BY <1>1, AtTop DEF Compiler!AtOp
<1>3. /\ Good(d) /\ Len(d) = 3 /\ ExitGroup(d, 1)
      /\ \A k \in 1..Len(d) : ~IsJump(d[k])
  BY <1>2, ExitGood
<1> HIDE DEF d, c
<1>4. d \in Code /\ Grouped(d)
  BY <1>3 DEF Good
<1>5. Complete(c \o d)
  BY <1>2, <1>3, <1>4, ExitCompletes
<1> QED
  BY <1>1, <1>3, <1>4, <1>5, EmitKeeps DEF c

LEMMA EnterLoopKeeps ==
  ASSUME Compiling, pc' = pc, Compiler!EnterLoop
  PROVE  Compiling'
<1> DEFINE n == Len(frames)
<1>1. WellFormed(ir) /\ LoopsNested(ir) /\ result = "busy" /\ Calls(ir, frames, "busy")
      /\ pc = "parsed" /\ src \in Seq(Int) /\ Len(src) = Len(ir) - 1
  BY DEF Compiling, Compiler!EnterLoop, Compiler!AtOp
<1>2. /\ n \in Nat /\ n \in 1..n /\ Compiler!Top = frames[n]
      /\ Compiler!Top.i \in Nat /\ Compiler!Top.code \in Code /\ Good(Compiler!Top.code)
      /\ Compiler!Where \in Int
      /\ Compiler!Top.i < Len(ir) => Compiler!opcode = ir[frames[n].i + 1] /\ Compiler!opcode.arg \in Int
  BY AtTop
<1>3. Waits(ir, frames[n])
  BY <1>2 DEF Compiler!EnterLoop, Compiler!AtOp, Waits
<1>4. /\ frames' = Append(frames, [i |-> frames[n].i + 1, code |-> <<>>])
      /\ ir' = ir /\ src' = src /\ result' = result
  BY <1>2 DEF Compiler!EnterLoop
<1>5. Calls(ir, frames', "busy")
  BY <1>1, <1>3, <1>4, CallsEnter
<1> QED
  BY <1>1, <1>4, <1>5 DEF Compiling

\* A call returns with the code b, to itself or to ir_ctx_compile.
LEMMA ReturnKeeps ==
  ASSUME Compiling, result = "busy", pc' = pc, NEW b \in Code, Good(b), Compiler!Return(b),
         Len(frames) = 1 => b = frames[1].code /\ frames[1].i >= Len(ir)
  PROVE  Compiling'
<1> DEFINE m == Len(frames)
<1>1. WellFormed(ir) /\ LoopsNested(ir) /\ Calls(ir, frames, "busy")
      /\ pc = "parsed" /\ src \in Seq(Int) /\ Len(src) = Len(ir) - 1
  BY DEF Compiling
<1>2. /\ m \in Nat /\ m > 0 /\ frames \in Seq(Frame)
      /\ \A k \in 1..m : frames[k].i \in Nat /\ frames[k].code \in Code /\ Good(frames[k].code)
      /\ \A k \in 1..(m - 1) : Waits(ir, frames[k])
      /\ Outermost(ir, frames[1])
  BY <1>1, CallsFacts
<1>3. ir' = ir /\ src' = src
  BY DEF Compiler!Return
<1>4. CASE m = 1
  <2>1. frames' = <<[Compiler!Top EXCEPT !.code = b]>> /\ result' = "ok"
    BY <1>4 DEF Compiler!Return
  <2>2. Compiler!Top = frames[1] /\ b = frames[1].code /\ frames[1].i >= Len(ir)
    BY <1>4 DEF Compiler!Top
  <2>3. frames' = <<[frames[1] EXCEPT !.code = frames[1].code]>>
    BY <2>1, <2>2
  <2>4. \A t : t = <<[frames[1] EXCEPT !.code = frames[1].code]>> => Calls(ir, t, "ok")
    BY <1>1, <1>4, <2>2, CallsFinish
  <2>5. Calls(ir, frames', "ok")
    BY <2>3, <2>4, Zenon
  <2> QED
    BY <1>1, <1>3, <2>1, <2>5 DEF Compiling
<1>5. CASE m # 1
  <2> DEFINE n == m - 1
             up == frames[n]
             at == src[up.i + 1]
             p == Compiler!Place(Compiler!emit_code_loop_start(Compiler!Size(b)), at)
             d == p \o b
             f == [i |-> up.i + ir[up.i + 1].arg + 1, code |-> up.code \o d]
             g == [i |-> up.i + ir[up.i + 1].arg + 1, code |-> up.code \o p \o b]
  <2>1. n \in Nat /\ n > 0 /\ m = n + 1 /\ n \in 1..m /\ n \in 1..(m - 1)
    <3>1. m \in Nat /\ m > 0 /\ m # 1
      BY <1>2, <1>5
    <3> HIDE DEF m
    <3> QED
      BY <3>1
  <2>2. /\ frames' = Append(SubSeq(frames, 1, n - 1), g)
        /\ result' = result
    BY <1>5 DEF Compiler!Return
  <2>3. up.i \in Nat /\ up.code \in Code /\ Good(up.code) /\ Waits(ir, up)
    BY <1>2, <2>1
  <2>4. at \in Int
    <3> DEFINE u == up.i + 1
    <3>1. u \in 1..Len(ir) /\ ir[u].kind = "loop_start" /\ Len(ir) \in Nat
      BY <1>1, <2>3, ProgramFacts DEF Waits
    <3> HIDE DEF u
    <3>2. u # Len(ir)
      BY <1>1, <3>1 DEF WellFormed
    <3>3. u \in 1..Len(src)
      BY <1>1, <3>1, <3>2
    <3>4. src[u] \in Int
      BY <1>1, <3>3
    <3> QED
      BY <3>4 DEF u
  <2>5. Compiler!Size(b) \in Nat
    BY BytesAre
  <2> HIDE DEF at
  <2>6. /\ p \in Code /\ Len(p) = 2 /\ Grouped(p) /\ ~IsJump(p[1])
        /\ Compiler!Size(b) <= INT32_MAX => p[2].imm = Compiler!Size(b)
    <3> DEFINE size == Compiler!Size(b)
    <3>1. size \in Nat /\ p = Compiler!Place(Compiler!emit_code_loop_start(size), at)
      BY <2>5
    <3> HIDE DEF size, p
    <3>2. /\ p \in Code /\ Len(p) = 2 /\ Grouped(p) /\ ~IsJump(p[1])
          /\ size <= INT32_MAX => p[2].imm = size
      BY <2>4, <3>1, LoopStartCode
    <3> QED
      BY <3>2 DEF size
  <2> HIDE DEF p
  <2>7. Good(d)
    BY <2>6, LoopStartGood
  <2>8. d \in Code
    BY <2>7 DEF Good
  <2>9. up.code \o p \o b = up.code \o d
    <3>1. up.code \in Seq(InsType) /\ p \in Seq(InsType) /\ b \in Seq(InsType)
      BY <2>3, <2>6 DEF Code
    <3> DEFINE c == up.code
    <3> HIDE DEF c
    <3>2. c \in Seq(InsType)
      BY <3>1 DEF c
    <3>3. (c \o p) \o b = c \o (p \o b)
      BY <3>1, <3>2, ConcatAssociative, SMTT(30)
    <3> QED
      BY <3>3 DEF c
  <2>10. f = g
    BY <2>9
  <2> HIDE DEF d
  <2>11. \A t : t = Append(SubSeq(frames, 1, n - 1), f) => Calls(ir, t, "busy")
    <3>1. Len(frames) = n + 1
      BY <2>1
    <3> HIDE DEF n
    <3> QED
      BY <1>1, <2>1, <2>7, <2>8, <3>1, CallsReturn
  <2> HIDE DEF f, g
  <2>12. Calls(ir, frames', "busy")
    BY <2>2, <2>10, <2>11, Zenon
  <2> QED
    BY <1>1, <1>3, <2>2, <2>12 DEF Compiling
<1> QED
  BY <1>4, <1>5

LEMMA EmitLoopEndKeeps ==
  ASSUME Compiling, pc' = pc, Compiler!EmitLoopEnd
  PROVE  Compiling'
<1> DEFINE n == Len(frames)
           c == Compiler!Top.code
           p == Compiler!Place(Compiler!emit_code_loop_end(Compiler!Size(c)), Compiler!Where)
           b == c \o p
<1>1. /\ n \in Nat /\ n \in 1..n /\ Compiler!Top = frames[n]
      /\ Compiler!Top.i \in Nat /\ Compiler!Top.code \in Code /\ Good(Compiler!Top.code)
      /\ Compiler!Where \in Int
      /\ Compiler!Top.i < Len(ir) => Compiler!opcode = ir[frames[n].i + 1] /\ Compiler!opcode.arg \in Int
  BY AtTop
<1>2. Compiler!AtOp("loop_end") /\ Compiler!Return(b)
  BY DEF Compiler!EmitLoopEnd
<1>3. result = "busy" /\ frames[n].i \in Nat /\ frames[n].i < Len(ir)
      /\ ir[frames[n].i + 1].kind = "loop_end"
  BY <1>1, <1>2 DEF Compiler!AtOp
<1>4. c \in Code /\ Good(c) /\ Compiler!Size(c) \in Nat
  BY <1>1, BytesAre
<1> HIDE DEF c
<1>5. /\ p \in Code /\ Len(p) = 2 /\ Grouped(p) /\ ~IsJump(p[1])
      /\ Compiler!Size(c) + Compiler!Size(p) <= INT32_MAX
           => p[2].imm = -(Compiler!Size(c) + Compiler!Size(p))
  <2> DEFINE size == Compiler!Size(c)
             at == Compiler!Where
  <2>1. size \in Nat /\ at \in Int /\ p = Compiler!Place(Compiler!emit_code_loop_end(size), at)
    BY <1>1, <1>4
  <2> HIDE DEF size, at, p
  <2>2. /\ p \in Code /\ Len(p) = 2 /\ Grouped(p) /\ ~IsJump(p[1])
        /\ size + Compiler!Size(p) <= INT32_MAX => p[2].imm = -(size + Compiler!Size(p))
    BY <2>1, LoopEndCode
  <2> QED
    BY <2>2 DEF size
<1> HIDE DEF p
<1>6. Good(b)
  BY <1>4, <1>5, LoopEndGood
<1>7. b \in Code
  BY <1>6 DEF Good
<1> HIDE DEF b
<1>8. n # 1
  <2> SUFFICES ASSUME n = 1 PROVE FALSE
    OBVIOUS
  <2>1. WellFormed(ir) /\ Outermost(ir, frames[1])
    BY DEF Compiling, Calls
  <2>2. Outside(ir, frames[n].i)
    BY <2>1 DEF Outermost
  <2> QED
    BY <1>3, <2>1, <2>2, OutsideNoEnd
<1> QED
  BY <1>2, <1>3, <1>6, <1>7, <1>8, ReturnKeeps

LEMMA EndOfIrKeeps ==
  ASSUME Compiling, pc' = pc, Compiler!EndOfIr
  PROVE  Compiling'
<1> DEFINE n == Len(frames)
           c == Compiler!Top.code
<1>1. /\ n \in Nat /\ n \in 1..n /\ Compiler!Top = frames[n]
      /\ Compiler!Top.i \in Nat /\ Compiler!Top.code \in Code /\ Good(Compiler!Top.code)
      /\ Compiler!Where \in Int
      /\ Compiler!Top.i < Len(ir) => Compiler!opcode = ir[frames[n].i + 1] /\ Compiler!opcode.arg \in Int
  BY AtTop
<1>2. result = "busy" /\ Compiler!Top.i >= Len(ir) /\ Compiler!Return(c)
  BY DEF Compiler!EndOfIr
<1>3. n = 1 => c = frames[1].code /\ frames[1].i >= Len(ir)
  BY <1>1, <1>2
<1> HIDE DEF c
<1> QED
  BY <1>1, <1>2, <1>3, ReturnKeeps DEF c

LEMMA FailOperandKeeps ==
  ASSUME Compiling, pc' = pc, Compiler!FailOperand
  PROVE  Compiling'
<1>1. WellFormed(ir) /\ LoopsNested(ir) /\ result = "busy" /\ Calls(ir, frames, "busy")
      /\ pc = "parsed" /\ src \in Seq(Int) /\ Len(src) = Len(ir) - 1
  BY DEF Compiling, Compiler!FailOperand, Compiler!AtOp
<1>2. /\ frames' = <<Head(frames)>> /\ result' = "operand_size"
      /\ ir' = ir /\ src' = src
  BY DEF Compiler!FailOperand
<1>3. Calls(ir, frames', "operand_size")
  BY <1>1, <1>2, CallsFail
<1> QED
  BY <1>1, <1>2, <1>3 DEF Compiling

LEMMA EnterCompileKeeps ==
  ASSUME CompileInv, pc = "parsed", pc' = pc, Compiler!EnterCompile
  PROVE  Compiling'
<1>1. IInv
  BY DEF CompileInv, Compiler!EnterCompile
<1>2. /\ ir' = Append(ir, Halt) /\ src' = src
      /\ frames' = <<[i |-> 0, code |-> Compiler!Prologue]>> /\ result' = "busy"
  BY DEF Compiler!EnterCompile, Compiler!Halt, Halt, Compiler!Op, Op
<1>3. WellFormed(ir') /\ LoopsNested(ir')
  BY <1>1, <1>2, HaltCompletes
<1>4. src' \in Seq(Int) /\ Len(src') = Len(ir') - 1
  <2>1. src \in Seq(Nat) /\ Len(src) = Len(ir) /\ ir \in Seq(OpType)
    BY <1>1 DEF IInv, TypeOK
  <2>2. src \in Seq(Int)
    BY <2>1
  <2>3. Len(Append(ir, Halt)) = Len(ir) + 1 /\ Len(ir) \in Nat
    BY <2>1
  <2> QED
    BY <1>2, <2>1, <2>2, <2>3
<1>5. Calls(ir', frames', "busy")
  BY <1>2, <1>3, CallsBegin
<1> QED
  BY <1>2, <1>3, <1>4, <1>5 DEF Compiling

\* Nothing that CompileInv is about changes.
LEMMA CompileInvStays ==
  ASSUME CompileInv, UNCHANGED <<vars, frames, result>>
  PROVE  CompileInv'
<1>1. /\ UNCHANGED vars
      /\ frames' = frames /\ result' = result /\ pc' = pc /\ ir' = ir /\ src' = src
  BY DEF vars
<1>2. IInv => IInv'
  BY <1>1, NextIInv
<1> QED
  BY <1>1, <1>2 DEF CompileInv

LEMMA CompileIrKeeps ==
  ASSUME CompileInv, CompileIr
  PROVE  CompileInv'
<1>1. pc = "parsed" /\ pc' = pc /\ Compiler!Compile
  BY DEF CompileIr
<1>2. CASE Compiler!EnterCompile
  BY <1>1, <1>2, EnterCompileKeeps DEF CompileInv, Compiling
<1>3. CASE ~Compiler!EnterCompile
  <2>1. \/ Compiler!EmitTape \/ Compiler!EmitCell \/ Compiler!EmitWrite \/ Compiler!EmitRead
        \/ Compiler!EmitExit \/ Compiler!EnterLoop \/ Compiler!EmitLoopEnd \/ Compiler!EndOfIr
        \/ Compiler!FailOperand
    BY <1>1, <1>3 DEF Compiler!Compile
  <2>2. result = "busy"
    BY <2>1 DEF Compiler!EmitTape, Compiler!EmitCell, Compiler!EmitWrite, Compiler!EmitRead,
                Compiler!EmitExit, Compiler!EnterLoop, Compiler!EmitLoopEnd, Compiler!EndOfIr,
                Compiler!FailOperand, Compiler!AtOp
  <2>3. Compiling
    BY <2>2 DEF CompileInv, Compiling
  <2>4. Compiling'
    BY <1>1, <2>1, <2>3, EmitTapeKeeps, EmitCellKeeps, EmitWriteKeeps, EmitReadKeeps,
       EmitExitKeeps, EnterLoopKeeps, EmitLoopEndKeeps, EndOfIrKeeps, FailOperandKeeps
  <2> QED
    BY <2>4 DEF CompileInv, Compiling
<1> QED
  BY <1>2, <1>3

LEMMA ReadFileKeeps ==
  ASSUME CompileInv, ReadFile
  PROVE  CompileInv'
<1>1. Parse /\ frames' = frames /\ result' = result
  BY DEF ReadFile
<1>2. pc \in {"read", "parse"}
  BY <1>1 DEF Parse, Fread, ParseChar, ParseReturn, ParseRead, ParseWrite, ParsePlus, ParseMinus,
              ParseRight, ParseLeft, PushRun, AddRun, ParseLoopStart, ParseLoopEnd,
              ParseUnmatched, ParseOther
<1>3. result = "idle" /\ frames = <<>> /\ IInv
  BY <1>2 DEF CompileInv
<1>4. IInv'
  BY <1>1, <1>3, NextIInv DEF Next
<1> QED
  BY <1>1, <1>3, <1>4 DEF CompileInv

LEMMA MainInitCompileInv == MainInit => CompileInv
BY InitIInv DEF MainInit, CompileInv, Compiler!CompileInit

LEMMA MainNextCompileInv == CompileInv /\ [MainNext]_allvars => CompileInv'
<1> SUFFICES ASSUME CompileInv, [MainNext]_allvars PROVE CompileInv'
  OBVIOUS
<1>1. CASE ReadFile
  BY <1>1, ReadFileKeeps
<1>2. CASE CompileIr
  BY <1>2, CompileIrKeeps
<1>3. CASE ReturnParseError \/ WriteElf \/ Start \/ RunProgram \/ Ended \/ UNCHANGED allvars
  <2>1. UNCHANGED <<vars, frames, result>>
    BY <1>3 DEF ReturnParseError, WriteElf, Start, RunProgram, Ended, allvars
  <2> QED
    BY <2>1, CompileInvStays
<1> QED
  BY <1>1, <1>2, <1>3 DEF MainNext, Main

(***************************************************************************)
(* Of the program in memory while it is compiled: the waiting calls of     *)
(* ir_ctx_compile__ are at loop_starts, the outermost one is never inside  *)
(* a closed loop, and the code of each holds together.                     *)
(***************************************************************************)
THEOREM CompilerInvariant == MainSpec => []CompileInv
BY MainInitCompileInv, MainNextCompileInv, PTL DEF MainSpec

\* The code of every call is at most as long as a 32-bit displacement reaches.
CodeFits == \A n \in 1..Len(frames) : Fits(frames[n].code)

(***************************************************************************)
(* The jumps that emit_code_loop_start and emit_code_loop_end write into   *)
(* the code of a call of ir_ctx_compile__ lead to the starts of            *)
(* instructions, if the code fits.                                         *)
(***************************************************************************)
THEOREM JumpsCorrect == MainSpec => [](CodeFits => JumpsLand)
<1>1. CompileInv => (CodeFits => JumpsLand)
  <2> SUFFICES ASSUME CompileInv, CodeFits, NEW n \in 1..Len(frames),
                      NEW k \in 1..Len(frames[n].code), IsJump(frames[n].code[k])
               PROVE  \E j \in 1..(Len(frames[n].code) + 1) :
                        Compiler!Start(frames[n].code, k + 1) + frames[n].code[k].imm
                          = Compiler!Start(frames[n].code, j)
    BY Zenon DEF JumpsLand, Compiler!JumpsLand, IsJump
  <2>1. frames # <<>>
    OBVIOUS
  <2>2. Good(frames[n].code)
    BY <2>1 DEF CompileInv, Calls
  <2> QED
    BY <2>2 DEF Good, CodeFits, LandsAt
<1> QED
  BY <1>1, CompilerInvariant, PTL

---------------------------------------------------------------------------
(* The executable *)

\* The address of .bss is written over the operand of the first instruction,
\* on which nothing else depends.
LEMMA PatchIs ==
  ASSUME NEW c \in Code, Len(c) > 0, c[1].op = "mov", c[1].dst = "edi", NEW w, w = PatchBss(c)
  PROVE  /\ w \in Code /\ Len(w) = Len(c) /\ Len(c) \in Nat
         /\ w[1].op = "mov" /\ w[1].dst = "edi" /\ w[1].len = c[1].len
         /\ \A k \in 1..Len(c) : k # 1 => w[k] = c[k]
<1> DEFINE x == [c[1] EXCEPT !.imm = 0]
<1>1. Len(c) \in Nat /\ 1 \in 1..Len(c) /\ c[1] \in InsType
  BY DEF Code
<1>2. x \in InsType /\ x.op = "mov" /\ x.dst = "edi" /\ x.len = c[1].len
  BY <1>1 DEF InsType
<1>3. w = [c EXCEPT ![1] = x]
  BY DEF PatchBss
<1> HIDE DEF x
<1>4. w \in Seq(InsType) /\ Len(w) = Len(c) /\ w[1] = x /\ \A k \in 1..Len(c) : k # 1 => w[k] = c[k]
  <2>1. c \in Seq(InsType)
    BY DEF Code
  <2> QED
    BY <1>1, <1>2, <1>3, <2>1, Replaced
<1> QED
  BY <1>1, <1>2, <1>4 DEF Code

\* The addresses of instructions depend on nothing but the lengths.
LEMMA SameStarts ==
  ASSUME NEW c \in Code, NEW w \in Code, Len(w) = Len(c), \A k \in 1..Len(c) : w[k].len = c[k].len,
         NEW k \in 1..(Len(c) + 1)
  PROVE  Compiler!Start(w, k) = Compiler!Start(c, k)
<1> DEFINE n == k - 1
           p == SubSeq(c, 1, n)
           q == SubSeq(w, 1, n)
<1>1. n \in Nat /\ n <= Len(c) /\ n <= Len(w) /\ Len(c) \in Nat
  BY DEF Code
<1> HIDE DEF n
<1>2. p \in Code /\ Len(p) = n /\ \A i \in 1..n : p[i] = c[i]
  BY <1>1, Prefix DEF Code
<1>3. q \in Code /\ Len(q) = n /\ \A i \in 1..n : q[i] = w[i]
  BY <1>1, Prefix DEF Code
<1> HIDE DEF p, q
<1>4. Len(p) = Len(q) /\ \A i \in 1..Len(p) : p[i].len = q[i].len
  <2>1. \A i \in 1..n : i \in 1..Len(c)
    BY <1>1
  <2> QED
    BY <1>2, <1>3, <2>1
<1>5. Compiler!Size(p) = Compiler!Size(q)
  BY <1>2, <1>3, <1>4, SameLengths
<1> QED
  BY <1>5 DEF Compiler!Start, n, p, q

\* The code that write_elf_file has patched holds together as well.
LEMMA PatchGood ==
  ASSUME NEW c \in Code, Len(c) > 0, c[1].op = "mov", c[1].dst = "edi", Good(c),
         NEW w, w = PatchBss(c)
  PROVE  /\ w \in Code /\ Len(w) = Len(c) /\ Len(c) \in Nat
         /\ ~Inner(w[1])
         /\ Fits(c) => Fits(w)
         /\ Good(w)
         /\ Complete(c) => Complete(w)
<1>1. /\ w \in Code /\ Len(w) = Len(c) /\ Len(c) \in Nat
      /\ w[1].op = "mov" /\ w[1].dst = "edi" /\ w[1].len = c[1].len
      /\ \A k \in 1..Len(c) : k # 1 => w[k] = c[k]
  BY PatchIs
<1>2. \A k \in 1..Len(c) : /\ w[k].len = c[k].len /\ w[k].op = c[k].op /\ w[k].dst = c[k].dst
                           /\ Inner(w[k]) <=> Inner(c[k])
                           /\ IsJump(w[k]) <=> IsJump(c[k])
                           /\ IsJump(w[k]) => w[k].imm = c[k].imm
  BY <1>1 DEF Inner, IsJump
<1>3. \A imm : \A k \in 1..Len(c) : Sets(w, k, "eax", imm) <=> Sets(c, k, "eax", imm)
  BY <1>1 DEF Sets
<1>4. \A g \in 1..Len(c) : ExitGroup(w, g) <=> ExitGroup(c, g)
  <2> TAKE g \in 1..Len(c)
  <2>1. g + 2 <= Len(c) => g + 1 \in 1..Len(c) /\ g + 2 \in 1..Len(c)
    BY <1>1
  <2> QED
    BY <1>1, <1>2, <1>3, <2>1 DEF ExitGroup
<1>5. \A g \in 1..Len(c) : CallGroup(w, g) <=> CallGroup(c, g)
  <2> TAKE g \in 1..Len(c)
  <2>1. g + 4 <= Len(c) => /\ g + 1 \in 1..Len(c) /\ g + 2 \in 1..Len(c)
                           /\ g + 3 \in 1..Len(c) /\ g + 4 \in 1..Len(c) /\ g + 2 # 1
    BY <1>1
  <2>2. g + 4 <= Len(c) => w[g + 2] = c[g + 2]
    BY <1>1, <2>1
  <2> QED
    BY <1>1, <1>2, <1>3, <2>1, <2>2 DEF CallGroup
<1>6. \A k \in 1..Len(c), g \in 1..Len(c) : Within(w, g, k) <=> Within(c, g, k)
  BY <1>4, <1>5 DEF Within
<1>7. Grouped(w)
  BY <1>1, <1>2, <1>6 DEF Good, Grouped
<1>8. \A k \in 1..(Len(c) + 1) : Compiler!Start(w, k) = Compiler!Start(c, k)
  BY <1>1, <1>2, SameStarts
<1>9. \A k \in 1..Len(c), j \in 1..(Len(c) + 1) :
        IsJump(w[k]) => (LandsAt(w, k, j) <=> LandsAt(c, k, j))
  <2> SUFFICES ASSUME NEW k \in 1..Len(c), NEW j \in 1..(Len(c) + 1), IsJump(w[k])
               PROVE  LandsAt(w, k, j) <=> LandsAt(c, k, j)
    OBVIOUS
  <2>1. k + 1 \in 1..(Len(c) + 1) /\ (j <= Len(c) => j \in 1..Len(c))
    BY <1>1
  <2>2. Compiler!Start(w, k + 1) = Compiler!Start(c, k + 1) /\ w[k].imm = c[k].imm
    BY <1>2, <1>8, <2>1
  <2>3. Compiler!Start(w, j) = Compiler!Start(c, j)
    BY <1>8
  <2>4. j <= Len(c) => (Inner(w[j]) <=> Inner(c[j]))
    BY <1>2, <2>1
  <2> QED
    BY <1>1, <2>2, <2>3, <2>4 DEF LandsAt
<1>10. Fits(w) <=> Fits(c)
  BY <1>1, <1>2, SameLengths DEF Fits
<1>11. Good(w)
  BY <1>1, <1>2, <1>7, <1>9, <1>10 DEF Good
<1>12. Complete(c) => Complete(w)
  <2> HAVE Complete(c)
  <2>1. Len(c) > 2 /\ ExitGroup(c, Len(c) - 2)
    BY DEF Complete
  <2>2. Len(c) - 2 \in 1..Len(c)
    BY <1>1, <2>1
  <2>3. Len(w) > 2 /\ ExitGroup(w, Len(w) - 2)
    BY <1>1, <1>4, <2>1, <2>2
  <2>4. Fits(w) => \A k \in 1..Len(w) :
           IsJump(w[k]) => \E j \in 1..Len(w) : LandsAt(w, k, j)
    <3> SUFFICES ASSUME Fits(w), NEW k \in 1..Len(w), IsJump(w[k])
                 PROVE  \E j \in 1..Len(w) : LandsAt(w, k, j)
      OBVIOUS
    <3>1. PICK j \in 1..Len(c) : LandsAt(c, k, j)
      BY <1>1, <1>2, <1>10 DEF Complete
    <3>2. j \in 1..(Len(c) + 1)
      BY <1>1
    <3> QED
      BY <1>1, <1>9, <3>1, <3>2
  <2> QED
    BY <2>3, <2>4 DEF Complete
<1>13. ~Inner(w[1])
  BY <1>1 DEF Inner
<1> QED
  BY <1>1, <1>10, <1>11, <1>12, <1>13

\* The processor finds the instruction that lies at its address.
LEMMA FetchedIs ==
  ASSUME NEW w \in Code, text = Compiler!Load(w), NEW k \in 1..Len(w), eip = Compiler!Start(w, k)
  PROVE  Cpu!Fetched = {w[k]}
<1>1. Len(w) \in Nat
  BY DEF Code
<1>2. \A j \in 1..Len(w) : Compiler!Start(w, j) = eip => j = k
  <2> SUFFICES ASSUME NEW j \in 1..Len(w), Compiler!Start(w, j) = Compiler!Start(w, k), j # k
               PROVE  FALSE
    OBVIOUS
  <2>1. Compiler!Start(w, j) \in Nat
    BY StartNext
  <2>2. j \in 1..(Len(w) + 1) /\ k \in 1..(Len(w) + 1) /\ (j < k \/ k < j)
    BY <1>1
  <2>3. Compiler!Start(w, j) < Compiler!Start(w, k) \/ Compiler!Start(w, k) < Compiler!Start(w, j)
    BY <2>2, StartIncreases
  <2> QED
    BY <2>1, <2>3
<1>3. (CHOOSE j \in 1..Len(w) : Compiler!Start(w, j) = eip) = k
  BY <1>2
<1>4. eip \in DOMAIN text /\ text[eip] = w[k]
  BY <1>3 DEF Compiler!Load
<1> QED
  BY <1>4 DEF Cpu!Fetched

\* The registers r are as far set up for the system call that starts at g as
\* instruction k, which is inside it, relies on.
Prepared(w, g, k, r) ==
  /\ ExitGroup(w, g) => r["eax"] = Compiler!SYS_EXIT
  /\ CallGroup(w, g) => /\ r["eax"] \in {Compiler!SYS_READ, Compiler!SYS_WRITE}
                        /\ k > g + 2 => r["ecx"] \in Cpu!Tape

Ready(w, k, r) ==
  Inner(w[k]) => \E g \in 1..Len(w) : Within(w, g, k) /\ Prepared(w, g, k, r)

\* What is inside a system call, and behind what.
LEMMA WithinIs ==
  ASSUME NEW w \in Code, NEW g \in 1..Len(w), NEW k \in 1..Len(w), Within(w, g, k)
  PROVE  /\ k - 1 = g \/ Within(w, g, k - 1)
         /\ w[k - 1].op = "mov"
         /\ w[k].op = "int" => (ExitGroup(w, g) \/ (CallGroup(w, g) /\ k > g + 2))
         /\ w[k].op = "mov" => w[k].dst \in {"ebx", "ecx", "edx"} /\ Within(w, g, k + 1)
         /\ ExitGroup(w, g) => w[k].dst # "ecx" \/ w[k].op # "mov"
         /\ CallGroup(w, g) /\ k = g + 2 => w[k].op = "mov" /\ w[k].dst = "ecx" /\ w[k].reg = "edi"
         /\ CallGroup(w, g) /\ k > g + 2 /\ w[k].op = "mov" => w[k].dst # "ecx"
<1>1. g \in Nat /\ k \in Nat
  OBVIOUS
<1>2. CASE ExitGroup(w, g) /\ k \in (g + 1)..(g + 2)
  <2>1. k = g + 1 \/ k = g + 2
    BY <1>1, <1>2
  <2>2. ~CallGroup(w, g)
    BY <1>2 DEF ExitGroup, CallGroup
  <2>3. CASE k = g + 1
    <3>1. k - 1 = g /\ k + 1 = g + 2 /\ k + 1 \in (g + 1)..(g + 2)
      BY <1>1, <2>3
    <3> QED
      BY <1>2, <2>2, <2>3, <3>1 DEF ExitGroup, Within, Sets
  <2>4. CASE k = g + 2
    <3>1. k - 1 = g + 1 /\ k - 1 \in (g + 1)..(g + 2)
      BY <1>1, <2>4
    <3> QED
      BY <1>2, <2>2, <2>4, <3>1 DEF ExitGroup, Within
  <2> QED
    BY <2>1, <2>3, <2>4
<1>3. CASE CallGroup(w, g) /\ k \in (g + 1)..(g + 4)
  <2>1. k = g + 1 \/ k = g + 2 \/ k = g + 3 \/ k = g + 4
    BY <1>1, <1>3
  <2>2. ~ExitGroup(w, g)
    BY <1>3 DEF ExitGroup, CallGroup
  <2>3. CASE k = g + 1
    <3>1. k - 1 = g /\ k + 1 \in (g + 1)..(g + 4) /\ k # g + 2 /\ ~(k > g + 2)
      BY <1>1, <2>3
    <3> QED
      BY <1>3, <2>2, <2>3, <3>1 DEF CallGroup, Within, Sets
  <2>4. CASE k = g + 2
    <3>1. k - 1 = g + 1 /\ k - 1 \in (g + 1)..(g + 4) /\ k + 1 \in (g + 1)..(g + 4) /\ ~(k > g + 2)
      BY <1>1, <2>4
    <3> QED
      BY <1>3, <2>2, <2>4, <3>1 DEF CallGroup, Within
  <2>5. CASE k = g + 3
    <3>1. k - 1 = g + 2 /\ k - 1 \in (g + 1)..(g + 4) /\ k + 1 \in (g + 1)..(g + 4) /\ k > g + 2
          /\ k # g + 2
      BY <1>1, <2>5
    <3> QED
      BY <1>3, <2>2, <2>5, <3>1 DEF CallGroup, Within
  <2>6. CASE k = g + 4
    <3>1. k - 1 = g + 3 /\ k - 1 \in (g + 1)..(g + 4) /\ k > g + 2 /\ k # g + 2
      BY <1>1, <2>6
    <3> QED
      BY <1>3, <2>2, <2>6, <3>1 DEF CallGroup, Within
  <2> QED
    BY <2>1, <2>3, <2>4, <2>5, <2>6
<1> QED
  BY <1>2, <1>3 DEF Within

\* Only a mov is followed by an instruction that relies on it.
LEMMA NextNotInner ==
  ASSUME NEW w \in Code, Grouped(w), NEW k \in 1..Len(w), k < Len(w), w[k].op # "mov"
  PROVE  k + 1 \in 1..Len(w) /\ ~Inner(w[k + 1])
<1>1. Len(w) \in Nat /\ k + 1 \in 1..Len(w) /\ (k + 1) - 1 = k
  BY DEF Code
<1>2. ASSUME Inner(w[k + 1]) PROVE FALSE
  <2>1. PICK g \in 1..Len(w) : Within(w, g, k + 1)
    BY <1>1, <1>2 DEF Grouped
  <2>2. w[(k + 1) - 1].op = "mov"
    BY <1>1, <2>1, WithinIs
  <2> QED
    BY <1>1, <2>2
<1> QED
  BY <1>1, <1>2

\* A mov prepares what is behind it.
LEMMA MovPrepares ==
  ASSUME NEW w \in Code, Grouped(w), NEW k \in 1..Len(w), k < Len(w), w[k].op = "mov",
         NEW r, DOMAIN r = Compiler!Registers, r["edi"] \in Cpu!Tape, Ready(w, k, r),
         NEW s, s = [r EXCEPT ![w[k].dst] = IF w[k].reg = "none" THEN w[k].imm ELSE r[w[k].reg]]
  PROVE  k + 1 \in 1..Len(w) /\ Ready(w, k + 1, s)
<1>1. Len(w) \in Nat /\ k + 1 \in 1..Len(w) /\ (k + 1) - 1 = k /\ k \in Nat
  BY DEF Code
<1>2. /\ "eax" \in DOMAIN r /\ "ecx" \in DOMAIN r
      /\ s["eax"] = IF w[k].dst = "eax" THEN (IF w[k].reg = "none" THEN w[k].imm ELSE r[w[k].reg]) ELSE r["eax"]
      /\ s["ecx"] = IF w[k].dst = "ecx" THEN (IF w[k].reg = "none" THEN w[k].imm ELSE r[w[k].reg]) ELSE r["ecx"]
  BY DEF Compiler!Registers
<1>3. ASSUME Inner(w[k + 1]), Inner(w[k])
      PROVE  \E g \in 1..Len(w) : Within(w, g, k + 1) /\ Prepared(w, g, k + 1, s)
  <2>1. PICK g \in 1..Len(w) : Within(w, g, k) /\ Prepared(w, g, k, r)
    BY <1>3 DEF Ready
  <2>2. /\ k - 1 = g \/ Within(w, g, k - 1)
        /\ w[k - 1].op = "mov"
        /\ w[k].op = "int" => (ExitGroup(w, g) \/ (CallGroup(w, g) /\ k > g + 2))
        /\ w[k].op = "mov" => w[k].dst \in {"ebx", "ecx", "edx"} /\ Within(w, g, k + 1)
        /\ ExitGroup(w, g) => w[k].dst # "ecx" \/ w[k].op # "mov"
        /\ CallGroup(w, g) /\ k = g + 2 => w[k].op = "mov" /\ w[k].dst = "ecx" /\ w[k].reg = "edi"
        /\ CallGroup(w, g) /\ k > g + 2 /\ w[k].op = "mov" => w[k].dst # "ecx"
    BY <2>1, WithinIs
  <2>3. s["eax"] = r["eax"]
    BY <1>2, <2>2
  <2>4. CallGroup(w, g) /\ k = g + 2 => s["ecx"] = r["edi"]
    BY <1>2, <2>2
  <2>5. CallGroup(w, g) /\ k > g + 2 => s["ecx"] = r["ecx"]
    BY <1>2, <2>2
  <2>6. k + 1 > g + 2 => k = g + 2 \/ k > g + 2
    BY <1>1
  <2> QED
    BY <2>1, <2>2, <2>3, <2>4, <2>5, <2>6 DEF Prepared
<1>4. ASSUME Inner(w[k + 1]), ~Inner(w[k])
      PROVE  \E g \in 1..Len(w) : Within(w, g, k + 1) /\ Prepared(w, g, k + 1, s)
  <2>1. PICK g \in 1..Len(w) : Within(w, g, k + 1)
    BY <1>1, <1>4 DEF Grouped
  <2>2. k = g
    <3>1. k = g \/ Within(w, g, k)
      <4>1. (k + 1) - 1 = g \/ Within(w, g, (k + 1) - 1)
        BY <1>1, <2>1, WithinIs
      <4> QED
        BY <1>1, <4>1
    <3>2. ASSUME Within(w, g, k) PROVE FALSE
      <4>1. w[k].dst \in {"ebx", "ecx", "edx"}
        BY <3>2, WithinIs
      <4> QED
        BY <1>4, <4>1 DEF Inner
    <3> QED
      BY <3>1, <3>2
  <2>3. ~(k + 1 > g + 2)
    BY <1>1, <2>2
  <2>4. ExitGroup(w, g) => s["eax"] = Compiler!SYS_EXIT
    BY <1>2, <2>2 DEF ExitGroup, Sets
  <2>5. CallGroup(w, g) => s["eax"] \in {Compiler!SYS_READ, Compiler!SYS_WRITE}
    BY <1>2, <2>2 DEF CallGroup, Sets
  <2> QED
    BY <2>1, <2>3, <2>4, <2>5 DEF Prepared
<1> QED
  BY <1>1, <1>3, <1>4 DEF Ready

\* The last instruction of a complete program is a system call that exits.
LEMMA LastExits ==
  ASSUME NEW w \in Code, Complete(w), NEW r, Ready(w, Len(w), r)
  PROVE  w[Len(w)].op = "int" /\ r["eax"] = Compiler!SYS_EXIT
<1> DEFINE n == Len(w)
           h == n - 2
<1>1. n \in Nat /\ n > 2 /\ ExitGroup(w, h)
  BY DEF Complete, Code
<1> HIDE DEF n
<1>2. h \in 1..n /\ h + 2 = n /\ n \in 1..n
  BY <1>1
<1>3. w[n].op = "int" /\ w[h].dst = "eax"
  BY <1>1, <1>2 DEF ExitGroup, Sets
<1>4. PICK g \in 1..n : Within(w, g, n) /\ Prepared(w, g, n, r)
  BY <1>3 DEF Ready, Inner, n
<1>5. ExitGroup(w, g)
  <2> SUFFICES ASSUME CallGroup(w, g), n \in (g + 1)..(g + 4) PROVE FALSE
    BY <1>4 DEF Within
  <2>1. g + 4 = n
    BY <1>1 DEF CallGroup, n
  <2>2. g + 2 = h
    BY <1>2, <2>1
  <2>3. w[g + 2].dst = "ecx"
    BY DEF CallGroup
  <2> QED
    BY <1>3, <2>2, <2>3
<1> QED
  BY <1>3, <1>4, <1>5 DEF Prepared, n

\* The program w runs, is at instruction k, and has not strayed.
AtInstruction(w, k) == eip = Compiler!Start(w, k) /\ Ready(w, k, regs)

\* The processor goes on behind an instruction that prepares nothing.
LEMMA ForwardKeeps ==
  ASSUME NEW w \in Code, Grouped(w), NEW k \in 1..Len(w), k < Len(w), w[k].op # "mov",
         eip = Compiler!Start(w, k), eip' = eip + w[k].len
  PROVE  k + 1 \in 1..Len(w) /\ AtInstruction(w, k + 1)'
<1>1. k + 1 \in 1..Len(w) /\ ~Inner(w[k + 1])
  BY NextNotInner
<1>2. eip' = Compiler!Start(w, k + 1)
  BY StartNext
<1> QED
  BY <1>1, <1>2 DEF AtInstruction, Ready

\* A step of a complete program that has not strayed.
LEMMA StepKeeps ==
  ASSUME NEW w \in Code, Good(w), Complete(w), Fits(w), text = Compiler!Load(w),
         NEW k \in 1..Len(w), AtInstruction(w, k), status = "run",
         DOMAIN regs = Compiler!Registers, regs["edi"] \in Cpu!Tape, Cpu!Step
  PROVE  /\ status' # "wild"
         /\ status' = "run" => \E j \in 1..Len(w) : AtInstruction(w, j)'
<1> DEFINE ins == w[k]
<1>1. eip = Compiler!Start(w, k) /\ Ready(w, k, regs) /\ Grouped(w) /\ Len(w) \in Nat
  BY DEF AtInstruction, Good, Code
<1>2. Cpu!Fetched = {ins}
  BY <1>1, FetchedIs
<1>3. Cpu!Execute(ins)
  BY <1>2 DEF Cpu!Step, Cpu!Derail
<1>4. k = Len(w) => ins.op = "int" /\ regs["eax"] = 1
  BY <1>1, LastExits DEF Compiler!SYS_EXIT
<1>5. k # Len(w) => k < Len(w)
  BY <1>1
<1>6. ins.op # "mov" /\ k # Len(w) /\ eip' = eip + ins.len =>
        \E j \in 1..Len(w) : AtInstruction(w, j)'
  BY <1>1, <1>5, ForwardKeeps
<1>7. CASE Cpu!Mov(ins)
  <2>1. /\ ins.op = "mov" /\ eip' = eip + ins.len /\ status' = status
        /\ regs' = [regs EXCEPT ![ins.dst] = IF ins.reg = "none" THEN ins.imm ELSE regs[ins.reg]]
    BY <1>7 DEF Cpu!Mov, Cpu!Operand, Cpu!Forward
  <2>2. k < Len(w)
    BY <1>4, <1>5, <2>1
  <2>3. \A s : s = [regs EXCEPT ![ins.dst] = IF ins.reg = "none" THEN ins.imm ELSE regs[ins.reg]]
                 => k + 1 \in 1..Len(w) /\ Ready(w, k + 1, s)
    BY <1>1, <2>1, <2>2, MovPrepares
  <2>4. k + 1 \in 1..Len(w) /\ Ready(w, k + 1, regs')
    BY <2>1, <2>3
  <2>5. eip' = Compiler!Start(w, k + 1)
    BY <1>1, <2>1, StartNext
  <2> QED
    BY <2>1, <2>4, <2>5 DEF AtInstruction, Ready, Prepared
<1>8. CASE Cpu!Push(ins)
  BY <1>4, <1>6, <1>8 DEF Cpu!Push, Cpu!Forward
<1>9. CASE Cpu!AddSub(ins)
  BY <1>4, <1>6, <1>9 DEF Cpu!AddSub, Cpu!Forward
<1>10. CASE Cpu!Cmp(ins)
  BY <1>4, <1>6, <1>10 DEF Cpu!Cmp, Cpu!Forward
<1>11. CASE Cpu!Jump(ins)
  <2>1. /\ IsJump(ins) /\ ins.op # "mov" /\ k # Len(w) /\ status' = status
        /\ eip' = eip + ins.len + ins.imm \/ eip' = eip + ins.len + 0
    BY <1>4, <1>11 DEF Cpu!Jump, IsJump
  <2>2. CASE eip' = eip + ins.len + ins.imm
    <3>1. PICK j \in 1..Len(w) : LandsAt(w, k, j)
      BY <2>1 DEF Complete
    <3>2. eip' = Compiler!Start(w, j) /\ ~Inner(w[j])
      <4>1. Compiler!Start(w, k + 1) = eip + ins.len
        BY <1>1, StartNext
      <4> QED
        BY <1>1, <2>2, <3>1, <4>1 DEF LandsAt
    <3> QED
      BY <2>1, <3>2 DEF AtInstruction, Ready
  <2>3. CASE eip' = eip + ins.len + 0
    <3>1. eip \in Nat /\ ins.len \in Nat
      <4>1. ins \in InsType
        BY DEF Code
      <4> QED
        BY <1>1, <4>1, StartNext, InsFields
    <3> QED
      BY <1>6, <2>1, <2>3, <3>1
  <2> QED
    BY <2>1, <2>2, <2>3
<1>12. CASE Cpu!Exit(ins)
  BY <1>12 DEF Cpu!Exit
<1>13. CASE Cpu!Write(ins) \/ Cpu!Read(ins)
  <2>1. ins.op = "int" /\ regs["eax"] # 1
    BY <1>13 DEF Cpu!Write, Cpu!Read
  <2>2. PICK g \in 1..Len(w) : Within(w, g, k) /\ Prepared(w, g, k, regs)
    BY <1>1, <2>1 DEF Ready, Inner
  <2>3. ExitGroup(w, g) \/ (CallGroup(w, g) /\ k > g + 2)
    BY <2>1, <2>2, WithinIs
  <2>4. regs["ecx"] \in Cpu!Tape
    BY <2>1, <2>2, <2>3 DEF Prepared, Compiler!SYS_EXIT
  <2>5. status' = status /\ eip' = eip + ins.len
    BY <1>13, <2>4 DEF Cpu!Write, Cpu!Read, Cpu!Forward
  <2> QED
    BY <1>4, <1>6, <2>1, <2>5
<1> QED
  BY <1>3, <1>7, <1>8, <1>9, <1>10, <1>11, <1>12, <1>13 DEF Cpu!Execute

\* What write_elf_file wrote.
Written == PatchBss(frames[1].code)

(***************************************************************************)
(* The program and the processor, before it is started and while it runs.  *)
(* A complete program whose code fits and that has not strayed is at one   *)
(* of its instructions, with the registers set up for it.                  *)
(***************************************************************************)
RunInv ==
  /\ CompileInv
  /\ DOMAIN regs = Compiler!Registers
  /\ strayed \/ regs["edi"] \in Cpu!Tape
  /\ exit # 0 => status = "idle"
  /\ exit = 0 => result \in {"ok", "operand_size"} /\ text = Compiler!Load(Written)
  /\ status = "idle" => eip = 0
  /\ (result = "ok" /\ Fits(frames[1].code) /\ ~strayed) =>
       /\ status # "wild"
       /\ status = "run" => \E k \in 1..Len(Written) : AtInstruction(Written, k)

\* What ir_ctx_compile has completed is a complete program.
LEMMA WrittenIs ==
  ASSUME CompileInv, result = "ok", Fits(frames[1].code)
  PROVE  /\ Written \in Code /\ Len(Written) > 0 /\ Len(Written) \in Nat /\ ~Inner(Written[1])
         /\ Good(Written) /\ Complete(Written) /\ Fits(Written)
<1> DEFINE c == frames[1].code
<1>1. Calls(ir, frames, "ok")
  BY DEF CompileInv
<1>2. Len(frames) = 1 /\ frames[1].i = Len(ir) /\ Outermost(ir, frames[1]) /\ Good(c)
  BY <1>1 DEF Calls
<1>3. Len(c) > 0 /\ c[1].op = "mov" /\ c[1].dst = "edi" /\ Complete(c)
  BY <1>2 DEF Outermost
<1>4. Written = PatchBss(c) /\ c \in Code /\ Fits(c)
  BY <1>2 DEF Written, Good
<1> HIDE DEF c
<1>5. /\ Written \in Code /\ Len(Written) = Len(c) /\ Len(c) \in Nat
      /\ ~Inner(Written[1])
      /\ Fits(c) => Fits(Written)
      /\ Good(Written)
      /\ Complete(c) => Complete(Written)
  BY <1>2, <1>3, <1>4, PatchGood
<1> QED
  BY <1>3, <1>4, <1>5

LEMMA MainInitRunInv == MainInit => RunInv
<1> SUFFICES ASSUME MainInit PROVE RunInv
  OBVIOUS
<1>1. CompileInv
  BY MainInitCompileInv
<1>2. "edi" \in Compiler!Registers /\ 0 \in Cpu!Tape
  BY CapacityAssumption DEF Compiler!Registers, Cpu!Tape
<1>3. DOMAIN regs = Compiler!Registers /\ regs["edi"] \in Cpu!Tape
  BY <1>2 DEF MainInit
<1> QED
  BY <1>1, <1>3 DEF MainInit, RunInv, Compiler!CompileInit

\* main before it has returned 0.
LEMMA MainKeeps ==
  ASSUME RunInv, Main
  PROVE  RunInv'
<1>1. CompileInv'
  BY MainNextCompileInv DEF RunInv, MainNext
<1>2. exit # 0
  <2> SUFFICES ASSUME exit = 0 PROVE FALSE
    OBVIOUS
  <2>1. result \in {"ok", "operand_size"} /\ pc = "parsed"
    BY DEF RunInv, CompileInv
  <2>2. ~Parse
    BY <2>1 DEF Parse, Fread, ParseChar, ParseReturn, ParseRead, ParseWrite, ParsePlus, ParseMinus,
                ParseRight, ParseLeft, PushRun, AddRun, ParseLoopStart, ParseLoopEnd,
                ParseUnmatched, ParseOther
  <2>3. ~Compiler!Compile
    BY <2>1 DEF Compiler!Compile, Compiler!EnterCompile, Compiler!EmitTape, Compiler!EmitCell,
                Compiler!EmitWrite, Compiler!EmitRead, Compiler!EmitExit, Compiler!EnterLoop,
                Compiler!EmitLoopEnd, Compiler!EndOfIr, Compiler!FailOperand, Compiler!AtOp
  <2> QED
    BY <2>2, <2>3 DEF Main, ReadFile, ReturnParseError, CompileIr, WriteElf
<1>3. /\ eip' = eip /\ regs' = regs /\ status' = status /\ strayed' = strayed
      /\ exit' = 0 => WriteElf
  BY <1>2 DEF Main, ReadFile, ReturnParseError, CompileIr, WriteElf, xvars
<1>4. WriteElf => result' \in {"ok", "operand_size"} /\ text' = Compiler!Load(Written')
  BY DEF WriteElf, Written
<1>5. status = "idle" /\ eip = 0 /\ (strayed \/ regs["edi"] \in Cpu!Tape)
      /\ DOMAIN regs = Compiler!Registers
  BY <1>2 DEF RunInv
<1> QED
  BY <1>1, <1>3, <1>4, <1>5 DEF RunInv, Written

LEMMA StartKeeps ==
  ASSUME RunInv, Start
  PROVE  RunInv'
<1>1. CompileInv'
  BY MainNextCompileInv DEF RunInv, MainNext
<1>2. /\ exit = 0 /\ status = "idle" /\ status' = "run"
      /\ UNCHANGED <<frames, result, exit, text, eip, regs, strayed>>
  BY DEF Start
<1>3. eip = 0 /\ CompileInv
  BY <1>2 DEF RunInv
<1>4. ASSUME result = "ok", Fits(frames[1].code)
      PROVE  \E k \in 1..Len(Written) : AtInstruction(Written, k)
  <2>1. /\ Written \in Code /\ Len(Written) > 0 /\ Len(Written) \in Nat /\ ~Inner(Written[1])
        /\ Good(Written) /\ Complete(Written) /\ Fits(Written)
    BY <1>3, <1>4, WrittenIs
  <2>2. Compiler!Start(Written, 1) = 0
    BY <2>1, StartEnds
  <2>3. AtInstruction(Written, 1)
    BY <1>3, <2>1, <2>2 DEF AtInstruction, Ready
  <2> QED
    BY <2>1, <2>3
<1>5. Written' = Written /\ \A k : AtInstruction(Written, k)' <=> AtInstruction(Written, k)
  BY <1>2 DEF Written, AtInstruction, Ready, Prepared
<1> QED
  BY <1>1, <1>2, <1>4, <1>5 DEF RunInv

LEMMA RegistersStay ==
  ASSUME DOMAIN regs = Compiler!Registers, Cpu!Step
  PROVE  DOMAIN regs' = Compiler!Registers /\ status' # "idle"
<1>1. status = "run" /\ (Cpu!Wild \/ \E ins \in Cpu!Fetched : Cpu!Execute(ins))
  BY DEF Cpu!Step, Cpu!Derail
<1>2. CASE Cpu!Wild
  BY <1>2 DEF Cpu!Wild
<1>3. ASSUME NEW ins, Cpu!Execute(ins)
      PROVE  DOMAIN regs' = DOMAIN regs /\ status' # "idle"
  <2>1. CASE Cpu!Mov(ins) \/ Cpu!Push(ins) \/ Cpu!Cmp(ins) \/ Cpu!Jump(ins) \/ Cpu!Exit(ins)
    BY <1>1, <2>1 DEF Cpu!Mov, Cpu!Push, Cpu!Cmp, Cpu!Jump, Cpu!Exit, Cpu!Wild
  <2>2. CASE Cpu!AddSub(ins) \/ Cpu!Write(ins) \/ Cpu!Read(ins)
    BY <1>1, <2>2 DEF Cpu!AddSub, Cpu!Write, Cpu!Read, Cpu!Wild
  <2> QED
    BY <1>3, <2>1, <2>2 DEF Cpu!Execute
<1> QED
  BY <1>1, <1>2, <1>3

LEMMA RunProgramKeeps ==
  ASSUME RunInv, RunProgram
  PROVE  RunInv'
<1>1. CompileInv'
  BY MainNextCompileInv DEF RunInv, MainNext
<1>2. /\ Cpu!Step /\ status = "run"
      /\ strayed' = (strayed \/ regs["edi"]' \notin Cpu!Tape)
      /\ UNCHANGED <<frames, result, exit, text>>
  BY DEF RunProgram, Cpu!Step
<1>3. exit = 0 /\ CompileInv /\ DOMAIN regs = Compiler!Registers
      /\ result \in {"ok", "operand_size"} /\ text = Compiler!Load(Written)
  BY <1>2 DEF RunInv
<1>4. DOMAIN regs' = Compiler!Registers /\ status' # "idle"
  BY <1>2, <1>3, RegistersStay
<1>5. strayed' \/ regs'["edi"] \in Cpu!Tape
  BY <1>2
<1>6. Written' = Written
  BY <1>2 DEF Written
<1>7. ASSUME result = "ok", Fits(frames[1].code), ~strayed
      PROVE  /\ status' # "wild"
             /\ status' = "run" => \E j \in 1..Len(Written') : AtInstruction(Written, j)'
  <2>1. /\ Written \in Code /\ Len(Written) > 0 /\ Len(Written) \in Nat /\ ~Inner(Written[1])
        /\ Good(Written) /\ Complete(Written) /\ Fits(Written)
    BY <1>3, <1>7, WrittenIs
  <2>2. PICK k \in 1..Len(Written) : AtInstruction(Written, k)
    BY <1>2, <1>7 DEF RunInv
  <2>3. regs["edi"] \in Cpu!Tape
    BY <1>7 DEF RunInv
  <2>4. PICK w : w = Written
    OBVIOUS
  <2>5. w \in Code /\ Good(w) /\ Complete(w) /\ Fits(w) /\ text = Compiler!Load(w)
        /\ k \in 1..Len(w) /\ AtInstruction(w, k) /\ Written' = w
    BY <1>3, <1>6, <2>1, <2>2, <2>4
  <2>6. /\ status' # "wild"
        /\ status' = "run" => \E j \in 1..Len(w) : AtInstruction(w, j)'
    BY <1>2, <1>3, <2>3, <2>5, StepKeeps
  <2>7. \A j : AtInstruction(w, j)' => AtInstruction(Written, j)'
    BY <2>5 DEF AtInstruction, Ready, Prepared
  <2> QED
    BY <2>5, <2>6, <2>7
<1>8. ~strayed' => ~strayed
  BY <1>2
<1> QED
  BY <1>1, <1>2, <1>3, <1>4, <1>5, <1>6, <1>7, <1>8 DEF RunInv

LEMMA MainNextRunInv == RunInv /\ [MainNext]_allvars => RunInv'
<1> SUFFICES ASSUME RunInv, [MainNext]_allvars PROVE RunInv'
  OBVIOUS
<1>1. CASE Main
  BY <1>1, MainKeeps
<1>2. CASE Start
  BY <1>2, StartKeeps
<1>3. CASE RunProgram
  BY <1>3, RunProgramKeeps
<1>4. CASE Ended \/ UNCHANGED allvars
  <2>1. UNCHANGED allvars
    BY <1>4 DEF Ended
  <2>2. CompileInv'
    BY MainNextCompileInv DEF RunInv
  <2> QED
    BY <2>1, <2>2 DEF allvars, xvars, RunInv, Written, AtInstruction, Ready, Prepared
<1> QED
  BY <1>1, <1>2, <1>3, <1>4 DEF MainNext

(***************************************************************************)
(* The program that write_elf_file wrote is always at an instruction, with *)
(* the registers of its system calls set up, while it has not strayed.     *)
(***************************************************************************)
THEOREM ExecutableInvariant == MainSpec => []RunInv
BY MainInitRunInv, MainNextRunInv, PTL DEF MainSpec

(***************************************************************************)
(* What ir_ctx_compile completes, if it is no longer than a 32-bit         *)
(* displacement reaches, executes nothing that is not an instruction of it *)
(* and touches no memory outside .bss unless it has moved over an edge of  *)
(* the tape.                                                               *)
(***************************************************************************)
THEOREM ExecutableStays == MainSpec => [](CodeFits => WildOnlyIfStrayed)
<1>1. RunInv => (CodeFits => WildOnlyIfStrayed)
  <2> SUFFICES ASSUME RunInv, CodeFits, status = "wild", result = "ok" PROVE strayed
    BY DEF WildOnlyIfStrayed
  <2>1. Calls(ir, frames, "ok")
    BY DEF RunInv, CompileInv
  <2>2. Fits(frames[1].code)
    BY <2>1 DEF Calls, CodeFits
  <2> QED
    BY <2>2 DEF RunInv
<1> QED
  BY <1>1, ExecutableInvariant, PTL
=============================================================================
