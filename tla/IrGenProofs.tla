---------------------------- MODULE IrGenProofs ----------------------------
(***************************************************************************)
(* Proofs about the parser: its inductive invariant holds for every set of *)
(* source files and every chunk size, and what it hands to the interpreter *)
(* and to the compiler is a well-formed program.                           *)
(*                                                                         *)
(* The lemmas see the IR and the stack as arrays: a length and elements.   *)
(* A step changes ir and patch in one of four ways (an operation is        *)
(* pushed, the last one is merged into, a loop is opened, a loop is        *)
(* closed); one lemma for each shows that the loop invariants survive.     *)
(***************************************************************************)
EXTENDS IrGen, WellFoundedInduction, SequenceTheorems, TLAPS

---------------------------------------------------------------------------
(* Numbers and sequences *)

LessThan == {pair \in Nat \X Nat : pair[1] < pair[2]}

(***************************************************************************)
(* Every set of natural numbers that is not empty has a least element.     *)
(* Applied to the set of counterexamples, this is induction.               *)
(***************************************************************************)
LEMMA LeastNat ==
  ASSUME NEW T, T \subseteq Nat, T # {}
  PROVE  \E x \in T : \A y \in T : x <= y
<1>1. IsWellFoundedOn(LessThan, Nat)
  BY NatLessThanWellFounded DEF OpToRel, LessThan
<1>2. PICK x \in T : \A y \in T : <<y, x>> \notin LessThan
  BY <1>1, WFMin, Zenon
<1>3. \A y \in T : ~(y < x)
  BY <1>2 DEF LessThan
<1> QED
  BY <1>3

\* A part of a sequence.
LEMMA Segment ==
  ASSUME NEW T, NEW s \in Seq(T), NEW a \in Nat, NEW b \in Nat, a <= b, b <= Len(s)
  PROVE  /\ SubSeq(s, a + 1, b) \in Seq(T)
         /\ Len(SubSeq(s, a + 1, b)) = b - a
         /\ \A i \in 1..(b - a) : SubSeq(s, a + 1, b)[i] = s[a + i]
<1>1. \A i \in (a + 1)..b : s[i] \in T
  OBVIOUS
<1>2. b - (a + 1) + 1 = b - a /\ \A i \in 1..(b - a) : (a + 1) + i - 1 = a + i
  OBVIOUS
<1> QED
  BY <1>1, <1>2, SubSeqProperties

\* The first elements of a sequence.
LEMMA Prefix ==
  ASSUME NEW T, NEW s \in Seq(T), NEW b \in Nat, b <= Len(s)
  PROVE  /\ SubSeq(s, 1, b) \in Seq(T)
         /\ Len(SubSeq(s, 1, b)) = b
         /\ \A i \in 1..b : SubSeq(s, 1, b)[i] = s[i]
BY Segment, 0 + 1 = 1, b - 0 = b, \A i \in 1..b : 0 + i = i

\* A sequence with another element at n.
LEMMA Replaced ==
  ASSUME NEW T, NEW s \in Seq(T), NEW n \in 1..Len(s), NEW x \in T,
         NEW t, t = [s EXCEPT ![n] = x]
  PROVE  /\ t \in Seq(T) /\ Len(t) = Len(s) /\ t[n] = x
         /\ \A k \in 1..Len(s) : k # n => t[k] = s[k]
OBVIOUS

---------------------------------------------------------------------------
(* The fields of an operation. *)
LEMMA OpFields ==
  ASSUME NEW kind, NEW arg
  PROVE  Op(kind, arg).kind = kind /\ Op(kind, arg).arg = arg
BY DEF Op

(* What the lemmas are about: the IR s and the stack p of a parser state. *)
OnlyParsed(s) == \A i \in 1..Len(s) : s[i].kind \notin {"halt", "set"}

LoopInv(s, p) ==
  /\ StackIsOpen(s, p)
  /\ LoopsMatched(s)
  /\ LoopsNested(s)
  /\ OpenOutside(s, p)
  /\ RunsMerged(s)
  /\ OnlyParsed(s)

LEMMA IInvSplit == IInv <=> TypeOK /\ LoopInv(ir, patch)
BY DEF IInv, LoopInv, OnlyParsed, PatchesOpen, DeltasMatch, ProperNesting, Contracted

LEMMA IInvJoin ==
  ASSUME TypeOK', LoopInv(ir', patch')
  PROVE  IInv'
BY DEF IInv, LoopInv, OnlyParsed, PatchesOpen, DeltasMatch, ProperNesting, Contracted

(* s is an IR of n operations and p a stack of m addresses. *)
Arrays(s, n, p, m) ==
  /\ Len(s) = n /\ \A i \in 1..n : s[i].arg \in Int
  /\ Len(p) = m /\ \A k \in 1..m : p[k] \in Nat

(* t is s and a new loop_start, q is p and its address. *)
Opens(s, n, p, m, t, q) ==
  /\ Len(t) = n + 1 /\ t[n + 1] = Op("loop_start", 0)
  /\ \A i \in 1..n : t[i] = s[i]
  /\ Len(q) = m + 1 /\ q[m + 1] = n
  /\ \A k \in 1..m : q[k] = p[k]

(* t is s with the loop at the top of p patched and its loop_end behind it, *)
(* q is p without its top.                                                 *)
Closes(s, n, p, m, addr, delta, t, q) ==
  /\ m > 0 /\ addr = p[m] /\ delta = n - addr
  /\ Len(t) = n + 1 /\ t[n + 1] = Op("loop_end", -delta)
  /\ t[addr + 1] = Op("loop_start", delta)
  /\ \A i \in 1..n : i # addr + 1 => t[i] = s[i]
  /\ Len(q) = m - 1 /\ \A k \in 1..(m - 1) : q[k] = p[k]

---------------------------------------------------------------------------
(* vec_push of a read, a write, or a tape or cell operation that the last *)
(* operation cannot absorb, keeps the loop invariants.                    *)
LEMMA PushKeeps ==
  ASSUME NEW s, NEW n \in Nat, Len(s) = n, \A i \in 1..n : s[i].arg \in Int,
         NEW p, NEW m \in Nat, Len(p) = m, \A k \in 1..m : p[k] \in Nat,
         LoopInv(s, p),
         NEW op, op.kind \notin {"loop_start", "loop_end", "halt", "set"},
         op.kind \in {"tape", "cell"} /\ n > 0 => s[n].kind # op.kind,
         NEW t, Len(t) = n + 1, t[n + 1] = op, \A i \in 1..n : t[i] = s[i]
  PROVE  LoopInv(t, p)
<1>1. StackIsOpen(s, p) /\ LoopsMatched(s) /\ LoopsNested(s)
      /\ OpenOutside(s, p) /\ RunsMerged(s) /\ OnlyParsed(s)
  BY DEF LoopInv
<1>2. StackIsOpen(t, p)
  BY <1>1, OpFields, SMTT(30) DEF StackIsOpen
<1>3. LoopsMatched(t)
  BY <1>1 DEF LoopsMatched, IsClosed
<1>4. LoopsNested(t)
  <2>1. \A i \in 1..(n + 1) : IsClosed(t, i) => i \in 1..n /\ IsClosed(s, i) /\ t[i] = s[i]
    BY DEF IsClosed
  <2>2. ASSUME NEW i \in 1..(n + 1), NEW j \in 1..(n + 1),
               IsClosed(t, i), IsClosed(t, j), i < j, j < i + t[i].arg
        PROVE  j + t[j].arg < i + t[i].arg
    <3>1. /\ i \in 1..n /\ IsClosed(s, i) /\ t[i] = s[i]
          /\ j \in 1..n /\ IsClosed(s, j) /\ t[j] = s[j]
      BY <2>1, <2>2
    <3> QED BY <1>1, <2>2, <3>1 DEF LoopsNested
  <2> QED BY <2>2 DEF LoopsNested
<1>5. OpenOutside(t, p)
  BY <1>1, SMTT(30) DEF OpenOutside, IsClosed
<1>6. RunsMerged(t)
  BY <1>1 DEF RunsMerged
<1>7. OnlyParsed(t)
  BY <1>1 DEF OnlyParsed
<1> QED BY <1>2, <1>3, <1>4, <1>5, <1>6, <1>7 DEF LoopInv

(* vec_last(ctx).arg += count (or -= count) on a tape or cell operation *)
(* keeps the loop invariants.                                           *)
LEMMA MergeKeeps ==
  ASSUME NEW s, NEW n \in Nat \ {0}, Len(s) = n, \A i \in 1..n : s[i].arg \in Int,
         NEW p, NEW m \in Nat, Len(p) = m, \A k \in 1..m : p[k] \in Nat,
         LoopInv(s, p),
         s[n].kind \in {"tape", "cell"},
         NEW t, Len(t) = n, t[n].kind = s[n].kind, \A i \in 1..(n - 1) : t[i] = s[i]
  PROVE  LoopInv(t, p)
<1>1. StackIsOpen(s, p) /\ LoopsMatched(s) /\ LoopsNested(s)
      /\ OpenOutside(s, p) /\ RunsMerged(s) /\ OnlyParsed(s)
  BY DEF LoopInv
<1>2. /\ \A i \in 1..n : t[i].kind = s[i].kind
      /\ \A i \in 1..n : s[i].kind \in {"loop_start", "loop_end"} => t[i] = s[i]
  OBVIOUS
<1>3. StackIsOpen(t, p)
  BY <1>1, <1>2, OpFields, SMTT(30) DEF StackIsOpen
<1>4. LoopsMatched(t)
  BY <1>1, <1>2, OpFields, SMTT(30) DEF LoopsMatched, IsClosed
<1>5. LoopsNested(t)
  BY <1>1, <1>2 DEF LoopsNested, IsClosed
<1>6. OpenOutside(t, p)
  BY <1>1, <1>2 DEF OpenOutside, IsClosed
<1>7. RunsMerged(t)
  BY <1>1, <1>2 DEF RunsMerged
<1>8. OnlyParsed(t)
  BY <1>1, <1>2 DEF OnlyParsed
<1> QED BY <1>3, <1>4, <1>5, <1>6, <1>7, <1>8 DEF LoopInv

(* Pushing a loop_start and its address keeps the loop invariants. *)
LEMMA LoopStartKeeps ==
  ASSUME NEW s, NEW n \in Nat, NEW p, NEW m \in Nat, Arrays(s, n, p, m), LoopInv(s, p),
         NEW t, NEW q, Opens(s, n, p, m, t, q)
  PROVE  LoopInv(t, q)
<1>s. Len(s) = n /\ \A i \in 1..n : s[i].arg \in Int
  BY DEF Arrays
<1>p. Len(p) = m /\ \A k \in 1..m : p[k] \in Nat
  BY DEF Arrays
<1>t. Len(t) = n + 1 /\ t[n + 1] = Op("loop_start", 0) /\ \A i \in 1..n : t[i] = s[i]
  BY DEF Opens
<1>q. Len(q) = m + 1 /\ q[m + 1] = n /\ \A k \in 1..m : q[k] = p[k]
  BY DEF Opens
<1>new. t[n + 1].kind = "loop_start" /\ t[n + 1].arg = 0
  BY <1>t, OpFields
<1>1. StackIsOpen(t, q)
  <2>0. StackIsOpen(s, p)
    BY DEF LoopInv
  <2>1. ASSUME NEW k \in 1..(m + 1)
        PROVE  q[k] < n + 1 /\ t[q[k] + 1] = Op("loop_start", 0)
    <3>1. CASE k = m + 1
      BY <1>t, <1>q, <3>1
    <3>2. CASE k # m + 1
      <4>1. k \in 1..m /\ q[k] = p[k] /\ p[k] \in Nat
        BY <1>p, <1>q, <3>2
      <4>2. p[k] < n /\ s[p[k] + 1] = Op("loop_start", 0)
        BY <1>s, <1>p, <2>0, <4>1 DEF StackIsOpen
      <4>3. p[k] + 1 \in 1..n
        BY <4>1, <4>2
      <4> QED BY <1>t, <4>1, <4>2, <4>3
    <3> QED BY <3>1, <3>2
  <2>2. ASSUME NEW j \in 1..(m + 1), NEW k \in 1..(m + 1), j < k
        PROVE  q[j] < q[k]
    <3>1. j \in 1..m /\ q[j] = p[j]
      BY <1>q, <2>2
    <3>2. p[j] < n
      BY <1>s, <1>p, <2>0, <3>1 DEF StackIsOpen
    <3>3. CASE k = m + 1
      BY <1>q, <3>1, <3>2, <3>3
    <3>4. CASE k # m + 1
      <4>1. k \in 1..m /\ q[k] = p[k]
        BY <1>q, <3>4
      <4> QED BY <1>p, <2>0, <2>2, <3>1, <4>1 DEF StackIsOpen
    <3> QED BY <3>3, <3>4
  <2>3. ASSUME NEW i \in 1..(n + 1), t[i] = Op("loop_start", 0)
        PROVE  \E k \in 1..(m + 1) : q[k] = i - 1
    <3>1. CASE i = n + 1
      BY <1>q, <3>1
    <3>2. CASE i # n + 1
      <4>1. i \in 1..n /\ s[i] = Op("loop_start", 0)
        BY <1>t, <2>3, <3>2
      <4>2. PICK k \in 1..m : p[k] = i - 1
        BY <1>s, <1>p, <2>0, <4>1 DEF StackIsOpen
      <4> QED BY <1>q, <4>2
    <3> QED BY <3>1, <3>2
  <2> QED BY <1>t, <1>q, <2>1, <2>2, <2>3 DEF StackIsOpen
<1>2. \A i \in 1..(n + 1) : IsClosed(t, i) => i \in 1..n /\ IsClosed(s, i) /\ t[i] = s[i]
  <2> SUFFICES ASSUME NEW i \in 1..(n + 1), IsClosed(t, i)
               PROVE  i \in 1..n /\ IsClosed(s, i) /\ t[i] = s[i]
    OBVIOUS
  <2>1. i # n + 1
    BY <1>new DEF IsClosed
  <2>2. i \in 1..n /\ t[i] = s[i]
    BY <1>t, <2>1
  <2> QED BY <2>2 DEF IsClosed
<1>3. LoopsMatched(t)
  <2>0. LoopsMatched(s)
    BY DEF LoopInv
  <2>1. ASSUME NEW i \in 1..(n + 1), IsClosed(t, i)
        PROVE  /\ t[i].arg > 0
               /\ i + t[i].arg <= n + 1
               /\ t[i + t[i].arg] = Op("loop_end", -t[i].arg)
    <3>1. i \in 1..n /\ IsClosed(s, i) /\ t[i] = s[i]
      BY <1>2, <2>1
    <3>2. /\ s[i].arg > 0
          /\ i + s[i].arg <= n
          /\ s[i + s[i].arg] = Op("loop_end", -s[i].arg)
      BY <1>s, <2>0, <3>1 DEF LoopsMatched
    <3>3. s[i].arg \in Int /\ i + s[i].arg \in 1..n
      BY <1>s, <3>1, <3>2
    <3>4. t[i + s[i].arg] = s[i + s[i].arg]
      BY <1>t, <3>3
    <3> QED BY <3>1, <3>2, <3>3, <3>4
  <2>2. ASSUME NEW i \in 1..(n + 1), t[i].kind = "loop_end"
        PROVE  /\ t[i].arg < 0
               /\ i + t[i].arg >= 1
               /\ t[i + t[i].arg] = Op("loop_start", -t[i].arg)
    <3>1. i \in 1..n /\ t[i] = s[i]
      BY <1>t, <1>new, <2>2
    <3>2. /\ s[i].arg < 0
          /\ i + s[i].arg >= 1
          /\ s[i + s[i].arg] = Op("loop_start", -s[i].arg)
      BY <1>s, <2>0, <2>2, <3>1 DEF LoopsMatched
    <3>3. s[i].arg \in Int /\ i + s[i].arg \in 1..n
      BY <1>s, <3>1, <3>2
    <3>4. t[i + s[i].arg] = s[i + s[i].arg]
      BY <1>t, <3>3
    <3> QED BY <3>1, <3>2, <3>3, <3>4
  <2> QED BY <1>t, <2>1, <2>2 DEF LoopsMatched
<1>4. LoopsNested(t)
  <2>0. LoopsNested(s)
    BY DEF LoopInv
  <2>1. ASSUME NEW i \in 1..(n + 1), NEW j \in 1..(n + 1),
               IsClosed(t, i), IsClosed(t, j), i < j, j < i + t[i].arg
        PROVE  j + t[j].arg < i + t[i].arg
    <3>1. /\ i \in 1..n /\ IsClosed(s, i) /\ t[i] = s[i]
          /\ j \in 1..n /\ IsClosed(s, j) /\ t[j] = s[j]
      BY <1>2, <2>1
    <3> QED BY <1>s, <2>0, <2>1, <3>1 DEF LoopsNested
  <2> QED BY <1>t, <2>1 DEF LoopsNested
<1>5. OpenOutside(t, q)
  <2>0. OpenOutside(s, p) /\ LoopsMatched(s)
    BY DEF LoopInv
  <2>1. ASSUME NEW k \in 1..(m + 1), NEW i \in 1..(n + 1), IsClosed(t, i),
               i <= q[k] + 1, q[k] + 1 <= i + t[i].arg
        PROVE  FALSE
    <3>1. i \in 1..n /\ IsClosed(s, i) /\ t[i] = s[i] /\ s[i].arg \in Int
      BY <1>s, <1>2, <2>1
    <3>2. i + s[i].arg <= n
      BY <1>s, <2>0, <3>1 DEF LoopsMatched
    <3>3. CASE k = m + 1
      BY <1>q, <2>1, <3>1, <3>2, <3>3
    <3>4. CASE k # m + 1
      <4>1. k \in 1..m /\ q[k] = p[k]
        BY <1>q, <3>4
      <4> QED BY <1>s, <1>p, <2>0, <2>1, <3>1, <4>1 DEF OpenOutside
    <3> QED BY <3>3, <3>4
  <2> QED BY <1>t, <1>q, <2>1 DEF OpenOutside
<1>6. RunsMerged(t)
  <2>0. RunsMerged(s)
    BY DEF LoopInv
  <2>1. ASSUME NEW i \in 1..n, t[i].kind \in {"tape", "cell"}
        PROVE  t[i + 1].kind # t[i].kind
    <3>1. CASE i = n
      BY <1>new, <2>1, <3>1
    <3>2. CASE i # n
      <4>1. i \in 1..(n - 1) /\ t[i] = s[i] /\ t[i + 1] = s[i + 1]
        BY <1>t, <3>2
      <4> QED BY <1>s, <2>0, <2>1, <4>1 DEF RunsMerged
    <3> QED BY <3>1, <3>2
  <2>2. (n + 1) - 1 = n
    OBVIOUS
  <2> QED BY <1>t, <2>1, <2>2 DEF RunsMerged
<1>7. OnlyParsed(t)
  <2>0. OnlyParsed(s)
    BY DEF LoopInv
  <2>1. ASSUME NEW i \in 1..(n + 1) PROVE t[i].kind \notin {"halt", "set"}
    <3>1. CASE i = n + 1
      BY <1>new, <3>1
    <3>2. CASE i # n + 1
      BY <1>s, <1>t, <2>0, <3>2 DEF OnlyParsed
    <3> QED BY <3>1, <3>2
  <2> QED BY <1>t, <2>1 DEF OnlyParsed
<1> QED BY <1>1, <1>3, <1>4, <1>5, <1>6, <1>7 DEF LoopInv

(* Patching the loop at the top of the stack and pushing its loop_end keeps *)
(* the loop invariants.                                                    *)
LEMMA LoopEndKeeps ==
  ASSUME NEW s, NEW n \in Nat, NEW p, NEW m \in Nat, Arrays(s, n, p, m), LoopInv(s, p),
         NEW addr \in Nat, NEW delta \in Int,
         NEW t, NEW q, Closes(s, n, p, m, addr, delta, t, q)
  PROVE  LoopInv(t, q)
<1>s. Len(s) = n /\ \A i \in 1..n : s[i].arg \in Int
  BY DEF Arrays
<1>p. Len(p) = m /\ \A k \in 1..m : p[k] \in Nat
  BY DEF Arrays
<1>m. m > 0 /\ addr = p[m] /\ delta = n - addr
  BY DEF Closes
<1>t. /\ Len(t) = n + 1
      /\ t[n + 1] = Op("loop_end", -delta)
      /\ t[addr + 1] = Op("loop_start", delta)
  BY DEF Closes
<1>u. \A i \in 1..n : i # addr + 1 => t[i] = s[i]
  BY DEF Closes
<1>q. Len(q) = m - 1 /\ \A k \in 1..(m - 1) : q[k] = p[k]
  BY DEF Closes
<1>o. StackIsOpen(s, p)
  BY DEF LoopInv
<1>a. addr < n /\ s[addr + 1] = Op("loop_start", 0) /\ addr + 1 \in 1..n
  <2>1. m \in 1..m
    BY <1>m
  <2> QED BY <1>s, <1>p, <1>m, <1>o, <2>1 DEF StackIsOpen
<1>d. delta > 0 /\ addr + 1 + delta = n + 1
  BY <1>m, <1>a
<1>b. \A k \in 1..(m - 1) : p[k] \in Nat /\ p[k] < addr
  <2> SUFFICES ASSUME NEW k \in 1..(m - 1) PROVE p[k] \in Nat /\ p[k] < addr
    OBVIOUS
  <2>1. k \in 1..m /\ m \in 1..m /\ k < m
    BY <1>m
  <2> QED BY <1>p, <1>m, <1>o, <2>1 DEF StackIsOpen
<1>f. /\ t[n + 1].kind = "loop_end" /\ t[n + 1].arg = -delta
      /\ t[addr + 1].kind = "loop_start" /\ t[addr + 1].arg = delta
      /\ s[addr + 1].kind = "loop_start" /\ s[addr + 1].arg = 0
  BY <1>t, <1>a, OpFields
<1>1. StackIsOpen(t, q)
  <2>1. ASSUME NEW k \in 1..(m - 1)
        PROVE  q[k] < n + 1 /\ t[q[k] + 1] = Op("loop_start", 0)
    <3>1. k \in 1..m /\ q[k] = p[k] /\ p[k] \in Nat /\ p[k] < addr
      BY <1>q, <1>b
    <3>2. p[k] < n /\ s[p[k] + 1] = Op("loop_start", 0)
      BY <1>s, <1>p, <1>o, <3>1 DEF StackIsOpen
    <3>3. p[k] + 1 \in 1..n /\ p[k] + 1 # addr + 1
      BY <3>1, <3>2
    <3> QED BY <1>u, <3>1, <3>2, <3>3
  <2>2. ASSUME NEW j \in 1..(m - 1), NEW k \in 1..(m - 1), j < k
        PROVE  q[j] < q[k]
    <3>1. j \in 1..m /\ k \in 1..m /\ q[j] = p[j] /\ q[k] = p[k]
      BY <1>q
    <3> QED BY <1>p, <1>o, <2>2, <3>1 DEF StackIsOpen
  <2>3. ASSUME NEW i \in 1..(n + 1), t[i] = Op("loop_start", 0)
        PROVE  \E k \in 1..(m - 1) : q[k] = i - 1
    <3>1. t[i].kind = "loop_start" /\ t[i].arg = 0
      BY <2>3, OpFields
    <3>2. i \in 1..n /\ i # addr + 1
      BY <1>f, <1>d, <3>1
    <3>3. s[i] = Op("loop_start", 0)
      BY <1>u, <2>3, <3>2
    <3>4. PICK k \in 1..m : p[k] = i - 1
      BY <1>s, <1>p, <1>o, <3>2, <3>3 DEF StackIsOpen
    <3>5. k # m
      BY <1>m, <3>2, <3>4
    <3>6. k \in 1..(m - 1)
      BY <3>5
    <3> QED BY <1>q, <3>4, <3>6
  <2> QED BY <1>t, <1>q, <2>1, <2>2, <2>3 DEF StackIsOpen
<1>2. \A i \in 1..(n + 1) : IsClosed(t, i) =>
         i = addr + 1 \/ (i \in 1..n /\ i # addr + 1 /\ IsClosed(s, i) /\ t[i] = s[i])
  <2> SUFFICES ASSUME NEW i \in 1..(n + 1), IsClosed(t, i), i # addr + 1
               PROVE  i \in 1..n /\ IsClosed(s, i) /\ t[i] = s[i]
    OBVIOUS
  <2>1. i # n + 1
    BY <1>f DEF IsClosed
  <2>2. i \in 1..n /\ t[i] = s[i]
    BY <1>u, <2>1
  <2> QED BY <2>2 DEF IsClosed
<1>3. LoopsMatched(s)
  BY DEF LoopInv
<1>4. ASSUME NEW i \in 1..n, IsClosed(s, i)
      PROVE  /\ s[i].arg \in Int /\ s[i].arg > 0 /\ i + s[i].arg \in 1..n
             /\ s[i + s[i].arg] = Op("loop_end", -s[i].arg)
  <2>1. /\ s[i].arg > 0
        /\ i + s[i].arg <= n
        /\ s[i + s[i].arg] = Op("loop_end", -s[i].arg)
    BY <1>s, <1>3, <1>4 DEF LoopsMatched
  <2> QED BY <1>s, <2>1
<1>5. LoopsMatched(t)
  <2>1. ASSUME NEW i \in 1..(n + 1), IsClosed(t, i)
        PROVE  /\ t[i].arg > 0
               /\ i + t[i].arg <= n + 1
               /\ t[i + t[i].arg] = Op("loop_end", -t[i].arg)
    <3>1. CASE i = addr + 1
      BY <1>t, <1>d, <1>f, <3>1
    <3>2. CASE i # addr + 1
      <4>1. i \in 1..n /\ IsClosed(s, i) /\ t[i] = s[i]
        BY <1>2, <2>1, <3>2
      <4>2. /\ s[i].arg \in Int /\ s[i].arg > 0 /\ i + s[i].arg \in 1..n
            /\ s[i + s[i].arg] = Op("loop_end", -s[i].arg)
        BY <1>4, <4>1
      <4>3. s[i + s[i].arg].kind = "loop_end"
        BY <4>2, OpFields
      <4>4. i + s[i].arg # addr + 1
        BY <1>f, <4>3
      <4>5. t[i + s[i].arg] = s[i + s[i].arg]
        BY <1>u, <4>2, <4>4
      <4> QED BY <4>1, <4>2, <4>5
    <3> QED BY <3>1, <3>2
  <2>2. ASSUME NEW i \in 1..(n + 1), t[i].kind = "loop_end"
        PROVE  /\ t[i].arg < 0
               /\ i + t[i].arg >= 1
               /\ t[i + t[i].arg] = Op("loop_start", -t[i].arg)
    <3>1. CASE i = n + 1
      <4>1. t[i].arg = -delta /\ i + -delta = addr + 1 /\ -(-delta) = delta
        BY <1>d, <1>f, <3>1
      <4> QED BY <1>t, <1>d, <4>1
    <3>2. CASE i # n + 1
      <4>1. i # addr + 1 /\ i \in 1..n
        BY <1>f, <2>2, <3>2
      <4>2. t[i] = s[i]
        BY <1>u, <4>1
      <4>3. /\ s[i].arg < 0
            /\ i + s[i].arg >= 1
            /\ s[i + s[i].arg] = Op("loop_start", -s[i].arg)
        BY <1>s, <1>3, <2>2, <4>1, <4>2 DEF LoopsMatched
      <4>4. s[i].arg \in Int /\ i + s[i].arg \in 1..n
        BY <1>s, <4>1, <4>3
      <4>5. s[i + s[i].arg].arg = -s[i].arg
        BY <4>3, OpFields
      <4>6. i + s[i].arg # addr + 1
        BY <1>f, <4>3, <4>4, <4>5
      <4>7. t[i + s[i].arg] = s[i + s[i].arg]
        BY <1>u, <4>4, <4>6
      <4> QED BY <4>2, <4>3, <4>4, <4>7
    <3> QED BY <3>1, <3>2
  <2> QED BY <1>t, <2>1, <2>2 DEF LoopsMatched
<1>6. OpenOutside(s, p)
  BY DEF LoopInv
<1>7. LoopsNested(t)
  <2>0. LoopsNested(s)
    BY DEF LoopInv
  <2>1. ASSUME NEW i \in 1..(n + 1), NEW j \in 1..(n + 1),
               IsClosed(t, i), IsClosed(t, j), i < j, j < i + t[i].arg
        PROVE  j + t[j].arg < i + t[i].arg
    <3>1. CASE j = addr + 1
      <4>1. i \in 1..n /\ IsClosed(s, i) /\ t[i] = s[i]
        BY <1>2, <2>1, <3>1
      <4>2. s[i].arg \in Int
        BY <1>4, <4>1
      <4>3. m \in 1..m /\ i <= p[m] + 1 /\ p[m] + 1 <= i + s[i].arg
        BY <1>m, <2>1, <3>1, <4>1, <4>2
      <4> QED BY <1>s, <1>p, <1>6, <4>1, <4>3 DEF OpenOutside
    <3>2. CASE j # addr + 1
      <4>1. j \in 1..n /\ IsClosed(s, j) /\ t[j] = s[j]
        BY <1>2, <2>1, <3>2
      <4>2. s[j].arg \in Int /\ j + s[j].arg <= n
        BY <1>4, <4>1
      <4>3. CASE i = addr + 1
        BY <1>d, <1>f, <4>1, <4>2, <4>3
      <4>4. CASE i # addr + 1
        <5>1. i \in 1..n /\ IsClosed(s, i) /\ t[i] = s[i]
          BY <1>2, <2>1, <4>4
        <5> QED BY <1>s, <2>0, <2>1, <4>1, <5>1 DEF LoopsNested
      <4> QED BY <4>3, <4>4
    <3> QED BY <3>1, <3>2
  <2> QED BY <1>t, <2>1 DEF LoopsNested
<1>8. OpenOutside(t, q)
  <2>1. ASSUME NEW k \in 1..(m - 1), NEW i \in 1..(n + 1), IsClosed(t, i),
               i <= q[k] + 1, q[k] + 1 <= i + t[i].arg
        PROVE  FALSE
    <3>1. k \in 1..m /\ q[k] = p[k] /\ p[k] \in Nat /\ p[k] < addr
      BY <1>q, <1>b
    <3>2. i # addr + 1
      BY <2>1, <3>1
    <3>3. i \in 1..n /\ IsClosed(s, i) /\ t[i] = s[i]
      BY <1>2, <2>1, <3>2
    <3> QED BY <1>s, <1>p, <1>6, <2>1, <3>1, <3>3 DEF OpenOutside
  <2> QED BY <1>t, <1>q, <2>1 DEF OpenOutside
<1>9. ASSUME NEW i \in 1..n PROVE t[i].kind = s[i].kind
  <2>1. CASE i = addr + 1
    BY <1>f, <2>1
  <2>2. CASE i # addr + 1
    BY <1>u, <2>2
  <2> QED BY <2>1, <2>2
<1>10. RunsMerged(t)
  <2>0. RunsMerged(s)
    BY DEF LoopInv
  <2>1. ASSUME NEW i \in 1..n, t[i].kind \in {"tape", "cell"}
        PROVE  t[i + 1].kind # t[i].kind
    <3>1. CASE i = n
      BY <1>f, <2>1, <3>1
    <3>2. CASE i # n
      <4>1. i \in 1..(n - 1) /\ t[i].kind = s[i].kind /\ t[i + 1].kind = s[i + 1].kind
        BY <1>9, <3>2
      <4> QED BY <1>s, <2>0, <2>1, <4>1 DEF RunsMerged
    <3> QED BY <3>1, <3>2
  <2>2. (n + 1) - 1 = n
    OBVIOUS
  <2> QED BY <1>t, <2>1, <2>2 DEF RunsMerged
<1>11. OnlyParsed(t)
  <2>0. OnlyParsed(s)
    BY DEF LoopInv
  <2>1. ASSUME NEW i \in 1..(n + 1) PROVE t[i].kind \notin {"halt", "set"}
    <3>1. CASE i = n + 1
      BY <1>f, <3>1
    <3>2. CASE i # n + 1
      <4>1. i \in 1..n /\ t[i].kind = s[i].kind
        BY <1>9, <3>2
      <4> QED BY <1>s, <2>0, <4>1 DEF OnlyParsed
    <3> QED BY <3>1, <3>2
  <2> QED BY <1>t, <2>1 DEF OnlyParsed
<1> QED BY <1>1, <1>5, <1>7, <1>8, <1>10, <1>11 DEF LoopInv

---------------------------------------------------------------------------
(* The type invariant, for the arrays the lemmas above are about. *)
LEMMA ArrayFacts ==
  ASSUME TypeOK
  PROVE  /\ Len(ir) \in Nat
         /\ \A i \in 1..Len(ir) : ir[i].arg \in Int
         /\ Len(patch) \in Nat
         /\ \A k \in 1..Len(patch) : patch[k] \in Nat
<1>1. ir \in Seq(OpType)
  BY DEF TypeOK
<1>2. patch \in Seq(Nat)
  BY DEF TypeOK
<1>3. \A i \in 1..Len(ir) : ir[i].arg \in Int
  <2>1. \A op \in OpType : op.arg \in Int
    BY DEF OpType
  <2>2. \A i \in 1..Len(ir) : ir[i] \in OpType
    BY <1>1
  <2> QED BY <2>1, <2>2
<1> QED BY <1>1, <1>2, <1>3

(* Appending an operation to the IR. *)
LEMMA AppendOp ==
  ASSUME NEW s \in Seq(OpType), NEW op \in OpType, NEW t, t = Append(s, op)
  PROVE  /\ t \in Seq(OpType)
         /\ Len(t) = Len(s) + 1
         /\ t[Len(s) + 1] = op
         /\ \A i \in 1..Len(s) : t[i] = s[i]
OBVIOUS

(* Adding to the argument of the last operation. *)
LEMMA AddToLast ==
  ASSUME NEW s \in Seq(OpType), Len(s) > 0, NEW delta \in Int,
         NEW t, t = [s EXCEPT ![Len(s)].arg = @ + delta]
  PROVE  /\ t \in Seq(OpType)
         /\ Len(t) = Len(s)
         /\ t[Len(s)].kind = s[Len(s)].kind
         /\ \A i \in 1..(Len(s) - 1) : t[i] = s[i]
<1>1. s[Len(s)] \in OpType
  OBVIOUS
<1> DEFINE op == [s[Len(s)] EXCEPT !.arg = @ + delta]
<1>2. op \in OpType /\ op.kind = s[Len(s)].kind
  BY <1>1, SMTT(30) DEF OpType
<1>3. t = [s EXCEPT ![Len(s)] = op]
  OBVIOUS
<1> HIDE DEF op
<1>4. t \in Seq(OpType) /\ Len(t) = Len(s) /\ t[Len(s)] = op
  BY <1>2, <1>3
<1>5. \A i \in 1..(Len(s) - 1) : t[i] = s[i]
  BY <1>3
<1> QED BY <1>2, <1>4, <1>5

(* Patching the loop_start at address addr and pushing its loop_end. *)
LEMMA PatchAndPush ==
  ASSUME NEW s \in Seq(OpType), NEW addr \in 0..(Len(s) - 1), NEW delta \in Int,
         NEW t, t = Append([s EXCEPT ![addr + 1] = Op("loop_start", delta)],
                           Op("loop_end", -delta))
  PROVE  /\ t \in Seq(OpType)
         /\ Len(t) = Len(s) + 1
         /\ t[Len(s) + 1] = Op("loop_end", -delta)
         /\ t[addr + 1] = Op("loop_start", delta)
         /\ \A i \in 1..Len(s) : i # addr + 1 => t[i] = s[i]
<1> DEFINE u == [s EXCEPT ![addr + 1] = Op("loop_start", delta)]
<1>1. Op("loop_start", delta) \in OpType /\ Op("loop_end", -delta) \in OpType
  BY DEF OpType, Op, Kind
<1>2. /\ u \in Seq(OpType)
      /\ Len(u) = Len(s)
      /\ u[addr + 1] = Op("loop_start", delta)
      /\ \A i \in 1..Len(s) : i # addr + 1 => u[i] = s[i]
  BY <1>1
<1>3. t = Append(u, Op("loop_end", -delta))
  OBVIOUS
<1> HIDE DEF u
<1> QED BY <1>1, <1>2, <1>3

(* Pushing a number. *)
LEMMA AppendNat ==
  ASSUME NEW s \in Seq(Nat), NEW e \in Nat, NEW t, t = Append(s, e)
  PROVE  /\ t \in Seq(Nat)
         /\ Len(t) = Len(s) + 1
         /\ t[Len(s) + 1] = e
         /\ \A i \in 1..Len(s) : t[i] = s[i]
OBVIOUS

(* A part of a sequence: what fread returns, and the stack without its top. *)
LEMMA SubSeqFacts ==
  ASSUME NEW S, NEW s \in Seq(S), NEW a \in 1..(Len(s) + 1), NEW b \in (a - 1)..Len(s)
  PROVE  /\ SubSeq(s, a, b) \in Seq(S)
         /\ Len(SubSeq(s, a, b)) = b - a + 1
         /\ \A i \in 1..(b - a + 1) : SubSeq(s, a, b)[i] = s[a + i - 1]
<1>1. \A i \in 1..Len(s) : s[i] \in S
  OBVIOUS
<1>2. SubSeq(s, a, b) = [i \in 1..(b - a + 1) |-> s[a + i - 1]]
  OBVIOUS
<1>3. b - a + 1 \in Nat
  OBVIOUS
<1>4. \A i \in 1..(b - a + 1) : s[a + i - 1] \in S
  BY <1>1
<1> QED BY <1>2, <1>3, <1>4

---------------------------------------------------------------------------
(* A run of ',' or '.'. *)
LEMMA PushRunKeeps ==
  ASSUME IInv, NEW c, NEW kind \in {"read", "write"}, PushRun(c, kind)
  PROVE  IInv'
<1>1. TypeOK /\ LoopInv(ir, patch)
  BY IInvSplit
<1>2. PICK count \in 1..(Len(buffer) - ptr) : Push(kind, count) /\ ptr' = ptr + count
  BY DEF PushRun
<1>3. UNCHANGED <<file, fpos, buffer, patch, pc>>
  BY DEF PushRun
<1>4. /\ ir \in Seq(OpType) /\ src \in Seq(Nat) /\ Len(src) = Len(ir)
      /\ fpos \in Nat /\ Len(buffer) \in Nat /\ Len(buffer) <= fpos /\ ptr \in 0..Len(buffer)
  BY <1>1 DEF TypeOK
<1>5. ir' = Append(ir, Op(kind, count)) /\ src' = Append(src, Offset)
  BY <1>2 DEF Push
<1>6. Op(kind, count) \in OpType /\ Offset \in Nat
  BY <1>4 DEF Op, OpType, Kind, Offset
<1>7. /\ ir' \in Seq(OpType)
      /\ Len(ir') = Len(ir) + 1
      /\ ir'[Len(ir) + 1] = Op(kind, count)
      /\ \A i \in 1..Len(ir) : ir'[i] = ir[i]
  BY <1>4, <1>5, <1>6, AppendOp
<1>8. src' \in Seq(Nat) /\ Len(src') = Len(ir')
  BY <1>4, <1>5, <1>6, <1>7
<1>9. TypeOK'
  BY <1>1, <1>2, <1>3, <1>4, <1>7, <1>8 DEF TypeOK
<1>10. LoopInv(ir', patch)
  <2>1. Op(kind, count).kind = kind
    BY OpFields
  <2> QED BY <1>1, <1>7, <2>1, ArrayFacts, PushKeeps
<1> QED BY <1>3, <1>9, <1>10, IInvJoin

(* A run of '+', '-', '>' or '<', merged or pushed. *)
LEMMA AddRunKeeps ==
  ASSUME IInv, NEW c, NEW kind \in {"tape", "cell"}, NEW sign \in {1, -1}, AddRun(c, kind, sign)
  PROVE  IInv'
<1>1. TypeOK /\ LoopInv(ir, patch)
  BY IInvSplit
<1>2. PICK count \in 1..(Len(buffer) - ptr) :
        /\ IF LastIs(kind) THEN MergeLast(sign * count) ELSE Push(kind, sign * count)
        /\ ptr' = ptr + count
  BY DEF AddRun
<1>3. UNCHANGED <<file, fpos, buffer, patch, pc>>
  BY DEF AddRun
<1>4. /\ ir \in Seq(OpType) /\ src \in Seq(Nat) /\ Len(src) = Len(ir)
      /\ fpos \in Nat /\ Len(buffer) \in Nat /\ Len(buffer) <= fpos /\ ptr \in 0..Len(buffer)
  BY <1>1 DEF TypeOK
<1>5. sign * count \in Int
  BY <1>4
<1>6. CASE LastIs(kind)
  <2>1. ir' = [ir EXCEPT ![Len(ir)].arg = @ + sign * count] /\ src' = src
    BY <1>2, <1>6 DEF MergeLast
  <2>2. Len(ir) > 0 /\ ir[Len(ir)].kind = kind
    BY <1>6 DEF LastIs
  <2>3. /\ ir' \in Seq(OpType)
        /\ Len(ir') = Len(ir)
        /\ ir'[Len(ir)].kind = ir[Len(ir)].kind
        /\ \A i \in 1..(Len(ir) - 1) : ir'[i] = ir[i]
    <3> DEFINE d == sign * count
    <3>1. d \in Int /\ ir' = [ir EXCEPT ![Len(ir)].arg = @ + d]
      BY <1>5, <2>1
    <3> HIDE DEF d
    <3>2. \A t : t = [ir EXCEPT ![Len(ir)].arg = @ + d]
                => /\ t \in Seq(OpType)
                   /\ Len(t) = Len(ir)
                   /\ t[Len(ir)].kind = ir[Len(ir)].kind
                   /\ \A i \in 1..(Len(ir) - 1) : t[i] = ir[i]
      BY <1>4, <2>2, <3>1, AddToLast
    <3> QED BY <3>1, <3>2, Zenon
  <2>4. TypeOK'
    BY <1>1, <1>2, <1>3, <1>4, <2>1, <2>3 DEF TypeOK
  <2>5. LoopInv(ir', patch)
    <3>1. Len(ir) \in Nat \ {0} /\ ir[Len(ir)].kind \in {"tape", "cell"}
      BY <1>4, <2>2
    <3> QED BY <1>1, <2>3, <3>1, ArrayFacts, MergeKeeps
  <2> QED BY <1>3, <2>4, <2>5, IInvJoin
<1>7. CASE ~LastIs(kind)
  <2>1. ir' = Append(ir, Op(kind, sign * count)) /\ src' = Append(src, Offset)
    BY <1>2, <1>7 DEF Push
  <2>2. Op(kind, sign * count) \in OpType /\ Offset \in Nat
    BY <1>4, <1>5 DEF Op, OpType, Kind, Offset
  <2>3. /\ ir' \in Seq(OpType)
        /\ Len(ir') = Len(ir) + 1
        /\ ir'[Len(ir) + 1] = Op(kind, sign * count)
        /\ \A i \in 1..Len(ir) : ir'[i] = ir[i]
    BY <1>4, <2>1, <2>2, AppendOp
  <2>4. src' \in Seq(Nat) /\ Len(src') = Len(ir')
    BY <1>4, <2>1, <2>2, <2>3
  <2>5. TypeOK'
    BY <1>1, <1>2, <1>3, <1>4, <2>3, <2>4 DEF TypeOK
  <2>6. LoopInv(ir', patch)
    <3>1. Op(kind, sign * count).kind = kind
      BY OpFields
    <3>2. Len(ir) > 0 => ir[Len(ir)].kind # kind
      BY <1>7 DEF LastIs
    <3> QED BY <1>1, <2>3, <3>1, <3>2, ArrayFacts, PushKeeps
  <2> QED BY <1>3, <2>5, <2>6, IInvJoin
<1> QED BY <1>6, <1>7

(* '['. *)
LEMMA ParseLoopStartKeeps ==
  ASSUME IInv, ParseLoopStart
  PROVE  IInv'
<1>1. TypeOK /\ LoopInv(ir, patch)
  BY IInvSplit
<1>2. /\ ir' = Append(ir, Op("loop_start", 0))
      /\ src' = Append(src, Offset)
      /\ patch' = Append(patch, Len(ir))
      /\ ptr' = ptr + 1
      /\ ptr < Len(buffer)
      /\ UNCHANGED <<file, fpos, buffer, pc>>
  BY DEF ParseLoopStart, Push, At
<1>3. /\ ir \in Seq(OpType) /\ src \in Seq(Nat) /\ Len(src) = Len(ir) /\ patch \in Seq(Nat)
      /\ fpos \in Nat /\ Len(buffer) \in Nat /\ Len(buffer) <= fpos /\ ptr \in 0..Len(buffer)
  BY <1>1 DEF TypeOK
<1>4. Op("loop_start", 0) \in OpType /\ Offset \in Nat
  BY <1>3 DEF Op, OpType, Kind, Offset
<1>5. /\ ir' \in Seq(OpType)
      /\ Len(ir') = Len(ir) + 1
      /\ ir'[Len(ir) + 1] = Op("loop_start", 0)
      /\ \A i \in 1..Len(ir) : ir'[i] = ir[i]
  BY <1>2, <1>3, <1>4, AppendOp
<1>6. src' \in Seq(Nat) /\ Len(src') = Len(ir')
  BY <1>2, <1>3, <1>4, <1>5, AppendNat
<1>7. /\ patch' \in Seq(Nat)
      /\ Len(patch') = Len(patch) + 1
      /\ patch'[Len(patch) + 1] = Len(ir)
      /\ \A k \in 1..Len(patch) : patch'[k] = patch[k]
  BY <1>2, <1>3, AppendNat
<1>8. TypeOK'
  BY <1>1, <1>2, <1>3, <1>5, <1>6, <1>7 DEF TypeOK
<1>9. LoopInv(ir', patch')
  <2>1. /\ Len(ir) \in Nat /\ \A i \in 1..Len(ir) : ir[i].arg \in Int
        /\ Len(patch) \in Nat /\ \A k \in 1..Len(patch) : patch[k] \in Nat
    BY <1>1, ArrayFacts
  <2>2. Arrays(ir, Len(ir), patch, Len(patch))
    BY <2>1 DEF Arrays
  <2>3. Opens(ir, Len(ir), patch, Len(patch), ir', patch')
    BY <1>5, <1>7 DEF Opens
  <2> QED BY <1>1, <2>1, <2>2, <2>3, LoopStartKeeps
<1> QED BY <1>8, <1>9, IInvJoin

(* ']' that closes a loop. *)
LEMMA ParseLoopEndKeeps ==
  ASSUME IInv, ParseLoopEnd
  PROVE  IInv'
<1>1. TypeOK /\ LoopInv(ir, patch)
  BY IInvSplit
<1> DEFINE addr == patch[Len(patch)]
           delta == Len(ir) - addr
<1>2. /\ ir' = Append([ir EXCEPT ![addr + 1] = Op("loop_start", delta)],
                      Op("loop_end", -delta))
      /\ src' = Append(src, Offset)
      /\ patch' = SubSeq(patch, 1, Len(patch) - 1)
      /\ ptr' = ptr + 1
      /\ ptr < Len(buffer)
      /\ Len(patch) > 0
      /\ UNCHANGED <<file, fpos, buffer, pc>>
  BY DEF ParseLoopEnd, At, Innermost, Popped, Delta
<1>3. /\ ir \in Seq(OpType) /\ src \in Seq(Nat) /\ Len(src) = Len(ir) /\ patch \in Seq(Nat)
      /\ fpos \in Nat /\ Len(buffer) \in Nat /\ Len(buffer) <= fpos /\ ptr \in 0..Len(buffer)
  BY <1>1 DEF TypeOK
<1>4. addr \in Nat /\ addr < Len(ir)
  BY <1>1, <1>2, <1>3, SMTT(30) DEF LoopInv, StackIsOpen
<1>5. delta \in Int /\ delta = Len(ir) - addr /\ addr = patch[Len(patch)]
  BY <1>3, <1>4
<1>6. /\ patch' \in Seq(Nat)
      /\ Len(patch') = Len(patch) - 1
      /\ \A k \in 1..(Len(patch) - 1) : patch'[k] = patch[k]
  <2>1. 1 \in 1..(Len(patch) + 1) /\ Len(patch) - 1 \in (1 - 1)..Len(patch)
    BY <1>2, <1>3
  <2>2. /\ patch' \in Seq(Nat)
        /\ Len(patch') = (Len(patch) - 1) - 1 + 1
        /\ \A k \in 1..((Len(patch) - 1) - 1 + 1) : patch'[k] = patch[1 + k - 1]
    BY <1>2, <1>3, <2>1, SubSeqFacts
  <2>3. Len(patch) \in Nat /\ (Len(patch) - 1) - 1 + 1 = Len(patch) - 1
    BY <1>3
  <2>4. \A k \in 1..(Len(patch) - 1) : 1 + k - 1 = k
    BY <2>3
  <2> QED BY <2>2, <2>3, <2>4
<1> HIDE DEF addr, delta
<1>7. /\ ir' \in Seq(OpType)
      /\ Len(ir') = Len(ir) + 1
      /\ ir'[Len(ir) + 1] = Op("loop_end", -delta)
      /\ ir'[addr + 1] = Op("loop_start", delta)
      /\ \A i \in 1..Len(ir) : i # addr + 1 => ir'[i] = ir[i]
  <2>1. addr \in 0..(Len(ir) - 1)
    BY <1>3, <1>4
  <2>2. \A t : t = Append([ir EXCEPT ![addr + 1] = Op("loop_start", delta)],
                          Op("loop_end", -delta))
               => /\ t \in Seq(OpType)
                  /\ Len(t) = Len(ir) + 1
                  /\ t[Len(ir) + 1] = Op("loop_end", -delta)
                  /\ t[addr + 1] = Op("loop_start", delta)
                  /\ \A i \in 1..Len(ir) : i # addr + 1 => t[i] = ir[i]
    BY <1>3, <1>5, <2>1, PatchAndPush
  <2> QED BY <1>2, <2>2, Zenon
<1>8. src' \in Seq(Nat) /\ Len(src') = Len(ir')
  <2>1. Offset \in Nat
    BY <1>3 DEF Offset
  <2>2. \A t : t = Append(src, Offset)
              => /\ t \in Seq(Nat)
                 /\ Len(t) = Len(src) + 1
                 /\ t[Len(src) + 1] = Offset
                 /\ \A i \in 1..Len(src) : t[i] = src[i]
    BY <1>3, <2>1, AppendNat
  <2> QED BY <1>2, <1>3, <1>7, <2>2
<1>9. TypeOK'
  <2>1. /\ file' \in Seq(Char) /\ fpos' \in 0..Len(file') /\ buffer' \in Seq(Char)
        /\ Len(buffer') <= fpos' /\ pc' \in {"read", "parse", "parsed", "error"}
    BY <1>1, <1>2 DEF TypeOK
  <2>2. ptr' \in 0..Len(buffer')
    BY <1>2, <1>3
  <2> QED
    BY <1>6, <1>7, <1>8, <2>1, <2>2 DEF TypeOK
<1>10. LoopInv(ir', patch')
  <2>1. Arrays(ir, Len(ir), patch, Len(patch))
    BY <1>1, ArrayFacts DEF Arrays
  <2>2. Closes(ir, Len(ir), patch, Len(patch), addr, delta, ir', patch')
    BY <1>2, <1>4, <1>5, <1>6, <1>7 DEF Closes
  <2>3. Len(ir) \in Nat /\ Len(patch) \in Nat
    BY <1>3
  <2> QED BY <1>1, <1>4, <1>5, <2>1, <2>2, <2>3, LoopEndKeeps
<1> QED BY <1>9, <1>10, IInvJoin

---------------------------------------------------------------------------
(* fread, the characters that change nothing and the returns of           *)
(* ir_ctx_parse.                                                          *)
LEMMA QuietKeeps ==
  ASSUME IInv, Fread \/ ParseUnmatched \/ ParseOther \/ ParseReturn \/ UNCHANGED vars
  PROVE  IInv'
<1>1. TypeOK /\ LoopInv(ir, patch)
  BY IInvSplit
<1>2. ir' = ir /\ patch' = patch /\ src' = src /\ file' = file
  BY DEF Fread, ParseUnmatched, ParseOther, ParseReturn, vars
<1>3. CASE Fread
  <2>1. /\ file \in Seq(Char) /\ fpos \in 0..Len(file) /\ Len(file) \in Nat
    BY <1>1 DEF TypeOK
  <2>2. fpos' \in fpos..Len(file)
    BY <1>3, <2>1, BuflenAssumption DEF Fread, Smaller
  <2>3. buffer' \in Seq(Char) /\ Len(buffer') = fpos' - fpos
    <3>1. buffer' = SubSeq(file, fpos + 1, fpos')
      BY <1>3 DEF Fread
    <3>2. fpos + 1 \in 1..(Len(file) + 1) /\ fpos' \in ((fpos + 1) - 1)..Len(file)
      BY <2>1, <2>2
    <3>3. buffer' \in Seq(Char) /\ Len(buffer') = fpos' - (fpos + 1) + 1
      BY <2>1, <3>1, <3>2, SubSeqFacts
    <3> QED BY <2>1, <2>2, <3>3
  <2>4. TypeOK'
    BY <1>1, <1>2, <1>3, <2>1, <2>2, <2>3, SMTT(30) DEF TypeOK, Fread
  <2> QED BY <1>1, <1>2, <2>4, IInvJoin
<1>4. CASE ParseUnmatched \/ ParseReturn \/ UNCHANGED vars
  <2>1. TypeOK'
    BY <1>1, <1>2, <1>4 DEF TypeOK, ParseUnmatched, ParseReturn, vars
  <2> QED BY <1>1, <1>2, <2>1, IInvJoin
<1>5. CASE ParseOther
  <2>1. PICK count \in 1..(Len(buffer) - ptr) : ptr' = ptr + count
    BY <1>5 DEF ParseOther
  <2>2. UNCHANGED <<fpos, buffer, pc>>
    BY <1>5 DEF ParseOther
  <2>3. ptr' \in 0..Len(buffer)
    BY <1>1, <2>1 DEF TypeOK
  <2>4. TypeOK'
    BY <1>1, <1>2, <2>2, <2>3 DEF TypeOK
  <2> QED BY <1>1, <1>2, <2>4, IInvJoin
<1> QED BY <1>3, <1>4, <1>5

(* The invariant holds initially. *)
LEMMA InitIInv == Init => IInv
<1> SUFFICES ASSUME Init PROVE IInv
  OBVIOUS
<1>1. TypeOK
  BY FilesAssumption DEF Init, TypeOK
<1>2. ir = <<>> /\ patch = <<>>
  BY DEF Init
<1>3. LoopInv(ir, patch)
  BY <1>2 DEF LoopInv, StackIsOpen, LoopsMatched, LoopsNested, OpenOutside, RunsMerged, OnlyParsed
<1> QED BY <1>1, <1>3, IInvSplit

(* Every step preserves it. *)
LEMMA NextIInv == IInv /\ [Next]_vars => IInv'
<1> SUFFICES ASSUME IInv, [Next]_vars PROVE IInv'
  OBVIOUS
<1>1. CASE Fread \/ ParseUnmatched \/ ParseOther \/ ParseReturn \/ UNCHANGED vars
  BY <1>1, QuietKeeps
<1>2. CASE ParseRead
  BY <1>2, PushRunKeeps DEF ParseRead
<1>3. CASE ParseWrite
  BY <1>3, PushRunKeeps DEF ParseWrite
<1>4. CASE ParsePlus
  BY <1>4, AddRunKeeps DEF ParsePlus
<1>5. CASE ParseMinus
  BY <1>5, AddRunKeeps DEF ParseMinus
<1>6. CASE ParseRight
  BY <1>6, AddRunKeeps DEF ParseRight
<1>7. CASE ParseLeft
  BY <1>7, AddRunKeeps DEF ParseLeft
<1>8. CASE ParseLoopStart
  BY <1>8, ParseLoopStartKeeps
<1>9. CASE ParseLoopEnd
  BY <1>9, ParseLoopEndKeeps
<1>10. CASE Finished
  BY <1>1, <1>10 DEF Finished
<1> QED BY <1>1, <1>2, <1>3, <1>4, <1>5, <1>6, <1>7, <1>8, <1>9, <1>10 DEF Next, Parse, ParseChar

---------------------------------------------------------------------------
(***************************************************************************)
(* For every set of files and every BUFLEN: ctx->patch always names the    *)
(* open loops, the deltas match, the loops nest and the runs are merged.   *)
(***************************************************************************)
THEOREM ParserInvariant == Spec => []IInv
<1>1. Init => IInv
  BY InitIInv
<1>2. IInv /\ [Next]_vars => IInv'
  BY NextIInv
<1> QED BY <1>1, <1>2, PTL DEF Spec

(* The type invariant of the parser. *)
THEOREM TypeCorrect == Spec => []TypeOK
<1>1. IInv => TypeOK
  BY DEF IInv
<1> QED BY <1>1, ParserInvariant, PTL

(* The stack ctx->patch names exactly the open loops, in order. *)
THEOREM StackCorrect == Spec => []PatchesOpen
<1>1. IInv => PatchesOpen
  BY DEF IInv
<1> QED BY <1>1, ParserInvariant, PTL

(* Loops nest, and no open loop starts inside a closed one. *)
THEOREM NestingCorrect == Spec => []ProperNesting
<1>1. IInv => ProperNesting
  BY DEF IInv
<1> QED BY <1>1, ParserInvariant, PTL

(***************************************************************************)
(* The deltas that ir_ctx_parse stores lead from every closed loop_start   *)
(* to its loop_end and back, for every file, at every step.                *)
(***************************************************************************)
THEOREM DeltasCorrect == Spec => []DeltasMatch
<1>1. IInv => DeltasMatch
  BY DEF IInv
<1> QED BY <1>1, ParserInvariant, PTL

(***************************************************************************)
(* ir_ctx_parse never leaves two neighbouring operations that are both     *)
(* moves or both additions, for every file and chunk size, whatever        *)
(* comments and chunk ends cut a run of '+' and '-' or of '>' and '<'      *)
(* into.  Nothing is said of ',' and '.': a run of them that is cut stays  *)
(* two operations.                                                         *)
(***************************************************************************)
THEOREM MovesAndAdditionsMerged == Spec => []Contracted
<1>1. IInv => Contracted
  BY DEF IInv
<1> QED BY <1>1, ParserInvariant, PTL

\* The halt that ir_ctx_compile and ir_interpret push makes a program of the
\* parser's IR.
LEMMA HaltCompletes ==
  ASSUME IInv
  PROVE  WellFormed(Append(ir, Halt)) /\ LoopsNested(Append(ir, Halt))
<1>1. TypeOK /\ LoopInv(ir, patch)
  BY IInvSplit
<1>2. ir \in Seq(OpType) /\ Halt \in OpType
  BY <1>1 DEF TypeOK, Halt, Op, OpType, Kind
<1> DEFINE t == Append(ir, Halt)
           n == Len(ir)
<1>3. /\ t \in Seq(OpType)
      /\ Len(t) = n + 1
      /\ t[n + 1] = Halt
      /\ \A i \in 1..n : t[i] = ir[i]
  BY <1>2, AppendOp
<1>4. n \in Nat /\ \A i \in 1..n : ir[i].arg \in Int
  BY <1>1, ArrayFacts
<1>5. Halt.kind = "halt"
  BY OpFields DEF Halt
<1>6. LoopsMatched(ir) /\ OnlyParsed(ir) /\ LoopsNested(ir)
  BY <1>1 DEF LoopInv
<1> HIDE DEF t, n
<1>7. Len(ir) = n
  BY DEF n
<1>8. \A i \in 1..Len(t) : (t[i].kind = "halt" <=> i = Len(t)) /\ t[i].kind # "set"
  BY <1>3, <1>4, <1>5, <1>6, <1>7 DEF OnlyParsed
<1>9. LoopsMatched(t)
  BY <1>3, <1>4, <1>5, <1>6, <1>7 DEF LoopsMatched, IsClosed
<1>10. WellFormed(t)
  BY <1>3, <1>4, <1>8, <1>9 DEF WellFormed
<1>11. LoopsNested(t)
  <2>1. \A i \in 1..(n + 1) : IsClosed(t, i) => i \in 1..n /\ IsClosed(ir, i) /\ t[i] = ir[i]
    BY <1>3, <1>4, <1>5 DEF IsClosed
  <2>2. ASSUME NEW i \in 1..(n + 1), NEW j \in 1..(n + 1),
               IsClosed(t, i), IsClosed(t, j), i < j, j < i + t[i].arg
        PROVE  j + t[j].arg < i + t[i].arg
    <3>1. /\ i \in 1..n /\ IsClosed(ir, i) /\ t[i] = ir[i]
          /\ j \in 1..n /\ IsClosed(ir, j) /\ t[j] = ir[j]
      BY <2>1, <2>2
    <3> QED
      BY <1>6, <1>7, <2>2, <3>1 DEF LoopsNested
  <2> QED
    BY <1>3, <2>2 DEF LoopsNested
<1> QED
  BY <1>10, <1>11 DEF t

(***************************************************************************)
(* What ir_interpret and ir_ctx_compile receive, the halt they push        *)
(* included, is a well-formed program: the precondition of their own       *)
(* proofs.                                                                 *)
(***************************************************************************)
THEOREM OutputWellFormed == Spec => []ParsedWellFormed
<1>1. IInv => ParsedWellFormed
  BY HaltCompletes DEF ParsedWellFormed
<1> QED BY <1>1, ParserInvariant, PTL
=============================================================================
