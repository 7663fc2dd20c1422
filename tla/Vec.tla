-------------------------------- MODULE Vec --------------------------------
(***************************************************************************)
(* The vectors of csrc/include/rxi/vec.h, with dmt.h behind the hooks      *)
(* VEC_ALLOC and VEC_FREE.  A client makes any calls on its vectors, with  *)
(* indices in range; vectors may own their storage, borrow a pool of the   *)
(* client's, or be slices of each other.  The headers of the repository    *)
(* leave the hooks at realloc and free, and include dmt.h nowhere; here    *)
(* they are dmt_realloc (dmt_alloc for NULL) and dmt_free, which move and  *)
(* fail in the same ways and abort where free would be undefined.          *)
(*                                                                         *)
(* Storage is counted in elements of memsz bytes; an element that was not  *)
(* copied whole is junk.  A call whose allocation fails returns -1 (or     *)
(* nothing) and changes nothing: a stuttering step.                        *)
(*                                                                         *)
(* `beyond' holds the vectors that were used beyond what the code handles; *)
(* the guards of it (Overrun, CutCopy, ...) are the limits of the library. *)
(* Nothing is promised about these vectors and nothing is done with them.  *)
(***************************************************************************)
EXTENDS Dmt, Sequences, SequencesExt

CONSTANTS
  Vecs,     \* the vectors of the client
  Value,    \* the elements
  Pool,     \* the address of the client's array
  Junk,     \* what uninitialized storage holds
  MemSizes, \* values of memsz
  PoolLen,  \* elements of the pool
  MaxLen    \* bound: the longest vector

ASSUME VecAssumption ==
  /\ IsFiniteSet(Vecs)
  /\ Pool \notin Addr \cup {NULL}
  /\ Junk \notin Value
  /\ MemSizes \subseteq Nat \ {0} /\ PoolLen \in Nat /\ MaxLen \in Nat

VARIABLES
  memsz,    \* the size of an element in bytes, never changed
  vec,      \* the structs
  mem,      \* the elements of the blocks and of the pool
  fault,    \* memory was written outside a block, or NULL copied to
  seq,      \* auxiliary: what the calls should have made of each vector
  beyond    \* auxiliary: see above

vars == <<dmtvars, memsz, vec, mem, fault, seq, beyond>>

\* vec_t: data points at the element off of a block.
Struct(borrowed, length, capacity, data, off) ==
  [borrowed |-> borrowed, length |-> length, capacity |-> capacity, data |-> data, off |-> off]

\* vec_init
Zero == Struct(FALSE, 0, 0, NULL, 0)

TypeOK ==
  /\ DmtTypeOK
  /\ memsz \in MemSizes
  /\ vec \in [Vecs -> [borrowed : BOOLEAN, length : 0..MaxLen, capacity : Nat,
                       data : Addr \cup {NULL, Pool}, off : 0..MaxLen]]
  /\ DOMAIN mem = DOMAIN nodes \cup {Pool}
  /\ \A b \in DOMAIN mem : mem[b] \in Seq(Value \cup {Junk})
  /\ fault \in BOOLEAN
  /\ seq \in [Vecs -> Seq(Value)]
  /\ beyond \subseteq Vecs
  /\ \A v \in Vecs \ beyond : vec[v].data \in DOMAIN mem \cup {NULL}

Init ==
  /\ DmtInit
  /\ memsz \in MemSizes
  /\ vec = [v \in Vecs |-> Zero]
  /\ mem = [b \in {Own, Pool} |-> IF b = Pool THEN [i \in 1..PoolLen |-> Junk] ELSE <<>>]
  /\ fault = FALSE
  /\ seq = [v \in Vecs |-> <<>>]
  /\ beyond = {}

Usable(v) == ~fault /\ ~aborted /\ v \notin beyond

\* data[0 .. length - 1]
Elements(v) ==
  LET r == vec[v]
  IN  IF r.data = NULL THEN <<>> ELSE SubSeq(mem[r.data], r.off + 1, r.off + r.length)

\* The other vectors on the storage of v.
Sharing(v) == {u \in Vecs \ {v} : vec[u].data = vec[v].data /\ vec[v].data # NULL}

\* cells with s written behind the first at.
Put(cells, at, s) ==
  [i \in 1..Len(cells) |-> IF at < i /\ i <= at + Len(s) THEN s[i - at] ELSE cells[i]]

\* VEC_ALLOC(p, size), with q as the result.
VEC_ALLOC(p, q, size) ==
  IF p = NULL THEN dmt_alloc(q, size)
  ELSE IF dmt_has_node(p) THEN dmt_realloc(p, q, size)
  ELSE dmt_abort

\* What VEC_ALLOC(p, size) may return.
Results(p) == Free \cup ({p} \ {NULL})

\* VEC_FREE of the address at element off of p.
VEC_FREE(p, off) ==
  IF p = NULL THEN UNCHANGED dmtvars
  ELSE IF off = 0 /\ dmt_has_node(p) THEN dmt_free(p)
  ELSE dmt_abort

\* The blocks that are left, with b holding cells.
Blocks(b, cells) == [a \in DOMAIN nodes' \cup {Pool} |-> IF a = b THEN cells ELSE mem[a]]

---------------------------------------------------------------------------
\* Room is made only when the vector is already too long.
FaultyExpand(v) ==
  LET r == vec[v]
  IN  IF r.capacity = 0 THEN 1 ELSE IF r.length > r.capacity THEN 2 * r.capacity ELSE 0

\* The capacity that vec_expand_ asks for; 0: there is room for one more.
vec_expand(v) ==
  LET r == vec[v]
  IN  IF r.length + 1 > r.capacity THEN IF r.capacity = 0 THEN 1 ELSE 2 * r.capacity ELSE 0

\* The capacity that vec_reserve_ asks for.
vec_reserve(v, n) == IF n > vec[v].capacity THEN n ELSE 0

\* The same for vec_reserve_po2_, as a set of one: the next power of 2.
vec_reserve_po2(v, n) ==
  IF n = 0 THEN {0}
  ELSE {vec_reserve(v, k) : k \in {m \in n..(2 * n - 1) : \E e \in 0..n : m = 2^e}}

\* The storage of v moved to one of n * unit bytes: realloc keeps what fits;
\* for borrowed storage memcpy is given length as a number of bytes.
Moved(v, n, unit) ==
  LET r    == vec[v]
      old  == IF r.data = NULL THEN <<>>
              ELSE IF r.borrowed THEN SubSeq(Elements(v), 1, r.length \div memsz)
              ELSE mem[r.data]
  IN  [i \in 1..((n * unit) \div memsz) |-> IF i <= Len(old) THEN old[i] ELSE Junk]

\* Elements are copied that memcpy cuts off.
CutCopy(v, n) == n > 0 /\ vec[v].borrowed /\ vec[v].length > 0 /\ memsz > 1

\* vec_insert_ made room for one element, of count times the size.
Overrun(v, n, count) == count # 1 /\ (n > 0 \/ vec[v].length + count > vec[v].capacity)

\* s is written at idx of cells, the elements of v behind idx move up.
Insert(v, cells, off, idx, s) ==
  LET at == off + idx
  IN  Put(cells, at, s \o SubSeq(cells, at + 1, off + vec[v].length))

\* The common part of the functions that add elements: storage of n * unit
\* bytes is asked for, if n > 0, and s inserted at idx.
Add(v, n, unit, idx, s, limit) ==
  LET r   == vec[v]
      len == r.length + Len(s)
  IN  /\ Usable(v)
      /\ len <= MaxLen
      /\ n > 0 \/ s # <<>>
      /\ \/ /\ n = 0
            /\ vec' = [vec EXCEPT ![v].length = len]
            /\ mem' = [mem EXCEPT ![r.data] = Insert(v, @, r.off, idx, s)]
            /\ fault' = (r.off + len > Len(mem[r.data]))
            /\ UNCHANGED dmtvars
         \/ /\ n > 0
            /\ LET p     == IF r.borrowed THEN NULL ELSE r.data
                   cells == Moved(v, n, unit)
               IN  \E q \in Results(p) :
                     /\ VEC_ALLOC(p, q, n * unit)
                     /\ vec' = [vec EXCEPT ![v] = Struct(FALSE, len, n, q, 0)]
                     /\ mem' = Blocks(q, Insert(v, cells, 0, idx, s))
                     /\ fault' = (len > Len(cells))
      /\ seq' = [seq EXCEPT ![v] = SubSeq(@, 1, idx) \o s \o SubSeq(@, idx + 1, Len(@))]
      /\ beyond' = beyond \cup (IF limit \/ CutCopy(v, n) THEN {v} ELSE {})
                          \cup (IF n > 0 /\ r.borrowed THEN {} ELSE Sharing(v))
      /\ UNCHANGED memsz

VecPush(v, x) == Add(v, vec_expand(v), memsz, vec[v].length, <<x>>, FALSE)

\* vec_fill, vec_pusharr
VecPushArr(v, s) ==
  \E n \in vec_reserve_po2(v, vec[v].length + Len(s)) :
    Add(v, n, memsz, vec[v].length, s, FALSE)

\* vec_extend
VecExtend(v, u) == u # v /\ Usable(u) /\ VecPushArr(v, Elements(u))

VecReserve(v, n) == Add(v, vec_reserve(v, n), memsz, vec[v].length, <<>>, FALSE)

\* vec_insert, vec_insertarr
VecInsert(v, idx, s) ==
  /\ idx <= vec[v].length
  /\ LET n == vec_expand(v)
     IN  Add(v, n, memsz * Len(s), idx, s, Overrun(v, n, Len(s)))

---------------------------------------------------------------------------
\* s takes the place of the elements of v, the first len of which remain.
Rewrite(v, s, len, expected, limit) ==
  /\ Usable(v)
  /\ vec[v].length > 0
  /\ vec' = [vec EXCEPT ![v].length = len]
  /\ mem' = [mem EXCEPT ![vec[v].data] = Put(@, vec[v].off, s)]
  /\ seq' = [seq EXCEPT ![v] = expected]
  /\ beyond' = beyond \cup Sharing(v) \cup (IF limit THEN {v} ELSE {})
  /\ UNCHANGED <<dmtvars, memsz, fault>>

\* One element too few is moved.
FaultySplice(s, start, count) ==
  Put(s, start, SubSeq(s, start + count + 1, Len(s) - 1))

\* vec_splice_: what is behind the count elements at start moves down.
vec_splice(s, start, count) == Put(s, start, SubSeq(s, start + count + 1, Len(s)))

\* vec_swapsplice_: the last count elements move to start.
vec_swapsplice(s, start, count) == Put(s, start, SubSeq(s, Len(s) - count + 1, Len(s)))

VecSplice(v, start, count) ==
  LET s == Elements(v)
  IN  /\ Usable(v)
      /\ start + count <= Len(s)
      /\ Rewrite(v, vec_splice(s, start, count), Len(s) - count,
                 SubSeq(seq[v], 1, start) \o SubSeq(seq[v], start + count + 1, Len(seq[v])), FALSE)

\* The limit: fewer than count elements, but not none, lie behind those that
\* go; some of the elements moved are then among them.
VecSwapSplice(v, start, count) ==
  LET s    == Elements(v)
      tail == Len(s) - start - count
  IN  /\ Usable(v)
      /\ tail >= 0
      /\ Rewrite(v, vec_swapsplice(s, start, count), Len(s) - count,
                 SubSeq(seq[v], 1, start)
                   \o SubSeq(seq[v], Len(s) - Min({count, tail}) + 1, Len(s))
                   \o SubSeq(seq[v], start + count + 1, Len(s) - count),
                 0 < tail /\ tail < count)

\* The first place of x in s, counted from 0; -1: it is not there.
vec_find(s, x) ==
  LET at == {i \in 1..Len(s) : s[i] = x} IN IF at = {} THEN -1 ELSE Min(at) - 1

VecRemove(v, x) ==
  /\ Usable(v)
  /\ vec_find(Elements(v), x) # -1
  /\ VecSplice(v, vec_find(Elements(v), x), 1)

VecSwap(v, i, j) ==
  LET s == Elements(v)
  IN  /\ Usable(v)
      /\ i \in 1..Len(s) /\ j \in 1..Len(s)
      /\ Rewrite(v, [s EXCEPT ![i] = s[j], ![j] = s[i]], Len(s),
                 [k \in 1..Len(s) |-> seq[v][IF k = i THEN j ELSE IF k = j THEN i ELSE k]], FALSE)

\* vec_reverse: the first half is swapped with the last.
VecReverse(v) ==
  LET s    == Elements(v)
      half == Len(s) \div 2
  IN  Rewrite(v, [k \in 1..Len(s) |->
                    IF k <= half \/ k > Len(s) - half THEN s[Len(s) + 1 - k] ELSE s[k]],
              Len(s), Reverse(seq[v]), FALSE)

\* vec_pop, vec_truncate, vec_clear
VecTruncate(v, len) ==
  /\ Usable(v)
  /\ len < vec[v].length
  /\ vec' = [vec EXCEPT ![v].length = len]
  /\ seq' = [seq EXCEPT ![v] = SubSeq(@, 1, len)]
  /\ UNCHANGED <<dmtvars, memsz, mem, fault, beyond>>

---------------------------------------------------------------------------
\* v, which holds nothing, becomes a vector of the elements s.
Become(v, struct, s) ==
  /\ vec' = [vec EXCEPT ![v] = struct]
  /\ seq' = [seq EXCEPT ![v] = s]

\* vec_borrowed, vec_alloca; vec_borrowed_static takes the size of the pool
\* in bytes for its capacity.
VecBorrowed(v, capacity) ==
  /\ Usable(v)
  /\ vec[v] = Zero
  /\ Become(v, Struct(TRUE, 0, capacity, Pool, 0), <<>>)
  /\ beyond' = IF capacity > PoolLen THEN beyond \cup {v} ELSE beyond
  /\ UNCHANGED <<dmtvars, memsz, mem, fault>>

\* vec_slice
VecSlice(v, u, start, end) ==
  /\ Usable(v) /\ Usable(u)
  /\ vec[v] = Zero
  /\ vec[u].data # NULL
  /\ start <= end /\ end <= vec[u].length
  /\ Become(v, Struct(TRUE, end - start, end - start, vec[u].data, vec[u].off + start),
            SubSeq(seq[u], start + 1, end))
  /\ UNCHANGED <<dmtvars, memsz, mem, fault, beyond>>

\* vec_copy, vec_owned
VecCopy(v, u) ==
  /\ Usable(v) /\ Usable(u)
  /\ u # v
  /\ vec[v] = Zero
  /\ \E q \in Free :
       /\ VEC_ALLOC(NULL, q, vec[u].capacity * memsz)
       /\ Become(v, Struct(FALSE, vec[u].length, vec[u].capacity, q, 0), seq[u])
       /\ mem' = Blocks(q, Put([i \in 1..vec[u].capacity |-> Junk], 0, Elements(u)))
  /\ UNCHANGED <<memsz, fault, beyond>>

\* The same when VEC_ALLOC fails: memcpy is given NULL.
VecCopyFails(v, u) ==
  /\ Usable(v) /\ Usable(u)
  /\ u # v
  /\ vec[v] = Zero
  /\ vec[u].length > 0
  /\ fault' = TRUE
  /\ beyond' = beyond \cup {v}
  /\ UNCHANGED <<dmtvars, memsz, vec, mem, seq>>

\* The storage of an owned vector is not given back.
FaultyDeinit(v) ==
  /\ Usable(v)
  /\ vec[v] # Zero
  /\ Become(v, Zero, <<>>)
  /\ UNCHANGED <<dmtvars, memsz, mem, fault, beyond>>

\* The struct is not cleared.
StaleDeinit(v) ==
  /\ Usable(v)
  /\ vec[v] # Zero
  /\ IF vec[v].borrowed THEN UNCHANGED dmtvars ELSE VEC_FREE(vec[v].data, vec[v].off)
  /\ seq' = [seq EXCEPT ![v] = <<>>]
  /\ mem' = Blocks(NULL, <<>>)
  /\ UNCHANGED <<memsz, vec, fault, beyond>>

VecDeinit(v) ==
  LET r == vec[v]
  IN  /\ Usable(v)
      /\ r # Zero
      /\ IF r.borrowed THEN UNCHANGED dmtvars ELSE VEC_FREE(r.data, r.off)
      /\ Become(v, Zero, <<>>)
      /\ mem' = Blocks(NULL, <<>>)
      /\ beyond' = beyond \cup (IF r.borrowed THEN {} ELSE Sharing(v))
      /\ UNCHANGED <<memsz, fault>>

\* vec_compact of an empty vector frees the storage, borrowed or not.
VecCompactEmpty(v) ==
  LET r == vec[v]
  IN  /\ Usable(v)
      /\ r.length = 0 /\ r # Zero
      /\ VEC_FREE(r.data, r.off)
      /\ vec' = [vec EXCEPT ![v].capacity = 0, ![v].data = IF r.borrowed THEN @ ELSE NULL]
      /\ mem' = Blocks(NULL, <<>>)
      /\ beyond' = beyond \cup Sharing(v) \cup (IF r.borrowed THEN {v} ELSE {})
      /\ UNCHANGED <<memsz, fault, seq>>

\* vec_compact of any other gives back what is not used.
VecCompact(v) ==
  LET r == vec[v]
  IN  /\ Usable(v)
      /\ r.length > 0
      /\ IF r.borrowed
           THEN /\ vec' = [vec EXCEPT ![v].capacity = r.length]
                /\ UNCHANGED <<dmtvars, mem, beyond>>
           ELSE \E q \in Results(r.data) :
                  /\ VEC_ALLOC(r.data, q, r.length * memsz)
                  /\ vec' = [vec EXCEPT ![v] = Struct(FALSE, r.length, r.length, q, 0)]
                  /\ mem' = Blocks(q, Elements(v))
                  /\ beyond' = beyond \cup Sharing(v)
      /\ UNCHANGED <<memsz, fault, seq>>

---------------------------------------------------------------------------
\* Bound: the arrays that are passed to calls.
Arrays == UNION {[1..n -> Value] : n \in 0..2}

Call(v) ==
  \/ \E x \in Value : VecPush(v, x) \/ VecRemove(v, x)
  \/ \E s \in Arrays : VecPushArr(v, s)
  \/ \E s \in Arrays, idx \in 0..MaxLen : VecInsert(v, idx, s)
  \/ VecReserve(v, MaxLen)
  \/ \E n \in 0..MaxLen : VecTruncate(v, n)
  \/ \E start \in 0..MaxLen, count \in 1..MaxLen : VecSplice(v, start, count) \/ VecSwapSplice(v, start, count)
  \/ \E i, j \in 1..MaxLen : i < j /\ VecSwap(v, i, j)
  \/ VecReverse(v) \/ VecDeinit(v) \/ VecCompactEmpty(v) \/ VecCompact(v)
  \/ \E capacity \in {PoolLen, PoolLen * memsz} : VecBorrowed(v, capacity)
  \/ \E u \in Vecs : VecExtend(v, u) \/ VecCopy(v, u) \/ VecCopyFails(v, u)
  \/ \E u \in Vecs, start, end \in 0..MaxLen : VecSlice(v, u, start, end)

Next == \E v \in Vecs : Call(v)

Spec == Init /\ [][Next]_vars
---------------------------------------------------------------------------
(***************************************************************************)
(* Every vector used within the limits holds exactly the elements that the *)
(* calls of vec.h should have left in it: through growth that moves the    *)
(* storage, insertions and removals in the middle, copies, slices that are *)
(* not written to, and compaction.                                         *)
(***************************************************************************)
ContentsExact ==
  ~fault /\ ~aborted => \A v \in Vecs \ beyond : Elements(v) = seq[v]

(***************************************************************************)
(* No call of vec.h writes outside its storage, and dmt.h finds no bad     *)
(* pointer, unless a vector is used beyond the limits.                     *)
(***************************************************************************)
SafeWithinLimits == fault \/ aborted => beyond # {}

(***************************************************************************)
(* Within the limits dmt_usage is what the client's block and the vectors  *)
(* that own their storage account for: vec.h leaks nothing, frees nothing  *)
(* twice, and capacity is what was allocated.                              *)
(***************************************************************************)
UsageExact ==
  beyond = {} =>
    dmt_usage = nodes[Own].size
      + MapThenSumSet(LAMBDA v : IF vec[v].borrowed THEN 0 ELSE vec[v].capacity * memsz, Vecs)
=============================================================================
