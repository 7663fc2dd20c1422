-------------------------------- MODULE Ir --------------------------------
(***************************************************************************)
(* The intermediate representation of csrc/include/ir_gen.h: a vector of   *)
(* operations, each a kind and an int64 argument.  The vector is a         *)
(* sequence; the C code counts its elements from 0, so the element the     *)
(* code calls data[a] is ir[a + 1] here.  An argument never leaves the     *)
(* range of an int64 (it counts characters of one source file), so it is   *)
(* an unbounded integer.                                                   *)
(***************************************************************************)
EXTENDS Integers, Sequences

\* ir_op_kind_t.  "halt" is IR_OP_MAX, which ir_interpret and
\* ir_ctx_compile push behind the program.
Kind == {"tape", "cell", "loop_start", "loop_end", "write", "read", "set", "halt"}

\* ir_op_t
OpType == [kind : Kind, arg : Int]

Op(kind, arg) == [kind |-> kind, arg |-> arg]

Halt == Op("halt", 0)

---------------------------------------------------------------------------
\* The element at i is a loop_start that its loop_end has patched.
IsClosed(ir, i) == ir[i].kind = "loop_start" /\ ir[i].arg # 0

(* A patched loop_start and its loop_end point at each other. *)
LoopsMatched(ir) ==
  \A i \in 1..Len(ir) :
    /\ IsClosed(ir, i) =>
         /\ ir[i].arg > 0
         /\ i + ir[i].arg <= Len(ir)
         /\ ir[i + ir[i].arg] = Op("loop_end", -ir[i].arg)
    /\ ir[i].kind = "loop_end" =>
         /\ ir[i].arg < 0
         /\ i + ir[i].arg >= 1
         /\ ir[i + ir[i].arg] = Op("loop_start", -ir[i].arg)

(* Two patched loops are nested or disjoint. *)
LoopsNested(ir) ==
  \A i, j \in 1..Len(ir) :
    (IsClosed(ir, i) /\ IsClosed(ir, j) /\ i < j /\ j < i + ir[i].arg)
      => j + ir[j].arg < i + ir[i].arg

(* The stack patch holds, in increasing order, the addresses of exactly the *)
(* loop_starts that are not patched.                                       *)
StackIsOpen(ir, patch) ==
  /\ \A k \in 1..Len(patch) :
       /\ patch[k] < Len(ir)
       /\ ir[patch[k] + 1] = Op("loop_start", 0)
  /\ \A j, k \in 1..Len(patch) : j < k => patch[j] < patch[k]
  /\ \A i \in 1..Len(ir) :
       ir[i] = Op("loop_start", 0) => \E k \in 1..Len(patch) : patch[k] = i - 1

(* No loop on the stack starts inside a patched loop. *)
OpenOutside(ir, patch) ==
  \A k \in 1..Len(patch), i \in 1..Len(ir) :
    IsClosed(ir, i) => ~(i <= patch[k] + 1 /\ patch[k] + 1 <= i + ir[i].arg)

(* No two neighbouring tape, or cell, operations. *)
RunsMerged(ir) ==
  \A i \in 1..(Len(ir) - 1) :
    ir[i].kind \in {"tape", "cell"} => ir[i + 1].kind # ir[i].kind

(***************************************************************************)
(* What ir_interpret and ir_ctx_compile rely on: the last operation, and   *)
(* only the last, is a halt, every patched loop has its partner, and       *)
(* nothing produces a "set".                                               *)
(***************************************************************************)
WellFormed(ir) ==
  /\ ir \in Seq(OpType)
  /\ Len(ir) > 0
  /\ \A i \in 1..Len(ir) : ir[i].kind = "halt" <=> i = Len(ir)
  /\ \A i \in 1..Len(ir) : ir[i].kind # "set"
  /\ LoopsMatched(ir)
=============================================================================
