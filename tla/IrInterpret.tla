---------------------------- MODULE IrInterpret ----------------------------
(***************************************************************************)
(* The interpreter: ir_interpret of csrc/src/ir_interpret.c, a threaded    *)
(* dispatch over the operations with one label for each kind.  An action   *)
(* is the block of one label and the dispatch behind it (opcode(++ip)).    *)
(*                                                                         *)
(* The handler of IR_OP_SET is left out: nothing in the program produces   *)
(* that operation (OutputWellFormed in IrGenProofs).                       *)
(***************************************************************************)
EXTENDS Ir

CONSTANTS
  Programs,   \* the IRs ir_interpret may be called with, without the halt
  Inputs,     \* what stdin may hold
  Capacity,   \* ctx->capacity, the cells of the tape (30e3 in main)
  CellMod,    \* the values of a cell, 256 for a uint8_t
  SizeMod,    \* the values of a size_t, 2^64
  MaxOut      \* bound on the bytes written in one behaviour

ASSUME CapacityAssumption == Capacity \in Nat \ {0}
ASSUME CellModAssumption == CellMod \in Nat \ {0}
ASSUME SizeModAssumption == SizeMod \in Nat /\ SizeMod > 2 * Capacity
ASSUME MaxOutAssumption == MaxOut \in Nat
ASSUME ProgramsAssumption ==
  \A p \in Programs : p \in Seq(OpType) /\ WellFormed(Append(p, Halt))

Cell == 0..(CellMod - 1)
Tape == 0..(Capacity - 1)

ASSUME InputsAssumption == \A s \in Inputs : s \in Seq(Cell)

VARIABLES
  ir,       \* ir_ctx->data
  ip,       \* index of the operation being executed, from 0
  sp,       \* the cell the head is at, a ssize_t: it may be out of range
  data,     \* ctx->data
  stdin,    \* the bytes not read yet
  stdout,   \* the bytes written
  status    \* "idle" before the call, "run", "halted" after the return,
            \* "wild" once a byte outside ctx->data was touched

ivars == <<ip, sp, data, stdin, stdout, status>>
vars == <<ir, ivars>>

TypeOK ==
  /\ ir \in Seq(OpType)
  /\ ip \in Nat
  /\ sp \in Int
  /\ data \in [Tape -> Cell]
  /\ stdin \in Seq(Cell)
  /\ stdout \in Seq(Cell)
  /\ status \in {"idle", "run", "halted", "wild"}

\* main clears the tape before the call.
IdleInit ==
  /\ ip = 0
  /\ sp = 0
  /\ data = [a \in Tape |-> 0]
  /\ stdin \in Inputs
  /\ stdout = <<>>
  /\ status = "idle"

Init == ir \in Programs /\ IdleInit

---------------------------------------------------------------------------
\* ir_interpret is entered: the halt is pushed and the first operation
\* dispatched.
Enter ==
  /\ status = "idle"
  /\ ir' = Append(ir, Halt)
  /\ status' = "run"
  /\ UNCHANGED <<ip, sp, data, stdin, stdout>>

opcode == ir[ip + 1]

At(kind) == status = "run" /\ opcode.kind = kind

\* goto *dispatch_table[opcode(++ip).kind], after ip += delta.
Dispatch(delta) == ip' = ip + delta + 1

\* A byte outside the tape is read or written: what happens next is up to
\* the layout of the process, and nothing more is said about it.
Wild ==
  /\ status' = "wild"
  /\ UNCHANGED <<ir, ip, sp, data, stdin, stdout>>

\* The value of a ssize_t in a comparison with a size_t.
Unsigned(x) == x % SizeMod

\* The capacity is taken off once too often.
FaultyMoved(x) == IF Unsigned(x) > Capacity THEN x - Capacity ELSE x

\* sp after `sp += arg' has made it x.  ctx->capacity is a size_t, so the
\* comparison is one of unsigned numbers; a negative x fails `x < capacity'
\* and the second branch, for x < 0, is never taken.
Moved(x) ==
  IF Unsigned(x) >= Capacity THEN x - Capacity
  ELSE IF x < 0 THEN x + Capacity
  ELSE x

ir_op_tape ==
  /\ At("tape")
  /\ sp' = Moved(sp + opcode.arg)
  /\ Dispatch(0)
  /\ UNCHANGED <<ir, data, stdin, stdout, status>>

\* The sum is not reduced to a byte.
FaultyCellAdd(value, arg) == value + arg

CellAdd(value, arg) == (value + arg) % CellMod

ir_op_cell ==
  /\ At("cell")
  /\ \/ /\ sp \in Tape
        /\ data' = [data EXCEPT ![sp] = CellAdd(@, opcode.arg)]
        /\ Dispatch(0)
        /\ UNCHANGED <<ir, sp, stdin, stdout, status>>
     \/ sp \notin Tape /\ Wild

\* The jump forgets that the dispatch adds one.
FaultyLoopStart ==
  /\ At("loop_start")
  /\ \/ /\ sp \in Tape
        /\ Dispatch(IF data[sp] = 0 THEN opcode.arg + 1 ELSE 0)
        /\ UNCHANGED <<ir, sp, data, stdin, stdout, status>>
     \/ sp \notin Tape /\ Wild

ir_op_loop_start ==
  /\ At("loop_start")
  /\ \/ /\ sp \in Tape
        /\ Dispatch(IF data[sp] = 0 THEN opcode.arg ELSE 0)
        /\ UNCHANGED <<ir, sp, data, stdin, stdout, status>>
     \/ sp \notin Tape /\ Wild

\* The condition of loop_start, copied.
FaultyLoopEnd ==
  /\ At("loop_end")
  /\ \/ /\ sp \in Tape
        /\ Dispatch(IF data[sp] = 0 THEN opcode.arg ELSE 0)
        /\ UNCHANGED <<ir, sp, data, stdin, stdout, status>>
     \/ sp \notin Tape /\ Wild

ir_op_loop_end ==
  /\ At("loop_end")
  /\ \/ /\ sp \in Tape
        /\ Dispatch(IF data[sp] # 0 THEN opcode.arg ELSE 0)
        /\ UNCHANGED <<ir, sp, data, stdin, stdout, status>>
     \/ sp \notin Tape /\ Wild

\* The byte is written arg times.  A full stdout (MaxOut) is the bound of
\* the model, not of the program.
ir_op_write ==
  /\ At("write")
  /\ \/ /\ sp \in Tape
        /\ Len(stdout) + opcode.arg <= MaxOut
        /\ stdout' = stdout \o [i \in 1..opcode.arg |-> data[sp]]
        /\ Dispatch(0)
        /\ UNCHANGED <<ir, sp, data, stdin, status>>
     \/ sp \notin Tape /\ Wild

\* How many of the arg freads return a byte.
Received == IF opcode.arg < Len(stdin) THEN opcode.arg ELSE Len(stdin)

\* A read that meets the end of stdin is tried again.
FaultyRead ==
  /\ At("read")
  /\ \/ Received = 0 /\ UNCHANGED vars
     \/ /\ Received > 0
        /\ sp \in Tape
        /\ data' = [data EXCEPT ![sp] = stdin[Received]]
        /\ stdin' = SubSeq(stdin, Received + 1, Len(stdin))
        /\ Dispatch(0)
        /\ UNCHANGED <<ir, sp, stdout, status>>
     \/ Received > 0 /\ sp \notin Tape /\ Wild

\* Every fread overwrites the cell; one that meets the end of stdin leaves
\* the cell alone, and touches no memory.
ir_op_read ==
  /\ At("read")
  /\ \/ /\ Received = 0
        /\ Dispatch(0)
        /\ UNCHANGED <<ir, sp, data, stdin, stdout, status>>
     \/ /\ Received > 0
        /\ sp \in Tape
        /\ data' = [data EXCEPT ![sp] = stdin[Received]]
        /\ stdin' = SubSeq(stdin, Received + 1, Len(stdin))
        /\ Dispatch(0)
        /\ UNCHANGED <<ir, sp, stdout, status>>
     \/ Received > 0 /\ sp \notin Tape /\ Wild

ir_op_halt ==
  /\ At("halt")
  /\ status' = "halted"
  /\ UNCHANGED <<ir, ip, sp, data, stdin, stdout>>

Interpret ==
  \/ Enter
  \/ ir_op_tape \/ ir_op_cell
  \/ ir_op_loop_start \/ ir_op_loop_end
  \/ ir_op_write \/ ir_op_read
  \/ ir_op_halt

\* ir_interpret has returned, has touched foreign memory, or has filled the model's stdout.
Stopped ==
  /\ \/ status \in {"halted", "wild"}
     \/ At("write") /\ Len(stdout) + opcode.arg > MaxOut
  /\ UNCHANGED vars

Next == Interpret \/ Stopped

\* The process executes one operation after the other until it returns.
Spec == Init /\ [][Next]_vars /\ WF_vars(Interpret)
---------------------------------------------------------------------------
(***************************************************************************)
(* The unchecked dispatch of ir_interpret (opcode(++ip)) never leaves the  *)
(* IR, whatever the jumps, and the call returns from the halt only.        *)
(***************************************************************************)
IpInRange == status # "idle" => ip \in 0..(Len(ir) - 1)

(***************************************************************************)
(* A program that moves right only, by no more than the tape at a time,    *)
(* never leaves it: one subtraction of ir_op_tape brings the head back.    *)
(***************************************************************************)
RightMovesStay ==
  (\A i \in 1..Len(ir) : ir[i].kind = "tape" => ir[i].arg \in 0..Capacity)
    => sp \in Tape

(***************************************************************************)
(* The inductive invariant: ir is well-formed, with the halt once it is    *)
(* pushed, and ip names one of its operations.                             *)
(***************************************************************************)
IInv ==
  /\ TypeOK
  /\ status = "idle" => ip = 0 /\ WellFormed(Append(ir, Halt))
  /\ status # "idle" => WellFormed(ir)
  /\ IpInRange
  /\ RightMovesStay

(***************************************************************************)
(* A program whose loops are all unmatched, and so never jump back, ends:  *)
(* every dispatch of ir_interpret leads forward.                           *)
(***************************************************************************)
StraightLineHalts ==
  (\A i \in 1..Len(ir) : ir[i].kind # "loop_end") ~> status \in {"halted", "wild"}

(***************************************************************************)
(* ir_op_tape keeps the head on the tape: the intent of the commented-out  *)
(* `sp = (sp + opcode(ip).arg) % ctx->capacity' and of the branch for      *)
(* sp < 0.                                                                 *)
(***************************************************************************)
SpInRange == sp \in Tape
=============================================================================
