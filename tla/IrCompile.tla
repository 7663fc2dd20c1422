----------------------------- MODULE IrCompile -----------------------------
(***************************************************************************)
(* The compiler: ir_ctx_compile of csrc/src/ir_compile.c, which turns the  *)
(* IR into the x86 code of the executable.  ir_ctx_compile__ calls itself  *)
(* for the body of a loop, whose code it needs before it can emit the jump *)
(* over it; the calls in progress are a stack of frames.  A step is one    *)
(* iteration of the loop of ir_ctx_compile__, or its return.               *)
(*                                                                         *)
(* An instruction is a record of what it does and of its length in bytes:  *)
(* the encodings are abstracted, the lengths and the displacements of the  *)
(* jumps, which depend on them, are not.                                   *)
(***************************************************************************)
EXTENDS Ir, SequencesExt

CONSTANTS
  INT8_MAX,    \* 127: the largest 8-bit immediate and short displacement
  INT32_MAX    \* 2^31 - 1

VARIABLES
  ir,       \* ctx_ir->data
  src,      \* auxiliary: the place in the source of every operation of ir
  frames,   \* the calls of ir_ctx_compile__: i and ctx of each, innermost last
  result    \* "idle", "busy", "ok" or "operand_size" (COMPILE_OPERAND_SIZE)

cvars == <<ir, frames, result>>

Registers == {"eax", "ebx", "ecx", "edx", "edi"}

\* op dst, imm or op dst, reg (reg # "none"); dst "mem" is the byte at edi.
\* at is auxiliary: the place in the source that the instruction belongs
\* to, -1 for the end of it.
Ins(op, dst, reg, imm, len) ==
  [op |-> op, dst |-> dst, reg |-> reg, imm |-> imm, len |-> len, at |-> 0]

CompileInit == frames = <<>> /\ result = "idle"

\* The length in bytes (ctx->length): as many as the instructions have.
Size(code) == Cardinality(UNION {{k} \X (1..code[k].len) : k \in DOMAIN code})

\* The address of instruction k, and of the byte behind the last.
Start(code, k) == Size(SubSeq(code, 1, k - 1))

\* The code as it lies in memory: the instructions by their addresses.
Load(code) ==
  [a \in {Start(code, k) : k \in 1..Len(code)} |->
     code[CHOOSE k \in 1..Len(code) : Start(code, k) = a]]

\* All instructions of code belong to the place at.
Place(code, at) == [k \in 1..Len(code) |-> [code[k] EXCEPT !.at = at]]

---------------------------------------------------------------------------
\* (int8_t)x and (int32_t)x: the low bits, as a signed number.
Signed(x, max) == ((x + max + 1) % (2 * (max + 1))) - (max + 1)
Int8(x)  == Signed(x, INT8_MAX)
Int32(x) == Signed(x, INT32_MAX)

\* op.arg > INT32_MAX || op.arg < INT32_MIN
TooBig(arg) == arg > INT32_MAX \/ arg < -INT32_MAX - 1

\* The immediate of 8 bits is used for every argument.
FaultyAddSub(dst, arg) ==
  LET op == IF arg > 0 THEN "add" ELSE "sub"
      n  == IF arg > 0 THEN arg ELSE -arg
  IN  IF n = 0 THEN <<>> ELSE <<Ins(op, dst, "none", Int8(n), 3)>>

\* inc, dec, add or sub of edi (a move) or of the byte at edi.  A byte takes
\* a large operand from eax, of which the low byte counts.
emit_add_sub(dst, arg) ==
  LET op == IF arg > 0 THEN "add" ELSE "sub"
      n  == IF arg > 0 THEN arg ELSE -arg
  IN  CASE n = 0 -> <<>>
        [] n = 1 -> <<Ins(op, dst, "none", 1, IF dst = "edi" THEN 1 ELSE 2)>>
        [] n > 1 /\ n <= INT8_MAX -> <<Ins(op, dst, "none", Int8(n), 3)>>
        [] n > INT8_MAX /\ dst = "edi" -> <<Ins(op, dst, "none", Int32(n), 6)>>
        [] OTHER -> <<Ins("mov", "eax", "none", Int32(n), 6), Ins(op, "mem", "eax", 0, 2)>>

CmpZero == Ins("cmp", "mem", "none", 0, 3)

\* A short jump is taken to reach as far as a byte counts.
FaultyLoopStart(size) ==
  << CmpZero,
     IF size <= 2 * INT8_MAX THEN Ins("je", "none", "none", Int8(size), 2)
                             ELSE Ins("je", "none", "none", Int32(size), 6) >>

\* je over the size bytes of the loop.
emit_code_loop_start(size) ==
  << CmpZero,
     IF size + 2 <= INT8_MAX THEN Ins("je", "none", "none", Int8(size), 2)
                             ELSE Ins("je", "none", "none", Int32(size), 6) >>

\* The length of the long jump itself is not counted.
FaultyLoopEnd(length) ==
  LET offset == -(length + CmpZero.len + 2)
  IN  << CmpZero,
         IF offset >= -INT8_MAX - 1
           THEN Ins("jne", "none", "none", Int8(offset), 2)
           ELSE Ins("jne", "none", "none", Int32(offset), 6) >>

\* jne back over the jump, the comparison and the length bytes before them.
emit_code_loop_end(length) ==
  LET offset == -(length + CmpZero.len + 2)
  IN  << CmpZero,
         IF offset >= -INT8_MAX - 1
           THEN Ins("jne", "none", "none", Int8(offset), 2)
           ELSE Ins("jne", "none", "none", Int32(offset - 4), 6) >>

SYS_EXIT  == 1
SYS_READ  == 3
SYS_WRITE == 4

\* One byte at edi, from or to the file descriptor fd.
Transfer(call, fd) ==
  << Ins("mov", "eax", "none", call, 5), Ins("mov", "ebx", "none", fd, 5),
     Ins("mov", "ecx", "edi", 0, 2), Ins("mov", "edx", "none", 1, 5),
     Ins("int", "none", "none", 0, 2) >>

\* One system call for every byte.
emit_code_write(arg, at) ==
  LET call == Transfer(SYS_WRITE, 1)
      n    == Len(call)
  IN  [k \in 1..(arg * n) |-> [call[((k - 1) % n) + 1] EXCEPT !.at = at + ((k - 1) \div n)]]

\* One system call, whatever the argument.
emit_code_read(arg, at) == Place(Transfer(SYS_READ, 0), at)

emit_code_exit(arg) ==
  << Ins("mov", "eax", "none", SYS_EXIT, 5), Ins("mov", "ebx", "none", arg, 5),
     Ins("int", "none", "none", 0, 2) >>

---------------------------------------------------------------------------
\* What write_elf_file and ir_ctx_compile put in front: mov edi with an
\* address to be patched, and a push of it.
Preload  == Ins("mov", "edi", "none", -1, 5)
Prologue == << Preload, Ins("push", "none", "edi", 0, 2) >>

\* ir_ctx_compile: the halt is pushed and ir_ctx_compile__ called.
EnterCompile ==
  /\ result = "idle"
  /\ ir' = Append(ir, Halt)
  /\ frames' = <<[i |-> 0, code |-> Prologue]>>
  /\ result' = "busy"
  /\ UNCHANGED src

Top == frames[Len(frames)]
opcode == ir[Top.i + 1]
Where == IF Top.i < Len(src) THEN src[Top.i + 1] ELSE -1

AtOp(kind) == result = "busy" /\ Top.i < Len(ir) /\ opcode.kind = kind

\* code_fn[kind] emits code and the loop goes on.
Emit(code) ==
  /\ frames' = [frames EXCEPT ![Len(frames)] = [i |-> @.i + 1, code |-> @.code \o code]]
  /\ UNCHANGED <<ir, src, result>>

EmitTape ==
  /\ AtOp("tape")
  /\ ~TooBig(opcode.arg)
  /\ Emit(Place(emit_add_sub("edi", opcode.arg), Where))

EmitCell ==
  /\ AtOp("cell")
  /\ ~TooBig(opcode.arg)
  /\ Emit(Place(emit_add_sub("mem", opcode.arg), Where))

EmitWrite ==
  /\ AtOp("write")
  /\ ~TooBig(opcode.arg)
  /\ Emit(emit_code_write(opcode.arg, Where))

EmitRead ==
  /\ AtOp("read")
  /\ ~TooBig(opcode.arg)
  /\ Emit(emit_code_read(opcode.arg, Where))

EmitExit ==
  /\ AtOp("halt")
  /\ Emit(Place(emit_code_exit(opcode.arg), Where))

\* ir_ctx_compile__ calls itself for the operations behind the loop_start.
EnterLoop ==
  /\ AtOp("loop_start")
  /\ frames' = Append(frames, [i |-> Top.i + 1, code |-> <<>>])
  /\ UNCHANGED <<ir, src, result>>

\* ir_ctx_compile__ returns with body as the code of its ctx.  A caller puts
\* the jump in front of it and skips the loop (i += opcode.arg: nothing, for
\* a loop_start that was never patched).
Return(body) ==
  /\ IF Len(frames) = 1
       THEN frames' = <<[Top EXCEPT !.code = body]>> /\ result' = "ok"
       ELSE LET n  == Len(frames) - 1
                up == frames[n]
                op == ir[up.i + 1]
                at == src[up.i + 1]
            IN  /\ frames' = Append(SubSeq(frames, 1, n - 1),
                     [i    |-> up.i + op.arg + 1,
                      code |-> up.code \o Place(emit_code_loop_start(Size(body)), at) \o body])
                /\ UNCHANGED result
  /\ UNCHANGED <<ir, src>>

\* A loop_end is emitted and ends the call.
EmitLoopEnd ==
  /\ AtOp("loop_end")
  /\ Return(Top.code \o Place(emit_code_loop_end(Size(Top.code)), Where))

\* Only the outermost call ends with the IR; those for loops go on looking
\* for their loop_end.
FaultyEndOfIr ==
  /\ result = "busy"
  /\ Top.i >= Len(ir)
  /\ IF Len(frames) = 1 THEN Return(Top.code)
     ELSE UNCHANGED <<frames, ir, src, result>>

\* So does the end of the IR, in the call of main and in those for loops
\* that were never closed.
EndOfIr ==
  /\ result = "busy"
  /\ Top.i >= Len(ir)
  /\ Return(Top.code)

\* COMPILE_OPERAND_SIZE is returned through all calls: the code of the loops
\* is freed, what the outermost call had emitted stays.
FailOperand ==
  /\ \E kind \in {"tape", "cell", "write", "read"} : AtOp(kind)
  /\ TooBig(opcode.arg)
  /\ frames' = <<Head(frames)>>
  /\ result' = "operand_size"
  /\ UNCHANGED <<ir, src>>

Compile ==
  \/ EnterCompile
  \/ EmitTape \/ EmitCell \/ EmitWrite \/ EmitRead \/ EmitExit
  \/ EnterLoop \/ EmitLoopEnd \/ EndOfIr
  \/ FailOperand

---------------------------------------------------------------------------
(***************************************************************************)
(* Every jump in the code of every call of ir_ctx_compile__ leads to the   *)
(* start of an instruction of that code or just behind it, whichever of    *)
(* the short and the long encodings the loops inside it were given.        *)
(***************************************************************************)
JumpsLand ==
  \A n \in 1..Len(frames) :
    LET code   == frames[n].code
        starts == {Start(code, k) : k \in 1..(Len(code) + 1)}
    IN  \A k \in 1..Len(code) :
          code[k].op \in {"je", "jne"} => Start(code, k + 1) + code[k].imm \in starts
=============================================================================
