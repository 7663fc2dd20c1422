------------------------------- MODULE IrGen -------------------------------
(***************************************************************************)
(* The parser: ir_ctx_parse of csrc/src/ir_gen.c, called by main           *)
(* (csrc/src/main.c) once for every chunk of at most BUFLEN characters     *)
(* that fread takes from the source file.  The IR and the stack of open    *)
(* loops (ctx->patch) survive from one chunk to the next; a run of equal   *)
(* characters, and a loop, may straddle a chunk.                           *)
(*                                                                         *)
(* A step of the specification is one iteration of the while loop of       *)
(* ir_ctx_parse, one fread, or the end of one call.                        *)
(***************************************************************************)
EXTENDS Ir

CONSTANTS
  Files,    \* the source files the program may be given
  BUFLEN    \* BUFLEN of main.c, the most characters one fread returns

\* The characters the parser tells apart.  "other" is any byte that is not
\* a command, "nul" the byte 0, which ends the C string the parser is given.
Char == {"+", "-", ">", "<", "[", "]", ".", ",", "other", "nul"}

ASSUME BuflenAssumption == BUFLEN \in Nat \ {0}
ASSUME FilesAssumption == \A f \in Files : f \in Seq(Char)

VARIABLES
  file,     \* the characters of in_file
  fpos,     \* how many of them fread has returned
  buffer,   \* the chunk ir_ctx_parse is called with
  ptr,      \* how many characters of the chunk are consumed (ptr - src)
  ir,       \* ctx->data[0 .. length-1]
  patch,    \* ctx->patch: addresses of the open loops, innermost last
  pc,       \* "read": at fread; "parse": in ir_ctx_parse;
            \* "parsed": past the loop of main; "error": main returned 1
  src       \* auxiliary: for every operation, how many characters of the
            \* file precede the first character it stands for

vars == <<file, fpos, buffer, ptr, ir, patch, pc, src>>

TypeOK ==
  /\ file \in Seq(Char)
  /\ fpos \in 0..Len(file)
  /\ buffer \in Seq(Char)
  /\ ptr \in 0..Len(buffer)
  /\ Len(buffer) <= fpos
  /\ ir \in Seq(OpType)
  /\ patch \in Seq(Nat)
  /\ pc \in {"read", "parse", "parsed", "error"}
  /\ src \in Seq(Nat)
  /\ Len(src) = Len(ir)

Init ==
  /\ file \in Files
  /\ fpos = 0
  /\ buffer = <<>>
  /\ ptr = 0
  /\ ir = <<>>
  /\ patch = <<>>
  /\ pc = "read"
  /\ src = <<>>

---------------------------------------------------------------------------
Smaller(a, b) == IF a < b THEN a ELSE b

(***************************************************************************)
(* Definitions named Faulty... are variants with a plausible slip.  No      *)
(* specification uses them: TLC substitutes them to show that a property   *)
(* can fail.                                                               *)
(***************************************************************************)

\* The count fread was asked for is taken for the one it returned.
FaultyFread ==
  /\ pc = "read"
  /\ fpos' = fpos + BUFLEN
  /\ buffer' = SubSeq(file, fpos + 1, Smaller(fpos', Len(file)))
  /\ ptr' = 0
  /\ pc' = "parse"
  /\ UNCHANGED <<file, ir, patch, src>>

(***************************************************************************)
(* fread fills the buffer as far as the file allows; main terminates it    *)
(* with a NUL and calls ir_ctx_parse.                                      *)
(***************************************************************************)
Fread ==
  /\ pc = "read"
  /\ fpos' = Smaller(fpos + BUFLEN, Len(file))
  /\ buffer' = SubSeq(file, fpos + 1, fpos')
  /\ ptr' = 0
  /\ pc' = "parse"
  /\ UNCHANGED <<file, ir, patch, src>>

\* *ptr is c.
At(c) == ptr < Len(buffer) /\ buffer[ptr + 1] = c

\* Position in the file of the character at ptr.
Offset == fpos - Len(buffer) + ptr

(***************************************************************************)
(* count_char(ptr, c) returned count: the characters at ptr .. ptr+count-1 *)
(* are all c and the one behind them (the terminating NUL at the end of    *)
(* the chunk) is not.                                                      *)
(***************************************************************************)
count_char(c, count) ==
  /\ \A i \in 1..count : buffer[ptr + i] = c
  /\ ptr + count < Len(buffer) => buffer[ptr + count + 1] # c

\* vec_push
Push(kind, arg) ==
  /\ ir' = Append(ir, Op(kind, arg))
  /\ src' = Append(src, Offset)

\* A run is merged with whatever operation comes last.
FaultyLastIsAny(kind) == Len(ir) > 0

\* Nothing is ever merged.
FaultyLastIsNone(kind) == FALSE

\* ctx->length > 0 && vec_last(ctx).kind == kind
LastIs(kind) == Len(ir) > 0 /\ ir[Len(ir)].kind = kind

\* vec_last(ctx).arg += delta; only the parser's own tape and cell
\* operations are merged.
MergeLast(delta) ==
  /\ ir' = [ir EXCEPT ![Len(ir)].arg = @ + delta]
  /\ UNCHANGED src

\* A run of c that pushes an operation of its own (',' and '.').
PushRun(c, kind) ==
  /\ pc = "parse"
  /\ At(c)
  /\ \E count \in 1..(Len(buffer) - ptr) :
       /\ count_char(c, count)
       /\ Push(kind, count)
       /\ ptr' = ptr + count
  /\ UNCHANGED <<file, fpos, buffer, patch, pc>>

\* A run of c that adds sign * count to the last operation if that is of
\* the same kind, and pushes a new one if not.
AddRun(c, kind, sign) ==
  /\ pc = "parse"
  /\ At(c)
  /\ \E count \in 1..(Len(buffer) - ptr) :
       /\ count_char(c, count)
       /\ IF LastIs(kind) THEN MergeLast(sign * count)
                          ELSE Push(kind, sign * count)
       /\ ptr' = ptr + count
  /\ UNCHANGED <<file, fpos, buffer, patch, pc>>

ParseRead  == PushRun(",", "read")
ParseWrite == PushRun(".", "write")
ParsePlus  == AddRun("+", "cell", 1)
ParseMinus == AddRun("-", "cell", -1)
ParseRight == AddRun(">", "tape", 1)
ParseLeft  == AddRun("<", "tape", -1)

\* '[': remember the address of the operation, whose argument is patched
\* when the ']' is met.
ParseLoopStart ==
  /\ pc = "parse"
  /\ At("[")
  /\ patch' = Append(patch, Len(ir))
  /\ Push("loop_start", 0)
  /\ ptr' = ptr + 1
  /\ UNCHANGED <<file, fpos, buffer, pc>>

\* The open loops are a queue: the outermost one is closed first.
FaultyInnermost == patch[1]

\* The address on top of the stack of open loops.
Innermost == patch[Len(patch)]

\* The stack keeps the loop that was closed.
FaultyPopped == patch

Popped == SubSeq(patch, 1, Len(patch) - 1)

\* The distance counts the loop_end, too.
FaultyDelta(addr) == Len(ir) - addr + 1

\* The distance from the loop_start at addr to the loop_end to be pushed.
Delta(addr) == Len(ir) - addr

\* ']' with an open loop: patch its start, push its end.
ParseLoopEnd ==
  /\ pc = "parse"
  /\ At("]")
  /\ Len(patch) > 0
  /\ ir' = Append([ir EXCEPT ![Innermost + 1] = Op("loop_start", Delta(Innermost))],
                  Op("loop_end", -Delta(Innermost)))
  /\ src' = Append(src, Offset)
  /\ patch' = Popped
  /\ ptr' = ptr + 1
  /\ UNCHANGED <<file, fpos, buffer, pc>>

\* ']' without one: ir_ctx_parse returns 1 and so does main.
ParseUnmatched ==
  /\ pc = "parse"
  /\ At("]")
  /\ Len(patch) = 0
  /\ pc' = "error"
  /\ UNCHANGED <<file, fpos, buffer, ptr, ir, patch, src>>

\* No case of the switch: the run is skipped.
ParseOther ==
  /\ pc = "parse"
  /\ At("other")
  /\ \E count \in 1..(Len(buffer) - ptr) :
       /\ count_char("other", count)
       /\ ptr' = ptr + count
  /\ UNCHANGED <<file, fpos, buffer, ir, patch, pc, src>>

\* The loop of main never sees an empty read.
FaultyParseReturn ==
  /\ pc = "parse"
  /\ ptr < Len(buffer) => At("nul")
  /\ pc' = "read"
  /\ UNCHANGED <<file, fpos, buffer, ptr, ir, patch, src>>

\* *ptr is NUL, the terminating one or one of the file: ir_ctx_parse returns
\* 0, and what is behind it in the chunk is dropped.  main reads on until
\* fread has returned nothing.
ParseReturn ==
  /\ pc = "parse"
  /\ ptr < Len(buffer) => At("nul")
  /\ pc' = IF Len(buffer) > 0 THEN "read" ELSE "parsed"
  /\ UNCHANGED <<file, fpos, buffer, ptr, ir, patch, src>>

ParseChar ==
  \/ ParseRead \/ ParseWrite
  \/ ParsePlus \/ ParseMinus \/ ParseRight \/ ParseLeft
  \/ ParseLoopStart \/ ParseLoopEnd \/ ParseUnmatched
  \/ ParseOther

Parse == Fread \/ ParseChar \/ ParseReturn

\* The parser has nothing left to do.
Finished ==
  /\ pc \in {"parsed", "error"}
  /\ UNCHANGED vars

Next == Parse \/ Finished

\* main calls the parser in a loop it does not leave before it is done.
Spec == Init /\ [][Next]_vars /\ WF_vars(Parse)
---------------------------------------------------------------------------
(***************************************************************************)
(* The stack of ir_ctx_parse (ctx->patch) always holds, in the order of    *)
(* the source and whatever the chunks were, exactly the loop_starts whose  *)
(* argument is still 0: a ']' of a later chunk patches the right element   *)
(* of ctx->data, and no element twice.                                     *)
(***************************************************************************)
PatchesOpen == StackIsOpen(ir, patch)

(***************************************************************************)
(* The deltas that ir_ctx_parse computes for ']' lead from a loop_start to *)
(* its loop_end and back, also for the loops closed long ago.              *)
(***************************************************************************)
DeltasMatch == LoopsMatched(ir)

(***************************************************************************)
(* Loops closed by ir_ctx_parse are properly nested, and a loop that is    *)
(* still open never starts inside one that is closed.                      *)
(***************************************************************************)
ProperNesting == LoopsNested(ir) /\ OpenOutside(ir, patch)

(***************************************************************************)
(* The merging of '+', '-', '>' and '<' runs is complete: comments and     *)
(* chunk boundaries never leave two neighbouring tape or two neighbouring  *)
(* cell operations.                                                        *)
(***************************************************************************)
Contracted == RunsMerged(ir)

(***************************************************************************)
(* The loop of main over fread and ir_ctx_parse ends for every file.       *)
(***************************************************************************)
ParseTerminates == <>(pc \in {"parsed", "error"})

(***************************************************************************)
(* The inductive invariant: what the parser's state means at every step.   *)
(***************************************************************************)
IInv ==
  /\ TypeOK
  /\ PatchesOpen
  /\ DeltasMatch
  /\ ProperNesting
  /\ Contracted
  /\ \A i \in 1..Len(ir) : ir[i].kind \notin {"halt", "set"}

(***************************************************************************)
(* Once main has left its reading loop, ir_interpret and ir_ctx_compile    *)
(* get a well-formed program when they push the halt.                      *)
(***************************************************************************)
ParsedWellFormed == pc = "parsed" => WellFormed(Append(ir, Halt))
=============================================================================
