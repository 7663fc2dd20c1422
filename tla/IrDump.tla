------------------------------- MODULE IrDump ------------------------------
(***************************************************************************)
(* ir_ctx_dump_bf of csrc/src/ir_gen.c, which prints an IR as source text, *)
(* and what it shows of the parser: the IR stands for the text read.       *)
(***************************************************************************)
EXTENDS IrGen, SequencesExt

\* putcc(c, count)
putcc(c, count) == [j \in 1..count |-> c]

\* The characters printed for one operation.
DumpOp(op) ==
  CASE op.kind = "read"       -> putcc(",", op.arg)
    [] op.kind = "write"      -> putcc(".", op.arg)
    [] op.kind = "cell"       -> IF op.arg < 0 THEN putcc("-", -op.arg)
                                               ELSE putcc("+", op.arg)
    [] op.kind = "tape"       -> IF op.arg < 0 THEN putcc("<", -op.arg)
                                               ELSE putcc(">", op.arg)
    [] op.kind = "loop_start" -> <<"[">>
    [] op.kind = "loop_end"   -> <<"]">>
    [] OTHER                  -> putcc("#", op.arg)

DumpStep(text, op) == text \o DumpOp(op)

ir_ctx_dump_bf == FoldLeft(DumpStep, <<>>, ir)

---------------------------------------------------------------------------
\* The text without comments, every pair of neighbouring inverse commands
\* cancelled: two texts with the same normal form run alike.
Cancels(a, b) == <<a, b>> \in {<<"+", "-">>, <<"-", "+">>, <<">", "<">>, <<"<", ">">>}

NormalStep(acc, c) ==
  IF c = "other" THEN acc
  ELSE IF acc # <<>> /\ Cancels(Last(acc), c) THEN Front(acc)
  ELSE Append(acc, c)

Normal(text) == FoldLeft(NormalStep, <<>>, text)

\* Where the chunk of the character i starts.
ChunkStart(i) == i - ((i - 1) % BUFLEN)

\* The first n characters of the file that reach the parser: those that no
\* NUL precedes in their chunk.
Effective(n) ==
  LET kept == {i \in 1..n : \A j \in ChunkStart(i)..i : file[j] # "nul"}
  IN  [k \in 1..Cardinality(kept) |->
         file[CHOOSE i \in kept : Cardinality(kept \cap 1..i) = k]]

(***************************************************************************)
(* Whatever the chunks, the IR that ir_ctx_parse has built, printed by     *)
(* ir_ctx_dump_bf, is the consumed text up to comments and cancellation:   *)
(* no command is lost, doubled or moved.                                   *)
(***************************************************************************)
DumpsSource == Normal(ir_ctx_dump_bf) = Normal(Effective(Offset))
=============================================================================
