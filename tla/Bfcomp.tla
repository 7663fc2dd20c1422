------------------------------- MODULE Bfcomp ------------------------------
(***************************************************************************)
(* main of csrc/src/main.c for a run that interprets (no -o, no -c) or     *)
(* dumps (-d): the parser and, behind it, the interpreter on the same IR.  *)
(* Whatever the file, what the interpreter does is what BfMachine says the *)
(* text means.                                                             *)
(***************************************************************************)
EXTENDS IrDump

CONSTANTS Inputs, Capacity, CellMod, SizeMod, MaxOut

VARIABLES
  dump_ir,                               \* options.dump_ir
  ip, sp, data, stdin, stdout, status,   \* of ir_interpret
  exit,      \* what main returned; -1 while it runs
  strayed    \* auxiliary: sp was out of range at some time

Interpreter == INSTANCE IrInterpret WITH Programs <- {}

\* What ir_interpret is given: a tape, bytes, a size_t it fits into.
ASSUME TapeAssumption == Capacity \in Nat \ {0}
ASSUME ByteAssumption == CellMod \in Nat \ {0}
ASSUME SizeAssumption == SizeMod \in Nat /\ SizeMod > 2 * Capacity
ASSUME StdinAssumption == \A s \in Inputs : s \in Seq(0..(CellMod - 1))

ivars == <<ip, sp, data, stdin, stdout, status>>
allvars == <<vars, ivars, dump_ir, exit, strayed>>

MainInit ==
  /\ Init
  /\ dump_ir \in BOOLEAN
  /\ Interpreter!IdleInit
  /\ exit = -1
  /\ strayed = FALSE

---------------------------------------------------------------------------
\* The loop over fread and ir_ctx_parse.
ReadFile ==
  /\ Parse
  /\ UNCHANGED <<ivars, dump_ir, exit, strayed>>

Return(code) ==
  /\ exit = -1
  /\ exit' = code
  /\ UNCHANGED <<vars, ivars, dump_ir, strayed>>

\* main passes every failure of the parser on, and success too.
FaultyReturnParseError == pc = "error" /\ Return(0)

ReturnParseError == pc = "error" /\ Return(1)

\* ir_ctx_dump_ir prints the IR; main returns.
DumpIr ==
  /\ pc = "parsed"
  /\ dump_ir
  /\ Return(0)

RunInterpreter ==
  /\ pc = "parsed"
  /\ ~dump_ir
  /\ Interpreter!Interpret
  /\ strayed' = (strayed \/ sp' \notin Interpreter!Tape)
  /\ UNCHANGED <<file, fpos, buffer, ptr, patch, pc, src, dump_ir, exit>>

ReturnInterpreted == status = "halted" /\ Return(0)

Main ==
  \/ ReadFile
  \/ ReturnParseError
  \/ DumpIr
  \/ RunInterpreter
  \/ ReturnInterpreted

\* main has returned, or the interpreter stopped before it could.
Ended ==
  /\ \/ exit # -1
     \/ status = "wild"
     \/ Interpreter!Stopped /\ status = "run"
  /\ UNCHANGED allvars

MainNext == Main \/ Ended

\* One thread, which runs until main returns.
MainSpec == MainInit /\ [][MainNext]_allvars /\ WF_allvars(Main)
---------------------------------------------------------------------------
Text == Effective(Len(file))

\* How much of the text is behind the interpreter: the operations it has
\* left are those of the characters from here on.
Position ==
  IF status = "idle" THEN 0
  ELSE IF ip + 1 = Len(ir) THEN Len(Text)
  ELSE Len(Effective(src[ip + 1]))

Machine ==
  INSTANCE BfMachine
    WITH text <- Text, pos <- Position, head <- sp, tape <- data,
         in <- stdin, out <- stdout, lost <- strayed, MaxWraps <- 1

(***************************************************************************)
(* main with the parser and the interpreter implements the language:       *)
(* merged runs, patched jumps, chunked reading and the wrapping cells come *)
(* to what the text says, one character at a time, and the head is lost    *)
(* only where a '<' crosses the left edge or a run wraps more than once.   *)
(***************************************************************************)
ImplementsMachine == Machine!Spec

(***************************************************************************)
(* main fails exactly on the texts with a ']' too many, found wherever the *)
(* chunks end, and does not touch a tape or print for them.                *)
(***************************************************************************)
TooManyEnds ==
  \E j \in 1..Len(Text) :
    Machine!Count(Text, "]", 1, j) > Machine!Count(Text, "[", 1, j)

FailsOnUnmatchedEnd ==
  /\ exit = 1 => TooManyEnds
  /\ exit = 0 => ~TooManyEnds
  /\ TooManyEnds => status = "idle" /\ stdout = <<>>

(***************************************************************************)
(* main returns, for every file without a loop that is closed: parsing,    *)
(* interpreting and dumping all come to an end.                            *)
(***************************************************************************)
Returns == (\A i \in 1..Len(file) : file[i] # "]") ~> (exit # -1 \/ status = "wild")
=============================================================================
