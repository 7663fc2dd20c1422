------------------------------ MODULE Compiled -----------------------------
(***************************************************************************)
(* main of csrc/src/main.c for a run that compiles (-o or -c), and the     *)
(* executable it leaves behind: the parser, the compiler, write_elf_file   *)
(* and the program it wrote, run after main has returned.  What the        *)
(* executable does is what BfMachine says the text means.                  *)
(***************************************************************************)
EXTENDS IrDump

CONSTANTS INT8_MAX, INT32_MAX, Inputs, Capacity, CellMod, MaxOut

ASSUME Int8Assumption == INT8_MAX \in Nat \ {0}
ASSUME Int32Assumption == INT32_MAX \in Nat /\ INT32_MAX >= INT8_MAX
ASSUME CapacityAssumption == Capacity \in Nat \ {0}

VARIABLES
  frames, result,       \* of ir_ctx_compile
  exit,                 \* what main returned; -1 while it runs
  text,                 \* the code in the output file
  eip, regs, zf, mem, stdin, stdout, status,   \* of the program, once run
  strayed               \* auxiliary: edi was outside .bss at some time

Compiler == INSTANCE IrCompile
Cpu == INSTANCE X86

xvars == <<eip, regs, zf, mem, stdin, stdout, status>>
allvars == <<vars, frames, result, exit, text, xvars, strayed>>

MainInit ==
  /\ Init
  /\ Compiler!CompileInit
  /\ exit = -1
  /\ text = <<>>
  /\ eip = 0
  /\ regs = [r \in Compiler!Registers |-> 0]
  /\ zf = FALSE
  /\ mem = [a \in Cpu!Tape |-> 0]
  /\ stdin \in Inputs
  /\ stdout = <<>>
  /\ status = "idle"
  /\ strayed = FALSE

---------------------------------------------------------------------------
ReadFile ==
  /\ Parse
  /\ UNCHANGED <<frames, result, exit, text, xvars, strayed>>

ReturnParseError ==
  /\ pc = "error"
  /\ exit = -1
  /\ exit' = 1
  /\ UNCHANGED <<vars, frames, result, text, xvars, strayed>>

CompileIr ==
  /\ pc = "parsed"
  /\ Compiler!Compile
  /\ UNCHANGED <<file, fpos, buffer, ptr, patch, pc, exit, text, xvars, strayed>>

\* *(int32_t *)(text->data + 1) = bss->header.p_vaddr
PatchBss(code) == [code EXCEPT ![1].imm = 0]

\* The rest of write_elf_file: whatever ir_ctx_compile returned, the code is
\* patched and written, and main returns 0.
WriteElf ==
  /\ result \in {"ok", "operand_size"}
  /\ exit = -1
  /\ text' = Compiler!Load(PatchBss(frames[1].code))
  /\ exit' = 0
  /\ UNCHANGED <<vars, frames, result, xvars, strayed>>

Main == ReadFile \/ ReturnParseError \/ CompileIr \/ WriteElf

\* The executable is run, once.
Start ==
  /\ exit = 0
  /\ status = "idle"
  /\ status' = "run"
  /\ UNCHANGED <<vars, frames, result, exit, text, eip, regs, zf, mem, stdin, stdout, strayed>>

RunProgram ==
  /\ Cpu!Step
  /\ strayed' = (strayed \/ regs["edi"]' \notin Cpu!Tape)
  /\ UNCHANGED <<vars, frames, result, exit, text>>

Ended ==
  /\ exit = 1 \/ status \in {"exited", "wild"} \/ Cpu!Full
  /\ UNCHANGED allvars

MainNext == Main \/ Start \/ RunProgram \/ Ended

\* main runs until it returns, the program until it ends.
MainSpec ==
  /\ MainInit
  /\ [][MainNext]_allvars
  /\ WF_allvars(Main)
  /\ WF_allvars(RunProgram)
---------------------------------------------------------------------------
Text == Effective(Len(file))

\* A complete program is running, or has ended.
Running == result = "ok" /\ status # "idle"

\* How much of the text is behind the instruction at eip.  What has moved
\* past the last one (the exit) is at the end of the text.
Position ==
  IF ~Running THEN 0
  ELSE LET places == {ins.at : ins \in Cpu!Fetched} \ {-1}
       IN  IF places = {} THEN Len(Text) ELSE Len(Effective(CHOOSE at \in places : TRUE))

Machine ==
  INSTANCE BfMachine
    WITH text <- Text, pos <- Position,
         head <- IF Running THEN regs["edi"] ELSE 0,
         tape <- IF Running THEN mem ELSE [a \in Cpu!Tape |-> 0],
         in <- stdin,
         out <- IF Running THEN stdout ELSE <<>>,
         lost <- Running /\ strayed,
         MaxWraps <- 0

(***************************************************************************)
(* The executable that ir_ctx_compile and write_elf_file produce           *)
(* implements the language: the encodings of ir_compile.c, the short and   *)
(* long jumps, the system calls and the code emitted twice behind a '['    *)
(* without ']' come to what the text says.  The head is lost only where it *)
(* crosses an edge of the tape.                                            *)
(***************************************************************************)
ImplementsMachine == Machine!Spec

(***************************************************************************)
(* A run of ',' reads as many bytes as it has characters in the executable *)
(* too, as ir_fmt_op shows it ("read %ld") and as ir_interpret does.       *)
(***************************************************************************)
ReadsAsCounted == Machine!Spec

(***************************************************************************)
(* The program that ir_ctx_compile completes never executes bytes that do  *)
(* not start an instruction, nor touches memory outside .bss, unless it    *)
(* has moved over an edge of the tape.                                     *)
(***************************************************************************)
WildOnlyIfStrayed == status = "wild" /\ result = "ok" => strayed

(***************************************************************************)
(* In every call of ir_ctx_compile__, and so in the executable, the jumps  *)
(* lead to the starts of instructions (see IrCompile).                     *)
(***************************************************************************)
JumpsLand == Compiler!JumpsLand

(***************************************************************************)
(* main returns: the recursion of ir_ctx_compile__ ends for every IR the   *)
(* parser builds.                                                          *)
(***************************************************************************)
Returns == <>(exit # -1)
=============================================================================
