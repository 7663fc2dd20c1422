---------------------------- MODULE MCCompiled -----------------------------
(***************************************************************************)
(* Compilation and execution of all short files, of longer ones made of    *)
(* loops, and of samples with operands beyond 8 and 32 bits.               *)
(***************************************************************************)
EXTENDS Compiled

CONSTANTS
  ShortLen,   \* files of at most this length over CodeChars
  LoopLen     \* files of at most this length over LoopChars

CodeChars == Char \ {"nul"}
LoopChars == {"+", "-", "[", "]"}

\* count times c
Times(c, count) == [i \in 1..count |-> c]

\* Loops short and long, operands at the limits of 8 and of 32 bits.
Samples ==
  { <<"+", "+", "[", ">", "+", "<", "-", "]", ">", ".">>,
    <<",", "[", ".", ">", ",", "]", "-", ".">>,
    <<"+", "[", ">", "+", "[", "-", "]", "<", "-", "]", ".">>,
    <<"+", "[", ".", "-", "other", "[", ">", "+", "]", "]", "[", ">">>,
    <<"[", "+", "[", "-", "]", "[", "+">>,
    Times("+", INT8_MAX) \o <<".">>, Times("-", INT8_MAX + 1) \o <<".">>,
    Times("+", INT8_MAX + 1) \o <<".">>,
    Times(">", INT8_MAX + 1) \o <<"+">> \o Times("<", INT8_MAX + 1) \o <<".">>,
    <<"+", "[">> \o Times("+", INT32_MAX + 1) \o <<"]">>,
    <<"+">> \o Times("<", INT32_MAX + 2) }

\* How many of the characters of f are in cs.
CountOf(f, cs) == Len(SelectSeq(f, LAMBDA c : c \in cs))

\* A '[' without ']' doubles the code behind it: two are enough, and one
\* where the code holds a system call.  Longer jumps would exceed INT32_MAX.
FewOpen(f) ==
  CountOf(f, {"["}) <= CountOf(f, {"]"}) + (IF CountOf(f, {".", ","}) = 0 THEN 2 ELSE 1)

\* Runs of ',' are the subject of a run of their own.
OneRead(f) == \A i \in 1..(Len(f) - 1) : ~(f[i] = "," /\ f[i + 1] = ",")

MCFiles ==
  { f \in BoundedSeq(CodeChars, ShortLen) \cup BoundedSeq(LoopChars, LoopLen) \cup Samples :
      OneRead(f) /\ FewOpen(f) }

ReadFiles == BoundedSeq({",", "."}, ShortLen)

MCInputs == {<<1, 2>>}
=============================================================================
