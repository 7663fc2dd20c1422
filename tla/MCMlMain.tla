----------------------------- MODULE MCMlMain ------------------------------
(***************************************************************************)
(* The OCaml pipeline on all short texts, on longer ones made of loops,    *)
(* and on samples of nested and neighbouring loops.                        *)
(***************************************************************************)
EXTENDS MlMain

CONSTANTS
  ShortLen,  \* texts of at most this length over AllChars
  LoopLen    \* texts of at most this length over LoopChars

AllChars  == {"+", "-", ">", "<", "[", "]", ".", ",", "other"}
LoopChars == {"+", ">", "[", "]"}

\* Dead loops inside a loop, multiplication, clearing by steps of two.
Samples ==
  { <<"+", "[", "[", "-", "]", "[", ".", "+", "]", "]", ".">>,
    <<"+", "+", "[", ">", "+", "<", "-", "]", ">", ".">>,
    <<"+", "[", "[", "-", ">", "+", "<", "]", "[", ">", "]", "]", ">", ".">>,
    <<"+", "+", "[", "-", "-", "]", ".">>,
    <<"+", ">", "[", "-", "]", "<", "[", ".", "-", "]", ".">> }

\* As in bitwidth.bf: a loop that clears, and one that never runs.
Neighbours ==
  { <<"+", "[", "-", "]", "[", ".", "-", "]">>,
    <<"+", "[", ".", "-", "]", "[", "-", "]">> }

MCTexts ==
  BoundedSeq(AllChars, ShortLen) \cup BoundedSeq(LoopChars, LoopLen) \cup Samples

MCInputs == {<<1>>}
=============================================================================
