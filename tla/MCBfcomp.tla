----------------------------- MODULE MCBfcomp ------------------------------
(***************************************************************************)
(* main on all short files, and on longer ones over the commands that make *)
(* loops and cross the edges of the tape.                                  *)
(***************************************************************************)
EXTENDS Bfcomp

CONSTANTS
  ShortLen,  \* files of at most this length over Char
  LongLen    \* files of at most this length over LoopChars or EdgeChars

LoopChars == {"+", "-", ">", "<", "[", "]"}
EdgeChars == {">", "<", ".", ","}

\* Loops that copy, echo, nest, wrap a cell, straddle chunks and comments.
Samples ==
  { <<"+", "+", "[", ">", "+", "<", "-", "]", ">", ".">>,
    <<",", "[", ".", ",", "]", "-", ".">>,
    <<"+", "[", ">", "+", "[", "-", "]", "<", "-", "]", ".">>,
    <<"-", "other", "[", "nul", ">", "-", "[", "other", "+", "]", ".", "<", "+", "]">>,
    <<"+", "+", "other", "+", "[", "-", "other", "-", "]", ".", "[">> }

MCFiles ==
  BoundedSeq(Char, ShortLen) \cup BoundedSeq(LoopChars, LongLen)
    \cup BoundedSeq(EdgeChars, LongLen) \cup Samples

MCInputs == {<<1>>}
=============================================================================
