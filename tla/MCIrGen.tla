------------------------------ MODULE MCIrGen ------------------------------
(***************************************************************************)
(* The parser on all short files over every character and on longer ones   *)
(* over the characters whose order matters most.                           *)
(***************************************************************************)
EXTENDS IrDump

CONSTANTS
  ShortLen,  \* files of at most this length over Char
  LongLen    \* files of at most this length over LongChars

LongChars == {"+", "-", "[", "]"}

MCFiles == BoundedSeq(Char, ShortLen) \cup BoundedSeq(LongChars, LongLen)
=============================================================================
