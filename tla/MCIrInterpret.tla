--------------------------- MODULE MCIrInterpret ---------------------------
(***************************************************************************)
(* The interpreter on every program of at most MaxLen operations that the  *)
(* parser can produce, with arguments small enough to cross each edge of   *)
(* the tape once or twice.                                                 *)
(***************************************************************************)
EXTENDS IrInterpret, SequencesExt

CONSTANT MaxLen

MCOps ==
  [kind : {"tape"}, arg : {-1, 1, Capacity, 2 * Capacity}]
    \cup [kind : {"cell"}, arg : {-1, 1}]
    \cup [kind : {"read", "write"}, arg : {1, 2}]
    \cup [kind : {"loop_start"}, arg : 0..(MaxLen - 1)]
    \cup [kind : {"loop_end"}, arg : -(MaxLen - 1)..-1]

\* The unpatched loops, in order: the stack the parser is left with.
OpenLoops(p) ==
  LET open == SelectSeq([i \in 1..Len(p) |-> i],
                        LAMBDA i : p[i] = Op("loop_start", 0))
  IN  [k \in 1..Len(open) |-> open[k] - 1]

MCPrograms ==
  { p \in BoundedSeq(MCOps, MaxLen) :
      /\ LoopsMatched(p)
      /\ LoopsNested(p)
      /\ OpenOutside(p, OpenLoops(p))
      /\ RunsMerged(p) }

MCInputs == {<<>>, <<1, 0>>}
=============================================================================
