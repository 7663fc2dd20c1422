------------------------------- MODULE MlMain ------------------------------
(***************************************************************************)
(* main of bin/main.ml: parse, the passes of Ir.Pass.run one after the     *)
(* other, finalize, and Interpreter.run.                                   *)
(***************************************************************************)
EXTENDS MlIr

CONSTANTS
  Texts,     \* the sources
  Inputs     \* what stdin may hold

VARIABLES
  text, input,
  stage,     \* "parse", "passes", "interpret", "done"
  passes,    \* the passes still to run
  code,      \* the list that Pass.run folds over
  final      \* the interpreter's state when it has ended

vars == <<text, input, stage, passes, code, final>>

Passes == <<"contraction", "dead_code", "zero_loop">>

Init ==
  /\ text \in Texts
  /\ input \in Inputs
  /\ stage = "parse"
  /\ passes = Passes
  /\ code = <<>>
  /\ final = <<>>

Parse ==
  /\ stage = "parse"
  /\ code' = parse(text)
  /\ stage' = "passes"
  /\ UNCHANGED <<text, input, passes, final>>

\* List.fold_left run_passes code passes
RunPass ==
  /\ stage = "passes"
  /\ passes # <<>>
  /\ code' = g(Head(passes), code)
  /\ passes' = Tail(passes)
  /\ UNCHANGED <<text, input, stage, final>>

finalize ==
  /\ stage = "passes"
  /\ passes = <<>>
  /\ code' = Reverse(code)
  /\ stage' = "interpret"
  /\ UNCHANGED <<text, input, passes, final>>

Interpret ==
  /\ stage = "interpret"
  /\ final' = <<run(code, input)>>
  /\ stage' = "done"
  /\ UNCHANGED <<text, input, passes, code>>

Ended == stage = "done" /\ UNCHANGED vars

Next == Parse \/ RunPass \/ finalize \/ Interpret \/ Ended

Spec == Init /\ [][Next]_vars
---------------------------------------------------------------------------
\* What the unoptimised program would have done.
Reference == run(parse(text), input)

\* The same end: the fuel may differ, a pass saves iterations.
SameEnd(m, n) == [m EXCEPT !.fuel = 0] = [n EXCEPT !.fuel = 0]

\* Two loops in a row outside every loop, which dead_code meets in reverse.
LoopPair ==
  \E i \in 1..(Len(parse(text)) - 1) : IsLoop(parse(text)[i]) /\ IsLoop(parse(text)[i + 1])

Preserved ==
  stage = "done" /\ Reference.status # "fuel" => SameEnd(final[1], Reference)

\* A loop that adds an even number, or nothing, to the current cell and so
\* may never end: zero_loop takes it for one that clears the cell.
RECURSIVE EvenClear(_)
EvenClear(list) ==
  \E i \in 1..Len(list) :
    /\ IsLoop(list[i])
    /\ LET body == list[i].body
       IN  \/ EvenClear(body)
           \/ /\ body # <<>>
              /\ \A j \in 1..Len(body) : body[j].kind = "cell"
              /\ FoldLeft(LAMBDA sum, k : sum + k.arg, 0, body) % 2 = 0

\* No pass ends a program that does not end, but for such a loop.
NoneEnds ==
  stage = "done" /\ Reference.status = "fuel" /\ final[1].status # "fuel"
    => EvenClear(parse(text))

(***************************************************************************)
(* Whatever Ir.Pass.run merges, drops and replaces, at any depth of        *)
(* nesting and in whatever order a pass leaves the list, a program that    *)
(* ends still ends with the same tape, head and output, or the same        *)
(* exception, and one that does not end still does not, unless zero_loop   *)
(* meets a loop of an even step; all this as long as no two loops follow   *)
(* each other outside of loops.                                            *)
(***************************************************************************)
PassesPreserve == ~LoopPair => Preserved /\ NoneEnds

(***************************************************************************)
(* The passes do their work at every depth: in the code Interpreter.run    *)
(* gets, no loop follows a loop, no loop only clears a cell, and no two    *)
(* moves or additions are neighbours.                                      *)
(***************************************************************************)
RECURSIVE Reduced(_)
Reduced(list) ==
  /\ \A i \in 1..(Len(list) - 1) :
       list[i].kind \in {"loop", "tape", "cell"} => list[i + 1].kind # list[i].kind
  /\ \A i \in 1..Len(list) :
       IsLoop(list[i]) =>
         /\ ~(Len(list[i].body) = 1 /\ list[i].body[1].kind = "cell")
         /\ Reduced(list[i].body)

PassesReduce == stage = "interpret" => Reduced(code)

\* show_t of main.ml, for code that has not been through a pass.
RECURSIVE show(_)
show(list) ==
  FoldLeft(LAMBDA acc, i : acc \o
             (IF IsLoop(i) THEN <<"[">> \o show(i.body) \o <<"]">>
              ELSE CASE i.kind = "tape"  -> <<IF i.arg < 0 THEN "<" ELSE ">">>
                     [] i.kind = "cell"  -> <<IF i.arg < 0 THEN "-" ELSE "+">>
                     [] i.kind = "read"  -> <<",">>
                     [] i.kind = "write" -> <<".">>),
           <<>>, list)

Commands(chars) == SelectSeq(chars, LAMBDA c : c # "other")

\* The '[' less the ']' among chars.
Depth(chars) ==
  Len(SelectSeq(chars, LAMBDA c : c = "[")) - Len(SelectSeq(chars, LAMBDA c : c = "]"))

\* The text up to the first ']' without a '['.
Parsed ==
  LET inside == {n \in 0..Len(text) : \A i \in 0..n : Depth(SubSeq(text, 1, i)) >= 0}
  IN  SubSeq(text, 1, Max(inside))

(***************************************************************************)
(* Parser.parse, with its lists collected in reverse at every depth, loses *)
(* no command in front of the first unmatched ']' and keeps their order:   *)
(* printed again by show_t, the code is the text so far without its        *)
(* comments, each '[' left open being closed at the end.                   *)
(***************************************************************************)
ParsesAll ==
  stage = "passes" /\ passes = Passes
    => show(code) = Commands(Parsed) \o [i \in 1..Depth(Parsed) |-> "]"]

(***************************************************************************)
(* dead_code drops the loop that is never executed, the second of two in a *)
(* row: the passes preserve every program (bf_test/bitwidth.bf relies on   *)
(* it).                                                                    *)
(***************************************************************************)
DeadCodeIsDead == Preserved
=============================================================================
