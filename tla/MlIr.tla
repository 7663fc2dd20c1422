-------------------------------- MODULE MlIr -------------------------------
(***************************************************************************)
(* The OCaml implementation as functions: Parser.parse (lib/parser.ml),    *)
(* the optimisation passes of Ir.Pass (lib/ir.ml) and Interpreter.run      *)
(* (bin/interpreter.ml).  A list is a sequence, its head first; the code   *)
(* is a list of instructions, and the body of a loop is code again.        *)
(* Definitions named Faulty... are variants with a slip, used to show that *)
(* properties can fail.                                                    *)
(***************************************************************************)
EXTENDS Integers, SequencesExt

CONSTANTS
  TapeSize,   \* the cells of the tape, 30_000
  CellMod,    \* the values of a char, 256
  Fuel        \* bound on the iterations of loops in one run

\* Ir.t.  Read and Write have no argument; every instruction is a record of
\* the same fields.
Instr(kind, arg, body) == [kind |-> kind, arg |-> arg, body |-> body]

Tape(x)    == Instr("tape", x, <<>>)
Cell(x)    == Instr("cell", x, <<>>)
Set(x)     == Instr("set", x, <<>>)
Read       == Instr("read", 0, <<>>)
Write      == Instr("write", 0, <<>>)
Loop(body) == Instr("loop", 0, body)

IsLoop(i) == i.kind = "loop"

---------------------------------------------------------------------------
\* The instruction of a character that is neither a bracket nor a comment.
Command(c) ==
  CASE c = "+" -> Cell(1)
    [] c = "-" -> Cell(-1)
    [] c = ">" -> Tape(1)
    [] c = "<" -> Tape(-1)
    [] c = "," -> Read
    [] c = "." -> Write

\* The body of a loop keeps the order it was collected in.
FaultyLoopBody(collected) == Loop(collected)

\* parse_stream s |> List.rev
LoopBody(collected) == Loop(Reverse(collected))

\* parse_stream and parse_char from character i on, with what is collected
\* so far in acc, the last instruction first.  A ']' ends the call, also
\* the outermost one; so does the end of the text, in every call.
RECURSIVE parse_stream(_, _, _)
parse_stream(text, i, acc) ==
  IF i > Len(text) THEN [code |-> acc, next |-> i]
  ELSE CASE text[i] = "]" -> [code |-> acc, next |-> i + 1]
         [] text[i] = "other" -> parse_stream(text, i + 1, acc)
         [] text[i] = "[" ->
              LET inner == parse_stream(text, i + 1, <<>>)
              IN  parse_stream(text, inner.next, Cons(LoopBody(inner.code), acc))
         [] OTHER -> parse_stream(text, i + 1, Cons(Command(text[i]), acc))

parse(text) == Reverse(parse_stream(text, 1, <<>>).code)

---------------------------------------------------------------------------
\* Only the loop that counts down is recognised.
FaultyZeroLoop(code, instr) ==
  IF IsLoop(instr) /\ Len(instr.body) = 1 /\ instr.body[1] = Cell(-1)
    THEN Cons(Set(0), code)
    ELSE Cons(instr, code)

zero_loop(code, instr) ==
  IF IsLoop(instr) /\ Len(instr.body) = 1 /\ instr.body[1].kind = "cell"
    THEN Cons(Set(0), code)
    ELSE Cons(instr, code)

dead_code(code, instr) ==
  IF code # <<>> /\ IsLoop(Head(code)) /\ IsLoop(instr) THEN code
  ELSE Cons(instr, code)

contraction(code, instr) ==
  IF code # <<>> /\ Head(code).kind = instr.kind /\ instr.kind \in {"tape", "cell"}
    THEN Cons([instr EXCEPT !.arg = @ + Head(code).arg], Tail(code))
    ELSE Cons(instr, code)

Pass(name, code, instr) ==
  CASE name = "contraction" -> contraction(code, instr)
    [] name = "dead_code"   -> dead_code(code, instr)
    [] name = "zero_loop"   -> zero_loop(code, instr)

\* The bodies of loops are left in the order of the fold.
FaultyBody(body) == body

\* g pass body |> List.rev, once g has folded the body.
Body(folded) == Reverse(folded)

\* One pass over code, by the local functions f and g of Pass.run.  The
\* fold leaves its result in reverse; for the body of a loop, but not for
\* the whole, that is undone.
RECURSIVE g(_, _)
g(name, code) ==
  FoldLeft(LAMBDA out, i : Pass(name, out, IF IsLoop(i) THEN Loop(Body(g(name, i.body)))
                                                        ELSE i),
           <<>>, code)

---------------------------------------------------------------------------
\* Interpreter.run.  m holds dp, tape, in, out, the fuel left and status:
\* "ok", "exception" (an index out of bounds, or End_of_file) or "fuel".
Access(m) ==
  IF m.dp \in DOMAIN m.tape THEN m ELSE [m EXCEPT !.status = "exception"]

\* An instruction that is no loop, the access to the cell being legal.
Simple(i, m) ==
  CASE i.kind = "set"   -> [m EXCEPT !.tape[m.dp] = i.arg]
    [] i.kind = "cell"  -> [m EXCEPT !.tape[m.dp] = (@ + i.arg) % CellMod]
    [] i.kind = "write" -> [m EXCEPT !.out = Append(@, m.tape[m.dp])]
    [] i.kind = "read"  -> IF m.in = <<>> THEN [m EXCEPT !.status = "exception"]
                           ELSE [m EXCEPT !.tape[m.dp] = Head(m.in), !.in = Tail(@)]

RECURSIVE f(_, _, _), loop(_, _)

\* The instructions of p from ip on.
f(p, ip, m) ==
  IF ip > Len(p) \/ m.status # "ok" THEN m
  ELSE LET i == p[ip]
       IN  f(p, ip + 1,
             IF i.kind = "tape" THEN [m EXCEPT !.dp = @ + i.arg]
             ELSE IF IsLoop(i) THEN loop(i.body, m)
             ELSE IF Access(m).status = "ok" THEN Simple(i, m)
             ELSE Access(m))

loop(body, m) ==
  IF m.status # "ok" THEN m
  ELSE IF Access(m).status # "ok" THEN Access(m)
  ELSE IF m.tape[m.dp] = 0 THEN m
  ELSE IF m.fuel = 0 THEN [m EXCEPT !.status = "fuel"]
  ELSE loop(body, f(body, 1, [m EXCEPT !.fuel = @ - 1]))

run(program, input) ==
  f(program, 1, [dp |-> 0, tape |-> [a \in 0..(TapeSize - 1) |-> 0], in |-> input,
                 out |-> <<>>, fuel |-> Fuel, status |-> "ok"])
=============================================================================
