----------------------------- MODULE BfMachine -----------------------------
(***************************************************************************)
(* What running a program means: the language the interpreter and the      *)
(* compiled program are to implement, one character of the source at a     *)
(* time.  A step of the machine executes any number of characters, since   *)
(* an implementation may execute a run of them at once.                    *)
(*                                                                         *)
(* The tape is circular.  An implementation may lose its way at an edge of *)
(* it (`lost'): where the head crosses the left edge, or crosses the right *)
(* edge more than MaxWraps times in one step.  Nothing is promised after   *)
(* that; the definition says exactly which programs are safe from it.      *)
(***************************************************************************)
EXTENDS Integers, FiniteSets, SequencesExt

CONSTANTS Capacity, CellMod, MaxWraps

VARIABLES
  text,   \* the source
  pos,    \* how many characters of it are behind the machine
  head,   \* the current cell
  tape,   \* the cells
  in,     \* the input not read yet
  out,    \* the output
  lost    \* the head left the tape

vars == <<text, pos, head, tape, in, out, lost>>

Init ==
  /\ pos = 0
  /\ head = 0
  /\ tape = [a \in 0..(Capacity - 1) |-> 0]
  /\ out = <<>>
  /\ lost = FALSE

\* How many of the characters i..j of t are c.
Count(t, c, i, j) == Cardinality({k \in i..j : t[k] = c})

Balanced(t, i, j) == Count(t, "[", i, j) = Count(t, "]", i, j)

\* The ']' of the '[' at i; i itself if there is none.
MatchingEnd(t, i) ==
  LET ends == {j \in i..Len(t) : Balanced(t, i, j)}
  IN  IF ends = {} THEN i ELSE CHOOSE j \in ends : \A k \in ends : j <= k

\* The '[' of the ']' at j; j itself if there is none.
MatchingStart(t, j) ==
  LET starts == {i \in 1..j : Balanced(t, i, j)}
  IN  IF starts = {} THEN j ELSE CHOOSE i \in starts : \A k \in starts : k <= i

\* One character of t.  m holds pos, head, tape, in and out, and counts the
\* edges crossed.
Char(t, m) ==
  LET i    == m.pos + 1
      c    == t[i]
      cell == m.tape[m.head]
      n    == [m EXCEPT !.pos = i]
  IN  CASE c = "+" -> [n EXCEPT !.tape[m.head] = (@ + 1) % CellMod]
        [] c = "-" -> [n EXCEPT !.tape[m.head] = (@ - 1) % CellMod]
        [] c = ">" -> [n EXCEPT !.head = (@ + 1) % Capacity,
                                !.right = IF m.head = Capacity - 1 THEN @ + 1 ELSE @]
        [] c = "<" -> [n EXCEPT !.head = (@ - 1) % Capacity,
                                !.left = IF m.head = 0 THEN @ + 1 ELSE @]
        [] c = "." -> [n EXCEPT !.out = Append(@, cell)]
        [] c = "," -> IF m.in = <<>> THEN n
                      ELSE [n EXCEPT !.tape[m.head] = Head(m.in), !.in = Tail(@)]
        [] c = "[" -> IF cell = 0 THEN [n EXCEPT !.pos = MatchingEnd(t, i)] ELSE n
        [] c = "]" -> IF cell # 0 THEN [n EXCEPT !.pos = MatchingStart(t, i)] ELSE n
        [] OTHER   -> n

Machine == [pos |-> pos, head |-> head, tape |-> tape, in |-> in, out |-> out,
            left |-> 0, right |-> 0]

\* m after n > 0 more characters of t, counted along the way it takes; it
\* stops at the end of t.
Ahead(t, m, n) ==
  LET after[k \in 0..n] ==
        IF k = 0 THEN m
        ELSE LET last == after[k - 1] IN IF last.pos >= Len(t) THEN last ELSE Char(t, last)
  IN  after[n]

\* The step that leads to m.
Reach(m) ==
  /\ pos' = m.pos
  /\ \/ /\ lost' = FALSE
        /\ head' = m.head
        /\ tape' = m.tape
        /\ in' = m.in
        /\ out' = m.out
     \/ /\ lost' = TRUE
        /\ m.left > 0 \/ m.right > MaxWraps

Next ==
  /\ text' = text
  /\ \/ ~lost /\ \E n \in 1..Len(text) : Reach(Ahead(text, Machine, n))
     \/ lost /\ lost' = TRUE

Spec == Init /\ [][Next]_vars
=============================================================================
