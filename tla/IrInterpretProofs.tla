------------------------- MODULE IrInterpretProofs -------------------------
(***************************************************************************)
(* Proofs about the interpreter, for every well-formed program, every      *)
(* input and every size of the tape: the unchecked dispatch stays inside   *)
(* the IR, and a program that only moves right stays on the tape.          *)
(***************************************************************************)
EXTENDS IrInterpret, TLAPS

(* What the interpreter needs of a well-formed IR at the operation i. *)
LEMMA WellFormedAt ==
  ASSUME NEW s, WellFormed(s), NEW i \in 1..Len(s)
  PROVE  /\ s[i].arg \in Int
         /\ s[i].kind # "halt" => i < Len(s)
         /\ s[i].kind = "loop_start" => i + s[i].arg \in i..(Len(s) - 1)
         /\ s[i].kind = "loop_end" => i + s[i].arg \in 1..(i - 1)
<1>1. Len(s) \in Nat /\ s[i] \in OpType
  BY DEF WellFormed
<1>2. s[i].arg \in Int
  BY <1>1 DEF OpType
<1>3. s[i].kind = "halt" <=> i = Len(s)
  BY DEF WellFormed
<1>4. i < Len(s) \/ i = Len(s)
  BY <1>1
<1>5. LoopsMatched(s)
  BY DEF WellFormed
<1>6. ASSUME s[i].kind = "loop_start" PROVE i + s[i].arg \in i..(Len(s) - 1)
  <2>1. CASE s[i].arg = 0
    <3>1. i # Len(s)
      BY <1>3, <1>6
    <3> QED BY <1>1, <1>4, <2>1, <3>1
  <2>2. CASE s[i].arg # 0
    <3>1. IsClosed(s, i)
      BY <1>6, <2>2 DEF IsClosed
    <3>2. /\ s[i].arg > 0
          /\ i + s[i].arg <= Len(s)
          /\ s[i + s[i].arg] = Op("loop_end", -s[i].arg)
      BY <1>5, <3>1 DEF LoopsMatched
    <3>3. s[i + s[i].arg].kind = "loop_end"
      BY <3>2 DEF Op
    <3>4. i + s[i].arg \in 1..Len(s)
      BY <1>1, <1>2, <3>2
    <3>5. i + s[i].arg # Len(s)
      BY <3>3, <3>4 DEF WellFormed
    <3> QED BY <1>1, <1>2, <3>2, <3>4, <3>5
  <2> QED BY <2>1, <2>2
<1>7. ASSUME s[i].kind = "loop_end" PROVE i + s[i].arg \in 1..(i - 1)
  <2>1. s[i].arg < 0 /\ i + s[i].arg >= 1
    BY <1>5, <1>7 DEF LoopsMatched
  <2> QED BY <1>1, <1>2, <2>1
<1> QED BY <1>2, <1>3, <1>4, <1>6, <1>7

(* Cell values stay cell values. *)
LEMMA CellAddType ==
  ASSUME NEW v \in Cell, NEW a \in Int
  PROVE  CellAdd(v, a) \in Cell
BY CellModAssumption DEF CellAdd, Cell

(* A move to the right by at most the tape stays on it. *)
LEMMA MovedStays ==
  ASSUME NEW x \in Tape, NEW a \in 0..Capacity
  PROVE  Moved(x + a) \in Tape
<1>1. x + a \in 0..(2 * Capacity - 1)
  BY CapacityAssumption DEF Tape
<1>2. (x + a) % SizeMod = x + a
  BY <1>1, CapacityAssumption, SizeModAssumption
<1> QED BY <1>1, <1>2, CapacityAssumption DEF Moved, Unsigned, Tape

(* The head is an integer, however far it strays. *)
LEMMA MovedType ==
  ASSUME NEW x \in Int
  PROVE  Moved(x) \in Int
BY CapacityAssumption DEF Moved

---------------------------------------------------------------------------
(* The operation that is executed. *)
LEMMA Executing ==
  ASSUME IInv, status = "run"
  PROVE  /\ ip \in Nat /\ Len(ir) \in Nat
         /\ ip + 1 \in 1..Len(ir)
         /\ WellFormed(ir)
         /\ opcode.arg \in Int
         /\ opcode.kind # "halt" => ip + 1 \in 0..(Len(ir) - 1)
         /\ opcode.kind = "loop_start" => ip + opcode.arg + 1 \in 0..(Len(ir) - 1)
         /\ opcode.kind = "loop_end" => ip + opcode.arg + 1 \in 0..(Len(ir) - 1)
<1>1. ip \in Nat /\ Len(ir) \in Nat
  BY DEF IInv, TypeOK
<1>2. WellFormed(ir) /\ ip \in 0..(Len(ir) - 1)
  BY DEF IInv, IpInRange
<1>3. ip + 1 \in 1..Len(ir)
  BY <1>1, <1>2
<1>4. /\ opcode.arg \in Int
      /\ opcode.kind # "halt" => ip + 1 < Len(ir)
      /\ opcode.kind = "loop_start" => (ip + 1) + opcode.arg \in (ip + 1)..(Len(ir) - 1)
      /\ opcode.kind = "loop_end" => (ip + 1) + opcode.arg \in 1..((ip + 1) - 1)
  BY <1>2, <1>3, WellFormedAt DEF opcode
<1> HIDE DEF opcode
<1>5. (ip + 1) + opcode.arg = ip + opcode.arg + 1
  BY <1>1, <1>4
<1> QED BY <1>1, <1>2, <1>3, <1>4, <1>5

(* A step that leaves ir and sp alone and dispatches inside the IR, or not *)
(* at all, keeps the invariant.                                           *)
LEMMA DispatchKeeps ==
  ASSUME IInv, status = "run",
         ir' = ir, sp' = sp, status' \in {"run", "halted", "wild"},
         ip' \in 0..(Len(ir) - 1),
         data' \in [Tape -> Cell], stdin' \in Seq(Cell), stdout' \in Seq(Cell)
  PROVE  IInv'
<1>1. ip' \in Nat
  BY DEF IInv, TypeOK
<1>2. TypeOK'
  BY <1>1 DEF IInv, TypeOK
<1>3. WellFormed(ir)
  BY DEF IInv
<1>4. IpInRange'
  BY DEF IpInRange
<1>5. RightMovesStay'
  BY DEF IInv, RightMovesStay
<1> QED BY <1>2, <1>3, <1>4, <1>5 DEF IInv

LEMMA WildKeeps ==
  ASSUME IInv, status = "run", Wild
  PROVE  IInv'
<1>1. ip \in 0..(Len(ir) - 1)
  BY DEF IInv, IpInRange
<1> QED BY <1>1, DispatchKeeps DEF Wild, IInv, TypeOK

---------------------------------------------------------------------------
(* ir_interpret is entered. *)
LEMMA EnterKeeps ==
  ASSUME IInv, Enter
  PROVE  IInv'
<1>1. /\ status = "idle" /\ status' = "run"
      /\ ir' = Append(ir, Halt)
      /\ UNCHANGED <<ip, sp, data, stdin, stdout>>
  BY DEF Enter
<1>2. ip = 0 /\ WellFormed(ir')
  BY <1>1 DEF IInv
<1>3. ir' \in Seq(OpType) /\ Len(ir') > 0
  BY <1>2 DEF WellFormed
<1>4. TypeOK'
  BY <1>1, <1>3 DEF IInv, TypeOK
<1>5. IpInRange'
  BY <1>1, <1>2, <1>3 DEF IpInRange
<1>6. RightMovesStay'
  <2> SUFFICES ASSUME \A i \in 1..Len(ir') : ir'[i].kind = "tape" => ir'[i].arg \in 0..Capacity
               PROVE  sp \in Tape
    BY <1>1 DEF RightMovesStay
  <2>1. ir \in Seq(OpType) /\ Halt \in OpType
    BY DEF IInv, TypeOK, Halt, Op, OpType, Kind
  <2>2. Len(ir) \in Nat /\ Len(ir') = Len(ir) + 1 /\ \A i \in 1..Len(ir) : ir'[i] = ir[i]
    BY <1>1, <2>1
  <2>3. \A i \in 1..Len(ir) : ir[i].kind = "tape" => ir[i].arg \in 0..Capacity
    BY <2>2
  <2> QED BY <2>3 DEF IInv, RightMovesStay
<1> QED BY <1>1, <1>2, <1>4, <1>5, <1>6 DEF IInv

(* ir_op_tape moves the head. *)
LEMMA TapeKeeps ==
  ASSUME IInv, ir_op_tape
  PROVE  IInv'
<1>1. /\ status = "run" /\ opcode.kind = "tape"
      /\ sp' = Moved(sp + opcode.arg)
      /\ ip' = ip + 0 + 1
      /\ UNCHANGED <<ir, data, stdin, stdout, status>>
  BY DEF ir_op_tape, At, Dispatch
<1>2. /\ ip \in Nat /\ ip + 1 \in 1..Len(ir) /\ Len(ir) \in Nat
      /\ WellFormed(ir)
      /\ opcode.arg \in Int
      /\ ip + 1 \in 0..(Len(ir) - 1)
  BY <1>1, Executing
<1>3. ip' \in 0..(Len(ir) - 1) /\ ip' \in Nat
  BY <1>1, <1>2
<1>4. sp' \in Int
  <2>1. sp + opcode.arg \in Int
    BY <1>2 DEF IInv, TypeOK
  <2> QED BY <1>1, <2>1, MovedType
<1>5. TypeOK'
  BY <1>1, <1>3, <1>4 DEF IInv, TypeOK
<1>6. IpInRange'
  BY <1>1, <1>3 DEF IpInRange
<1>7. RightMovesStay'
  <2> SUFFICES ASSUME \A i \in 1..Len(ir) : ir[i].kind = "tape" => ir[i].arg \in 0..Capacity
               PROVE  sp' \in Tape
    BY <1>1 DEF RightMovesStay
  <2>1. sp \in Tape
    BY DEF IInv, RightMovesStay
  <2>2. opcode.arg \in 0..Capacity
    BY <1>1, <1>2 DEF opcode
  <2> QED BY <1>1, <2>1, <2>2, MovedStays
<1> QED BY <1>1, <1>2, <1>5, <1>6, <1>7 DEF IInv

(* ir_op_cell, ir_op_loop_start, ir_op_loop_end. *)
LEMMA CellKeeps ==
  ASSUME IInv, ir_op_cell
  PROVE  IInv'
<1>1. status = "run" /\ opcode.kind = "cell"
  BY DEF ir_op_cell, At
<1>2. CASE Wild
  BY <1>1, <1>2, WildKeeps
<1>3. CASE ~Wild
  <2>1. /\ sp \in Tape
        /\ data' = [data EXCEPT ![sp] = CellAdd(@, opcode.arg)]
        /\ ip' = ip + 0 + 1
        /\ UNCHANGED <<ir, sp, stdin, stdout, status>>
    BY <1>3 DEF ir_op_cell, Dispatch
  <2>2. ip \in Nat /\ opcode.arg \in Int /\ ip + 1 \in 0..(Len(ir) - 1)
    BY <1>1, Executing
  <2>3. ip' \in 0..(Len(ir) - 1)
    BY <2>1, <2>2
  <2>4. data \in [Tape -> Cell] /\ stdin \in Seq(Cell) /\ stdout \in Seq(Cell)
    BY DEF IInv, TypeOK
  <2>5. CellAdd(data[sp], opcode.arg) \in Cell
    BY <2>1, <2>2, <2>4, CellAddType
  <2>6. data' \in [Tape -> Cell]
    BY <2>1, <2>4, <2>5
  <2> QED BY <1>1, <2>1, <2>3, <2>4, <2>6, DispatchKeeps
<1> QED BY <1>2, <1>3

LEMMA LoopKeeps ==
  ASSUME IInv, ir_op_loop_start \/ ir_op_loop_end
  PROVE  IInv'
<1>1. status = "run" /\ opcode.kind \in {"loop_start", "loop_end"}
  BY DEF ir_op_loop_start, ir_op_loop_end, At
<1>2. CASE Wild
  BY <1>1, <1>2, WildKeeps
<1>3. CASE ~Wild
  <2>1. /\ ip' = ip + 0 + 1 \/ ip' = ip + opcode.arg + 1
        /\ UNCHANGED <<ir, sp, data, stdin, stdout, status>>
    BY <1>3 DEF ir_op_loop_start, ir_op_loop_end, Dispatch
  <2>2. /\ ip \in Nat
        /\ ip + 1 \in 0..(Len(ir) - 1)
        /\ ip + opcode.arg + 1 \in 0..(Len(ir) - 1)
    BY <1>1, Executing
  <2>3. ip' \in 0..(Len(ir) - 1)
    BY <2>1, <2>2
  <2>4. data \in [Tape -> Cell] /\ stdin \in Seq(Cell) /\ stdout \in Seq(Cell)
    BY DEF IInv, TypeOK
  <2> QED BY <1>1, <2>1, <2>3, <2>4, DispatchKeeps
<1> QED BY <1>2, <1>3

---------------------------------------------------------------------------
(* The bytes a write adds. *)
LEMMA RepeatType ==
  ASSUME NEW S, NEW s \in Seq(S), NEW v \in S, NEW n \in Nat
  PROVE  s \o [i \in 1..n |-> v] \in Seq(S)
<1>1. [i \in 1..n |-> v] \in Seq(S)
  OBVIOUS
<1> QED BY <1>1

(* The bytes a read leaves. *)
LEMMA RestType ==
  ASSUME NEW S, NEW s \in Seq(S), NEW n \in 0..Len(s)
  PROVE  SubSeq(s, n + 1, Len(s)) \in Seq(S)
<1>1. SubSeq(s, n + 1, Len(s)) = [i \in 1..(Len(s) - (n + 1) + 1) |-> s[(n + 1) + i - 1]]
  OBVIOUS
<1>2. Len(s) - (n + 1) + 1 \in Nat
  OBVIOUS
<1>3. \A i \in 1..(Len(s) - (n + 1) + 1) : s[(n + 1) + i - 1] \in S
  OBVIOUS
<1> QED BY <1>1, <1>2, <1>3

LEMMA WriteKeeps ==
  ASSUME IInv, ir_op_write
  PROVE  IInv'
<1>1. status = "run" /\ opcode.kind = "write"
  BY DEF ir_op_write, At
<1>2. CASE Wild
  BY <1>1, <1>2, WildKeeps
<1>3. CASE ~Wild
  <2>1. /\ sp \in Tape
        /\ stdout' = stdout \o [i \in 1..opcode.arg |-> data[sp]]
        /\ ip' = ip + 0 + 1
        /\ UNCHANGED <<ir, sp, data, stdin, status>>
    BY <1>3 DEF ir_op_write, Dispatch
  <2>2. ip \in Nat /\ opcode.arg \in Int /\ ip + 1 \in 0..(Len(ir) - 1)
    BY <1>1, Executing
  <2>3. ip' \in 0..(Len(ir) - 1)
    BY <2>1, <2>2
  <2>4. data \in [Tape -> Cell] /\ stdin \in Seq(Cell) /\ stdout \in Seq(Cell)
    BY DEF IInv, TypeOK
  <2>5. stdout' \in Seq(Cell)
    <3>1. data[sp] \in Cell
      BY <2>1, <2>4
    <3>2. CASE opcode.arg \in Nat
      BY <2>1, <2>4, <3>1, <3>2, RepeatType
    <3>3. CASE opcode.arg \notin Nat
      <4>1. 1..opcode.arg = 1..0
        BY <2>2, <3>3
      <4>2. stdout' = stdout \o [i \in 1..0 |-> data[sp]]
        BY <2>1, <4>1
      <4> QED BY <2>4, <3>1, <4>2, RepeatType
    <3> QED BY <3>2, <3>3
  <2> QED BY <1>1, <2>1, <2>3, <2>4, <2>5, DispatchKeeps
<1> QED BY <1>2, <1>3

LEMMA ReadKeeps ==
  ASSUME IInv, ir_op_read
  PROVE  IInv'
<1>1. status = "run" /\ opcode.kind = "read"
  BY DEF ir_op_read, At
<1>2. ip \in Nat /\ opcode.arg \in Int /\ ip + 1 \in 0..(Len(ir) - 1)
  BY <1>1, Executing
<1>3. data \in [Tape -> Cell] /\ stdin \in Seq(Cell) /\ stdout \in Seq(Cell)
  BY DEF IInv, TypeOK
<1>4. CASE Wild
  BY <1>1, <1>4, WildKeeps
<1>5. CASE /\ Received = 0
           /\ Dispatch(0)
           /\ UNCHANGED <<ir, sp, data, stdin, stdout, status>>
  <2>1. ip' \in 0..(Len(ir) - 1)
    BY <1>2, <1>5 DEF Dispatch
  <2> QED BY <1>1, <1>3, <1>5, <2>1, DispatchKeeps
<1>6. CASE /\ Received > 0
           /\ sp \in Tape
           /\ data' = [data EXCEPT ![sp] = stdin[Received]]
           /\ stdin' = SubSeq(stdin, Received + 1, Len(stdin))
           /\ Dispatch(0)
           /\ UNCHANGED <<ir, sp, stdout, status>>
  <2>1. ip' \in 0..(Len(ir) - 1)
    BY <1>2, <1>6 DEF Dispatch
  <2>2. Received \in 1..Len(stdin)
    BY <1>2, <1>3, <1>6 DEF Received
  <2> HIDE DEF Received
  <2>3. stdin[Received] \in Cell
    BY <1>3, <2>2
  <2>4. data' \in [Tape -> Cell]
    BY <1>3, <1>6, <2>3
  <2>5. stdin' \in Seq(Cell)
    <3>1. Received \in 0..Len(stdin)
      BY <2>2
    <3> QED BY <1>3, <1>6, <3>1, RestType
  <2> QED BY <1>1, <1>3, <1>6, <2>1, <2>4, <2>5, DispatchKeeps
<1> QED BY <1>4, <1>5, <1>6 DEF ir_op_read

LEMMA HaltKeeps ==
  ASSUME IInv, ir_op_halt
  PROVE  IInv'
<1>1. status = "run" /\ status' = "halted" /\ UNCHANGED <<ir, ip, sp, data, stdin, stdout>>
  BY DEF ir_op_halt, At
<1>2. ip \in 0..(Len(ir) - 1)
  BY <1>1 DEF IInv, IpInRange
<1> QED BY <1>1, <1>2, DispatchKeeps DEF IInv, TypeOK

---------------------------------------------------------------------------
(* The invariant holds when ir_interpret is about to be called. *)
LEMMA InitIInv == Init => IInv
<1> SUFFICES ASSUME Init PROVE IInv
  OBVIOUS
<1>1. ir \in Programs /\ ip = 0 /\ sp = 0 /\ status = "idle"
  BY DEF Init, IdleInit
<1>2. WellFormed(Append(ir, Halt))
  BY <1>1, ProgramsAssumption
<1>3. ir \in Seq(OpType)
  BY <1>1, ProgramsAssumption
<1>4. 0 \in Cell /\ 0 \in Tape
  BY CellModAssumption, CapacityAssumption DEF Cell, Tape
<1>5. TypeOK
  BY <1>1, <1>3, <1>4, InputsAssumption DEF Init, IdleInit, TypeOK
<1>6. IpInRange /\ RightMovesStay
  BY <1>1, <1>4 DEF IpInRange, RightMovesStay
<1> QED BY <1>1, <1>2, <1>5, <1>6 DEF IInv

(* Every step preserves it. *)
LEMMA NextIInv == IInv /\ [Next]_vars => IInv'
<1> SUFFICES ASSUME IInv, [Next]_vars PROVE IInv'
  OBVIOUS
<1>1. CASE Enter
  BY <1>1, EnterKeeps
<1>2. CASE ir_op_tape
  BY <1>2, TapeKeeps
<1>3. CASE ir_op_cell
  BY <1>3, CellKeeps
<1>4. CASE ir_op_loop_start \/ ir_op_loop_end
  BY <1>4, LoopKeeps
<1>5. CASE ir_op_write
  BY <1>5, WriteKeeps
<1>6. CASE ir_op_read
  BY <1>6, ReadKeeps
<1>7. CASE ir_op_halt
  BY <1>7, HaltKeeps
<1>8. CASE UNCHANGED vars
  BY <1>8 DEF vars, ivars, IInv, TypeOK, IpInRange, RightMovesStay
<1>9. CASE Stopped
  BY <1>8, <1>9 DEF Stopped
<1> QED BY <1>1, <1>2, <1>3, <1>4, <1>5, <1>6, <1>7, <1>8, <1>9 DEF Next, Interpret

(* The inductive invariant of the interpreter. *)
THEOREM InterpreterInvariant == Spec => []IInv
<1>1. Init => IInv
  BY InitIInv
<1>2. IInv /\ [Next]_vars => IInv'
  BY NextIInv
<1> QED BY <1>1, <1>2, PTL DEF Spec

(* The type invariant of the interpreter. *)
THEOREM InterpreterTypeCorrect == Spec => []TypeOK
<1>1. IInv => TypeOK
  BY DEF IInv
<1> QED BY <1>1, InterpreterInvariant, PTL

(***************************************************************************)
(* Whatever program the parser hands over, and whatever its input, the     *)
(* dispatch of ir_interpret never reads beyond the halt or before the      *)
(* first operation.                                                        *)
(***************************************************************************)
THEOREM DispatchStaysInside == Spec => []IpInRange
<1>1. IInv => IpInRange
  BY DEF IInv
<1> QED BY <1>1, InterpreterInvariant, PTL

(***************************************************************************)
(* A program without moves to the left, and with no move longer than the   *)
(* tape, keeps the head on the tape.                                       *)
(***************************************************************************)
THEOREM HeadStaysOnTape == Spec => []RightMovesStay
<1>1. IInv => RightMovesStay
  BY DEF IInv
<1> QED BY <1>1, InterpreterInvariant, PTL
=============================================================================
