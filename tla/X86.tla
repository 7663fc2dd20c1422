-------------------------------- MODULE X86 --------------------------------
(***************************************************************************)
(* The machine the compiled program runs on: the few x86 instructions and  *)
(* Linux system calls that ir_compile.c emits.  Addresses of data are      *)
(* relative to .bss; eip counts bytes from the start of .text.             *)
(***************************************************************************)
EXTENDS Integers, Sequences

CONSTANTS Capacity, CellMod, MaxOut

VARIABLES
  text,     \* .text: the instructions (see IrCompile) by their addresses
  eip, regs, zf,
  mem,      \* .bss
  stdin, stdout,
  status    \* "idle" before the program is started, "run", "exited", or
            \* "wild": a byte outside .bss or .text was touched

xvars == <<eip, regs, zf, mem, stdin, stdout, status>>

Tape == 0..(Capacity - 1)

\* The instruction at eip: a set of one, or none.
Fetched == {text[a] : a \in DOMAIN text \cap {eip}}

Operand(ins) == IF ins.reg = "none" THEN ins.imm ELSE regs[ins.reg]

Forward(ins) == eip' = eip + ins.len

\* Code or data is accessed that is not the program's.
Wild ==
  /\ status' = "wild"
  /\ UNCHANGED <<eip, regs, zf, mem, stdin, stdout>>

Mov(ins) ==
  /\ ins.op = "mov"
  /\ regs' = [regs EXCEPT ![ins.dst] = Operand(ins)]
  /\ Forward(ins)
  /\ UNCHANGED <<zf, mem, stdin, stdout, status>>

Push(ins) ==
  /\ ins.op = "push"
  /\ Forward(ins)
  /\ UNCHANGED <<regs, zf, mem, stdin, stdout, status>>

Amount(ins) == IF ins.op = "add" THEN Operand(ins) ELSE -Operand(ins)

\* The flags are not used before the next comparison.
AddSub(ins) ==
  /\ ins.op = "add" \/ ins.op = "sub"
  /\ \/ /\ ins.dst # "mem"
        /\ regs' = [regs EXCEPT ![ins.dst] = @ + Amount(ins)]
        /\ Forward(ins)
        /\ UNCHANGED <<zf, mem, stdin, stdout, status>>
     \/ /\ ins.dst = "mem"
        /\ regs["edi"] \in Tape
        /\ mem' = [mem EXCEPT ![regs["edi"]] = (@ + Amount(ins)) % CellMod]
        /\ Forward(ins)
        /\ UNCHANGED <<regs, zf, stdin, stdout, status>>
     \/ ins.dst = "mem" /\ regs["edi"] \notin Tape /\ Wild

Cmp(ins) ==
  /\ ins.op = "cmp"
  /\ \/ /\ regs["edi"] \in Tape
        /\ zf' = (mem[regs["edi"]] = ins.imm)
        /\ Forward(ins)
        /\ UNCHANGED <<regs, mem, stdin, stdout, status>>
     \/ regs["edi"] \notin Tape /\ Wild

Jump(ins) ==
  /\ ins.op = "je" \/ ins.op = "jne"
  /\ eip' = eip + ins.len + (IF zf = (ins.op = "je") THEN ins.imm ELSE 0)
  /\ UNCHANGED <<regs, zf, mem, stdin, stdout, status>>

\* write(ebx, ecx, edx) of one byte.
Write(ins) ==
  /\ ins.op = "int"
  /\ regs["eax"] = 4
  /\ \/ /\ regs["ecx"] \in Tape
        /\ Len(stdout) < MaxOut
        /\ stdout' = Append(stdout, mem[regs["ecx"]])
        /\ regs' = [regs EXCEPT !["eax"] = regs["edx"]]
        /\ Forward(ins)
        /\ UNCHANGED <<zf, mem, stdin, status>>
     \/ regs["ecx"] \notin Tape /\ Wild

\* read(ebx, ecx, edx) of one byte; 0 bytes at the end of stdin.
Read(ins) ==
  /\ ins.op = "int"
  /\ regs["eax"] = 3
  /\ \/ /\ stdin = <<>>
        /\ regs' = [regs EXCEPT !["eax"] = 0]
        /\ Forward(ins)
        /\ UNCHANGED <<zf, mem, stdin, stdout, status>>
     \/ /\ stdin # <<>>
        /\ regs["ecx"] \in Tape
        /\ mem' = [mem EXCEPT ![regs["ecx"]] = Head(stdin)]
        /\ stdin' = Tail(stdin)
        /\ regs' = [regs EXCEPT !["eax"] = regs["edx"]]
        /\ Forward(ins)
        /\ UNCHANGED <<zf, stdout, status>>
     \/ stdin # <<>> /\ regs["ecx"] \notin Tape /\ Wild

Exit(ins) ==
  /\ ins.op = "int"
  /\ regs["eax"] = 1
  /\ status' = "exited"
  /\ UNCHANGED <<eip, regs, zf, mem, stdin, stdout>>

\* No instruction starts at eip.
Derail == Fetched = {} /\ Wild

Execute(ins) ==
  \/ Mov(ins) \/ Push(ins) \/ AddSub(ins) \/ Cmp(ins) \/ Jump(ins)
  \/ Write(ins) \/ Read(ins) \/ Exit(ins)

Step ==
  /\ status = "run"
  /\ Derail \/ \E ins \in Fetched : Execute(ins)

\* A full stdout (MaxOut) is the bound of the model, not of the machine.
Full ==
  /\ status = "run"
  /\ Len(stdout) = MaxOut
  /\ \E ins \in Fetched : ins.op = "int" /\ regs["eax"] = 4
=============================================================================
