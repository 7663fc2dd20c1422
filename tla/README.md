# A TLA+ model of bfcomp

bfcomp interprets brainfuck programs and compiles them to 32-bit Linux
executables. The repository holds two implementations: a complete one in C
(`csrc/`) and one in OCaml (`lib/`, `bin/`) whose parser, optimiser and
interpreter work and whose code generator is unfinished. Both are sequential,
keep nothing between runs and talk to nobody; what is hard in them is index
arithmetic across passes: jumps patched later, chunks, merged operations,
encodings whose lengths depend on each other, tables laid out in the order of a
hash map, lists that a pass leaves reversed.

## Inventory

| Component | State | Operations | Correct when |
|---|---|---|---|
| parser, `ir_gen.c` | IR vector, stack of open loops | `ir_ctx_parse` once per chunk of 1024 bytes | the IR stands for the text, jumps lead to their partners, however the chunks cut it |
| interpreter, `ir_interpret.c` | ip, sp, tape, stdin, stdout | one label per operation | it does what the text says; the unchecked dispatch stays inside the IR |
| compiler, `ir_compile.c` | code vector per recursive call | `ir_ctx_compile__`, `emit_*` | the code does what the text says, jumps land on instructions |
| ELF writer, `elf_gen.c` | two hash maps of headers, the string table | `gen_*_header`, `fix_header_offsets`, `gen_elf_file` | tables, offsets and contents agree; the file can be loaded |
| driver, `main.c`, `defer.h` | chunk buffer, options, open files, pending cleanups | read loop, dump, interpret, `write_elf_file` | it returns with the right code, does what the options say, releases everything once |
| hash map, `rxi/map.h` | buckets, nnodes, count | set, get, remove, iterate | it is a map, through resizes and failed allocations |
| vector, `rxi/vec.h` | data, length, capacity, borrowed | push, insert, splice, slice, copy, compact, ... | it is a sequence, on storage it owns or borrows |
| allocation tracker, `rxi/dmt.h`, included by no build | list of blocks | alloc, realloc, free, usage | the list is that of the allocated blocks |
| options, `options.c` | two names, a flag | `parse_options` | default output name, ownership of the names |
| OCaml front end, `lib/parser.ml`, `lib/ir.ml`, `bin/*.ml` | lists | parse, three passes, run | passes preserve what programs do |
| OCaml code generation | byte buffers | unfinished, not used by any executable | - |

Interaction: `main` feeds chunks to the parser, then calls the interpreter or
`write_elf_file` on the IR; the latter calls the compiler on the vector of the
`.text` segment and the ELF writer for the rest; both maps of the writer are
hash maps. Every interaction is a call on shared data. There are no threads,
messages, timeouts or crashes to recover from. `PROJECT.json` lists the hazards,
each with the line where it bites and the properties that guard it.

## Modules

| Module | Models | Notes |
|---|---|---|
| `Ir` | `ir_gen.h` | operations, and the predicates that say when an IR is well-formed |
| `IrGen` | `ir_ctx_parse`, the read loop of `main` | one action per case of the switch, one for `fread`, one for the return |
| `IrDump` | `ir_ctx_dump_bf` | prints the IR; used to state that the IR stands for the text |
| `IrInterpret` | `ir_interpret` | one action per label, with the dispatch behind it |
| `BfMachine` | - | abstract: what a text means, character by character |
| `Bfcomp` | `main`, interpreting or dumping | composes `IrDump` and `IrInterpret`; refines `BfMachine` |
| `IrCompile` | `ir_ctx_compile` | the recursion is a stack of frames; instructions have effect and length |
| `X86` | processor and kernel (external) | the instructions and system calls that are emitted |
| `Compiled` | `main`, compiling, and the executable | composes `IrDump`, `IrCompile`, `X86`; refines `BfMachine` |
| `RxiMap` | `rxi/map.h` | pure functions on buckets |
| `AbstractMap` | - | abstract: a function from keys to values |
| `MapClient` | the macros of `rxi/map.h` and their callers | any order of calls, failed allocations, one iterator; refines `AbstractMap` |
| `ElfGen` | `elf_gen.c`, `write_elf_file` | instantiates `RxiMap` for its two maps |
| `Dmt` | `rxi/dmt.h` | the doubly linked list of blocks; actions for the module that extends it; see below |
| `Vec` | `rxi/vec.h` | any calls on several vectors, with `Dmt` behind `VEC_ALLOC` and `VEC_FREE` |
| `Driver` | `parse_options`, the outline of `main`, `defer.h` | command lines, names, files, cleanups; parser, interpreter and compiler are one step each |
| `MlIr`, `MlMain` | the OCaml parser, passes, interpreter, `main` | recursive operators, TLC only |
| `IrGenProofs`, `IrInterpretProofs`, `BfcompProofs`, `CompiledProofs`, `VecProofs`, `DriverProofs`, `MapProofs`, `ElfGenProofs` | - | theorems and their proofs |
| `MC*` | - | instances for TLC |

Correspondence worth knowing:

* The vector `ctx->data` is a sequence; C index `a` is element `a + 1`. `patch`,
  a linked list in C, is a sequence, innermost loop last.
* Characters are the eight commands, `"other"` for every other byte and `"nul"`
  for the byte 0, which ends the C string the parser gets and so drops the rest
  of its chunk. `src` (auxiliary) remembers the place of each operation in the
  text; the refinements need it.
* `sp` in the interpreter is compared as the code compares it: `Unsigned` is the
  conversion of a `ssize_t` for the comparison with the `size_t` capacity. Once
  a byte outside the tape is touched the status is `"wild"` and nothing more is
  said, since the outcome depends on the layout of the process.
* The compiled program's addresses are relative to `.bss` for data and to
  `.text` for code. A jump to a byte that starts no instruction makes it wild.
  `edi` is an unbounded integer; it differs from a 32-bit register only after
  it has left the tape.
* `BfMachine` has a circular tape. An implementation may get *lost*, after which
  nothing is promised, only in the step that crosses the left edge, or crosses
  the right edge more than `MaxWraps` times: 1 for the interpreter, which wraps
  once per operation, 0 for the executable, which does not check its tape at all
  (a TODO in `ir_compile.c`). So the refinement also says where each
  implementation can be trusted.
* A vector's storage is counted in elements, of `memsz` bytes; an address is that
  of a block, and `off` says where a slice starts in it. `seq` (auxiliary) is
  what the calls should have made of each vector. `beyond` (auxiliary) collects
  the vectors that were used beyond what `vec.h` handles; see below.
* No build of the repository includes `rxi/dmt.h`: `VEC_ALLOC` and `VEC_FREE` default to
  `realloc` and `free` (`vec.h:18-24`). `Vec` is the configuration that the two
  headers are made for, with `dmt_alloc`, `dmt_realloc` and `dmt_free` behind the
  hooks. For the vectors this is no easier than the default: memory may run out and
  blocks move in the same way, and freeing a bad pointer, undefined for `free`, is
  an abort that can be seen. `UsageExact` uses `dmt_usage` to say what is allocated.
* `drift` (auxiliary) in `MapClient` is what `map_set` and `map_remove` did to
  `count` without a node coming or going: one more for a replacement or a
  failed insertion, one less for the removal of an absent key.
* `WriteElf` in `Driver` compiles all of the program or, since `main` ignores what
  `ir_ctx_compile` returns (`main.c:92`), a part of it; both end with status 0, and
  `DoneAsTold` says no more than that. Nothing in the repository says what should
  happen then. `Compiled` models what the part is.
* In `Driver` the command line is revealed by `getopt_long`, which permutes it:
  options first, then operands. Names of files are built from directories and a
  last name, so that two names of one file can be recognised; the code sees
  their characters. `defers` is the stack of cleanups that the compiler runs
  when `main` returns, and does not run on `exit`.
* Definitions named `Faulty...` or `Stale...` are variants with a plausible slip. No
  specification uses them; substituted for the definition they vary, they make
  one property fail, which shows that the property depends on that code.

## Runs

| Run | Question | Result |
|---|---|---|
| `parser` | Does the IR stand for the text, and do its jumps match, however chunks cut it? | passes, 280,321 states |
| `interpreter` | Does the dispatch stay inside the IR, the head on the tape? | passes, 124,029 states |
| `head_off_tape` | Does `ir_op_tape` keep the head on the tape? | violated |
| `interpreted` | Does `main` with the interpreter implement the language? | passes, 277,483 states |
| `compiled` | Does the executable? Do its jumps land? | passes, 37,192 states |
| `reads` | Does the executable read as often as the text says? | violated |
| `ocaml` | Do the OCaml passes preserve programs? | passes, 87,542 states |
| `dead_code` | Also where two loops are neighbours? | violated |
| `map` | Is the hash map a map, and are iterations complete? | passes, 59,824 states |
| `elf` | Is the file consistent for every order of the maps? | passes, 2,368 states |
| `vec` | Is a vector a sequence, and is the tracker's list that of the blocks? | passes, 37,630 states |
| `driver` | Is everything released, the default name right, the source safe? | passes, 748,781 states |

What the violated ones show:

* `head_off_tape`: `sp >= ctx->capacity` compares unsigned. One `<` at cell 0
  gives sp = -1 - capacity; the branch for `sp < 0` cannot be reached.
* `reads`: `emit_code_read` emits one system call whatever the operand; `,,`
  reads one byte in the executable and two in the interpreter.
* `dead_code`: a pass leaves the outermost list reversed, so `dead_code`, the
  second pass, drops the first of two neighbouring loops instead of the second.
  `bitwidth.bf` contains such a pair.

What the others show of the limits of the code, stated in the model as guards or
as exceptions in the properties:

* `compiled`: `write_elf_file` ignores what `ir_ctx_compile` returns. After a
  reported error (an operand over 32 bits) an executable without an exit is
  written and `main` returns 0. The refinement is about programs without such
  operands.
* `ocaml`: `zero_loop` replaces a loop of one addition whatever it adds. By an even
  number the loop may not end, and the optimised program does (`EvenClear`). The
  parser drops what follows a `]` without `[` and closes a `[` without `]` at
  the end of the text; `ParsesAll` says what is kept.
* `vec`: `CutCopy`, a borrowed vector that grows keeps `length` bytes, not
  elements; `Overrun`, `vec_insertarr` makes room for one element whatever the
  count; `vec_swapsplice` moves elements it should remove when fewer than
  `count`, but some, are behind them; `vec_borrowed_static` takes bytes for
  elements; `vec_compact` frees the storage of an empty borrowed vector;
  `vec_copy` copies to NULL when there is no memory; a slice does not survive a
  write to its vector. `vec_extend` of a vector by itself runs into the elements
  it appends and is not modelled. The program itself uses none of these: its vectors
  own their storage, and it reserves, pushes, extends and frees. Within the limits the vectors are exactly the sequences they should be.
* `driver`: with `-c` and no `-o`, a `.` only in the directory part (`../prog`)
  crashes `parse_options`; `prog` and `./prog` are overwritten by their own
  executables; `dir/.prog` gives an empty name, which cannot be opened. That an
  absolute path leads into the working directory is not recognised: `SourceSurvives`
  takes it for another file. Of several `-o` all names but the last are never freed.

### Bounds

* Chunks of 2 or 3 characters, files of up to 7: runs, comments, NULs and loops
  straddle one or two chunk ends in all ways; the proofs cover all lengths.
* A tape of 2 cells, cells modulo 3: each edge is crossed, moves of once and
  twice the tape occur, cells wrap in both directions. `SizeMod` stands for 2^64
  and only has to exceed twice the tape. The compiled program has 11 cells so
  that an operand beyond `INT8_MAX = 9` can be a move that stays on the tape.
* `INT8_MAX = 9` and `INT32_MAX = 63` keep the distances between the code's
  thresholds and the lengths of instructions small: most loops need a long jump,
  the shortest do not, and samples lie on both sides of each limit. `CellMod`
  divides the range of each immediate, as 256 does.
* `FewOpen`: at most two unmatched `[` in a compiled file, one if it has system
  calls, since each doubles the code and no jump may exceed `INT32_MAX`. `OneRead`: runs of `,` have a run of their own.
* `MaxOut` bounds the output. A behaviour that reaches it stops; this is the
  model's bound.
* `Fuel` in the OCaml model bounds the iterations of loops. Of a program that needs
  more, which with so few cells and values is one that does not end, the optimised
  code must need more too, unless `zero_loop` meets a loop whose step is even
  (`EvenClear`). `LoopPair` excludes the case `dead_code` is about.
* The map: 3 keys in 1, 2 and 4 buckets, with hashes that put them in one
  chain, in chains that a resize splits, and apart; count and `drift` wrap at 4.
* Two vectors with three elements between them, arrays of up to two, a pool of
  one: each way of growing, and each place for an insertion or removal, occurs
  with the storage owned, borrowed and shared. Elements of 1 and 2 bytes, since
  the copy of a borrowed vector is whole for the former only. Three addresses
  besides the client's block, which was allocated first: realloc moves blocks at
  the head and in the middle of the list. Nothing is called once a vector was
  used beyond the limits (`WithinLimits`).
* Up to 3 options, so that `-o` can be repeated and combined; 392 names of up to
  4 characters with `.` in every place, in directories `.`, `..`, with and
  without a `.`, relative and absolute.
* The ELF writer uses the real sizes and addresses; the hashes range over all
  placements of the three names, the code ends before, at and behind page ends.

### Fairness

`main` is one thread that runs until it returns: weak fairness of its next step.
The executable likewise, once started. Nothing else is assumed; in particular no
program is assumed to terminate, so the liveness properties are about the read
loop, the compiler's recursion, and programs without loops that close.

## Proofs

Liveness aside, a theorem says of every instance what a run says of one. Each
proof has one invariant that is inductive, one lemma for each action, and the
properties as corollaries.

**`IrGenProofs`**, for every set of files and every positive `BUFLEN`. The
property that matters, `ParsedWellFormed`, is not inductive: that a `]` patches
the right operation depends on the stack, and that the jumps match depends on the
nesting. The invariant `IInv` adds to the types that the stack holds exactly the
unpatched loops in increasing order, that patched loops point at each other,
that loops are nested or disjoint and no open loop starts inside a closed one,
that runs are merged, and that the parser produces neither halt nor set. An
action changes IR and stack in one of four ways (push, merge into the last, open
a loop, close a loop); one lemma about arrays for each shows that the loop
invariants survive, and the action lemmas reduce to them. Closing a loop needs
the nesting: everything opened after it is closed, so no delta spans its start.
`HaltCompletes` is the step from there to what interpreter and compiler get.

**`IrInterpretProofs`**, for every capacity, cell size, input and every set of
well-formed programs, which is what `OutputWellFormed` provides. `IInv` says
that the IR is well-formed, with the halt once `ir_interpret` has pushed it, and
that ip names one of its operations: a jump leads to a partner, every other
operation but the halt has a successor, since the halt is last and only last.
`HeadStaysOnTape` rests on one arithmetic lemma about `Moved`.

**`BfcompProofs`**, for every source file, chunk size, tape and input, has three
results. `FailsOnUnmatchedEnd` joins what the parser does, one character at a time, with
what the text of the whole file is, a sequence without the bytes that a NUL hides
from the parser. `MainInv` says that the buffer is the chunk of the file that
starts at a multiple of `BUFLEN` (`ReadInv`) and that, until the result is there, the
stack is as deep as the live characters read so far, `[` less `]`, and never was
asked for more (`DepthInv`). `TextIs` and `CountIs` connect the two: the i-th character of
the text is the i-th live one of the file, and so counts in a prefix of the one
are counts in a prefix of the other.

`SpecDumpsSource` is about the parser alone: what `ir_ctx_dump_bf` prints of the IR
is the text read so far, comments and cancelled commands aside. `DumpInv` adds to
`DumpsSource` that nothing which reaches the parser lies between `Offset` and
`fpos` once a chunk is used up, since the rest of a chunk behind a NUL is dropped
(`EffectiveSkip`). Both sides are folds, of which `FoldAppend` gives what one element
more does; normal forms are `Reduced`, so a command and its inverse leave them as they
were (`StepUndone`). The three things that the parser does to the IR then keep the
two sides equal: a new operation prints the run it stands for (`PutNormal`), a run
merged into the last operation prints the sum of both, whatever their signs
(`SignedMore`), and the partner written into a loop_start is not printed
(`DumpSame`).

`SpecImplementsMachine` is the refinement of `BfMachine`: what the interpreter does
with the parser's IR is what the text means. It has three parts.

1. What the IR stands for. `Means` cuts the text into one piece for each operation,
   in order and without a gap: a merged operation `Stands` for a run whose
   characters, comments aside, add up to its operand; a loop operation is one
   bracket; and the piece of a patched loop `Encloses` a balanced text that ends at
   its partner's bracket. Where a piece starts is the `Rank` of its place in the
   file: how many characters before it reach the parser. `TextInv` says this of
   what has been read so far, with the loops of the stack still open (`LoopsOpen`);
   each parser action extends the last piece or adds one (`ParseText`).
2. What the machine does with a piece. `AheadRun` follows a table of states, one
   for each character: a run of `+` and `-` adds its sum modulo `CellMod`
   (`CellRun`), a run of `,` leaves the last byte that stdin had (`ReadRun`), a run
   of moves ends at the sum modulo `Capacity` and counts each edge it crosses
   (`TapeRun`), and brackets find those that part 1 found (`EndOf`, `StartOf`).
3. The steps of the interpreter. `RunInv` joins `TextInv` with the place of `ip`;
   every handler of `ir_interpret` goes where the machine goes (`CellSound`,
   `LoopEndSound`...). The exact exception is that of `Moved`, which subtracts the
   capacity once: `TapeSound` shows that the head is then off the tape only
   if the machine crossed the left edge or wrapped more than once.

**`CompiledProofs`**, for every source file, every input and every tape, and for
every range of the short and the long immediates (`INT8_MAX <= INT32_MAX`). Both
properties are about code whose length a 32-bit displacement can span
(`CodeFits`, 2 GB as built): beyond it `Int32` wraps and jumps go astray. It
proceeds in three layers.

1. Addresses. `Size` is a cardinality; `SizeConcat`, `StartLeft`, `StartRight` and
   `StartNext` make it the sum of lengths that `ctx->length` is, and
   `StartIncreases` says that no two instructions have one address.
2. Code. `Good` code has its system calls in whole groups (`Grouped`: what uses a
   register is behind what sets it) and its jumps lead to an instruction, or just
   behind the last, but never into a group. Each `emit_` function makes good code;
   concatenation keeps it good (`GoodConcat`); the pair of jumps around a loop
   adds two, forward by the length of the body and back by that and the pair's
   own, in either encoding (`LoopStartGood`, `LoopEndGood`).
3. Calls. `JumpsLand` alone is not inductive, since a caller relies on what its
   callee returns. `CompileInv` says that the code of every call is good, that every
   call but the innermost waits at a loop_start, and that the outermost one
   is never inside a closed loop: `ir_op_loop_end` would end it there with half a
   program. The last needs the nesting that `IrGenProofs` proves: skipping a
   closed loop leads out of all loops again. So when it ends it is at the end of
   the IR, its last operation was the halt, and its code is `Complete`: it ends
   with an exit and no jump leads behind that.

`RunInv` then follows the processor: while the program has not strayed it is at
one of its instructions, and inside a system call `eax`, and behind its third
instruction `ecx`, are what the group set. Patching the first instruction with the
address of `.bss` changes none of this (`PatchGood`).

**`VecProofs`**, for any number of addresses and vectors, any values, element sizes
and lengths. Its first part is about the list of `dmt.h`: `Chain` says that some
numbering of all blocks follows the links both ways and starts at `dmt_head`; each
operation has a new numbering. `ListSound` speaks of what can be reached from the
head, and follows by induction along the numbering. The second is about vectors:
`VInv` joins the list of blocks, the types of the storage (`MInv`), for each vector
within the limits that its struct and storage give its sequence (`Sound`, in
`SInv`), and that no two of them own one block (`OwnedOnce`). The last is what
makes the others inductive: a vector that frees or moves its block would take
that of another with it. `SafeWithinLimits` is part of it as no call is within the
limits unless its storage is. The third part is about `UsageExact`. `UInv` says
that every block but the client's belongs to a vector and is as large as its
capacity says; each operation either leaves the blocks alone, replaces that of one
vector, or frees it (`Touches`). `dmt_usage` and the capacities are two sums over
finite sets, which the community module defines by a table over all subsets that
takes one element at a time: the table exists (`SumsExist`), the order does not
matter (`SumsAre`), and two sums agree when the elements that count correspond
one to one (`SumsAgree`), here a vector to the block that it owns (`OwnedOnce`).
Each of these looks at a smallest set for which it would fail (`SmallestSet`).

**`MapProofs`**, for any finite set of keys, any values and every hash function,
also one that puts all keys into one bucket. `map_resize` is a fold over a
concatenation of reversed chains; the proof first turns both into iterations: the
fold of the community module is defined by a table over sets of places, `FoldIs`
reads the results after 0, 1, 2... nodes out of it, and `FlattenLists` says where
in the concatenation a node of a chain is. By induction along the iteration
(`FoldNodes`) a resize loses no node, puts every one in its new bucket and, with
the same number of buckets (the allocation failed), leaves the order of every
chain as it was: reversing twice.

* `MapInv` says that every node is in the bucket of its key, no key has two nodes,
  `nnodes` is the number of keys and at most that of the buckets, and the
  iterator is at a key that is there. From it a lookup finds exactly the keys of
  the chains (`PresentIs`), and each call changes the nodes as its name says
  (`SetStep`, `DeleteStep`, `RefusedStep`): the refinement of `AbstractMap`.
* `IterOrder` says, while no resize has moved the nodes, that nothing visited is
  behind the iterator's place, in its bucket or a later one, and that every key
  that stayed is visited or behind that place. New nodes go to the head of
  a chain, so they never come between; a removal only takes away. When `map_next`
  returns NULL nothing is behind the iterator, so all that stayed was visited.

**`DriverProofs`**, for all sets of names and any number of options. For
`DoneAsTold` the invariant `DInv` relates the fields of `options_t` to the
options seen (`output_name` is set if and only if `-o` was seen, and after the
operand if and only if `-o` or `-c` was) and says how far the run is at each
place of `main`. For `Released`, `OInv` divides what is live among its owners:
the lost names, and then the two names while `parse_options` runs, or the
entries of the stack of cleanups while `main` does. No two entries share a
block, which needs that what is acquired was not live: at each place only
blocks of certain pointers are. Two lemmas, `Push` and `Pop`, carry the division
over one more and one less cleanup. `DefaultName` needs that no name was computed
before the operand is seen (`NInv`), and that the last dot and the last slash of
a name are what `strrchr` finds. `SourceSurvives` rests on it: the one file opened
for writing is that of `output_name` (`WInv`), and a derived name has no slash, so
its file is in the working directory; what stands in front of a path's last name
is nothing or ends in a slash (`StrIs`, by induction along the concatenation). So
if the two files are one, the derived name is all of the source's last name and
no dot was cut off (`SameFile`). `TypeOK` adds to `DInv` and `OInv` the ranges of
the other variables (`TInv`).

**`ElfGenProofs`**, for every hash function, that is every order in which the two maps
return their keys, every length of the code and all sizes of headers and pages.
`WriterInv` says for each step of `write_elf_file` and `fix_header_offsets` what the
maps, the ELF header and the list of writes hold; the three properties follow from
it. What a lookup finds after a store is known from `MapProofs`, instantiated with the
writer's keys and values (`Facts`, `GoodSet`, `GoodReplace`); `FactsApply` shows that
its assumptions hold here. The loops of the writer run over two or three keys in
an unknown order: `OrderLists` says that the order has every key once, the lemmas
`Fold...` that the community module's fold is then two or three steps, and
`FixTextIs`, `FixBssIs` and `FixSectionIs` what each step does, wherever in the order it
comes. `.bss` never moves the offset, since it has no memory, so `.text` is on the
first page behind all headers (`FirstPage`) and `.shstrtab` on the one behind the
code; `HeadersPut` lists the seven writes of the headers.

Induction: the library's theorems about it take an operator, which the provers
cannot instantiate. Where a proof needs it, `LeastNat`, a lemma of the modules that
use it, gives the least counterexample of the set of those that there are.

Assumptions: `BUFLEN`, `Capacity`, `CellMod` and `INT8_MAX` are positive,
`INT32_MAX` is no less than `INT8_MAX`, `SizeMod` exceeds twice the capacity, files
are sequences of characters, inputs of cells, paths sequences of names and names of
name characters; there are finitely many addresses, one of them the client's block,
none of them NULL or the pool; the client has finitely many vectors, elements have a
positive size, and `Junk` is no value; hashes are natural numbers, keys finitely
many, NULL is none of them and there are fewer than `CountMod` (2^64: each takes a
node in memory); the code is not empty (it has at least the instruction that loads `edi`), all ELF headers fit
in one page, and `TextAddr` is the start of one; that allocations succeed is part of the model of the driver, not
of that of the vectors. TLC evaluates the assumptions in the runs.

Only model-checked: liveness and everything under fairness (`ParseTerminates`,
`StraightLineHalts`, `Returns`); the compiled program's refinement of `BfMachine`, of which
the layers above are proved; and the OCaml code, whose definitions are recursive
operators, which the prover cannot use.

## Not modelled

* `ir_ctx_free`, `elf_gen_ctx_free`, `map_deinit`: memory is only given back, at
  the end. Allocation fails only in `MapClient` and `Vec`, where the code handles
  it; elsewhere the code does not check for it.
* `vec_sort` and `vec_bsearch` (the C library's algorithms), the `vec_for`
  macros, `dmt_dump` and `dmt_size` (they only read).
* `ir_fmt_op`, `ir_ctx_dump_ir`, `ir_compile_dump_asm`: formatting.
* `make_exe`: two calls that set mode bits. Failing writes, which nothing checks.
* `IR_OP_SET`: nothing produces it (`OutputWellFormed`).
* The OCaml code generator: unfinished and unused.

## Plan

1. Done: parser, interpreter, their composition and its refinement. Compiler,
   executable and its refinement. ELF writer, map, OCaml. Vectors, allocation
   tracker, options and the cleanups of `main`.
2. Proved: the safety properties of the parser (with what its IR prints), the
   interpreter, the compiler and its executable, the tracker, the vectors and the
   driver; that parser and interpreter, composed in `main`, implement the language; the map with its
   iterator and its refinement; the layout of the ELF file, as listed above.
3. Left: that the executable implements the language, for which `TextInv`, the runs
   of the machine (`CellRun`, `TapeRun`...) and the layers of `CompiledProofs` are
   the parts.
