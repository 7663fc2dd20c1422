------------------------------- MODULE Driver ------------------------------
(***************************************************************************)
(* The outline of a run of bfcomp: parse_options of csrc/src/options.c and *)
(* main of csrc/src/main.c around it, with the names, files and buffers    *)
(* they own and the cleanups of csrc/include/defer.h.  What the parser,    *)
(* the interpreter and the compiler do in between is in modules of their   *)
(* own; here the file parses or does not.                                  *)
(*                                                                         *)
(* getopt_long reveals the command line one option at a time.  Allocations *)
(* succeed.  A name is a sequence of characters, of which '/' and '.' are  *)
(* told apart from the rest.                                               *)
(***************************************************************************)
EXTENDS Integers, Sequences, SequencesExt, FiniteSetsExt

CONSTANTS
  Paths,     \* names of files, as [dirs, base]; an absolute one has <<>> as its first dir
  OutPaths,  \* those that may follow -o
  MaxOpts    \* bound: options on the command line

ASSUME BoundAssumption == OutPaths \subseteq Paths /\ MaxOpts \in Nat

VARIABLES
  pc,
  k,          \* options taken from getopt_long
  compiling,
  options,    \* options_t
  live,       \* blocks and files that are allocated or open
  defers,     \* what the cleanups to come release, the first to run last
  twice,      \* something was released that was not live
  parsed,     \* the result of the parser
  did,        \* what the run did with the program
  status,     \* of the process; -1 while it runs
  seen,       \* auxiliary: the options seen
  lost,       \* auxiliary: names whose only pointer was overwritten
  written     \* auxiliary: files opened for writing

parsing == <<k, compiling, options, seen, lost>>
outcome == <<parsed, did, written>>
vars == <<pc, parsing, live, defers, twice, outcome, status>>

Str(p) == FlattenSeq([i \in 1..Len(p.dirs) |-> Append(p.dirs[i], "/")]) \o p.base

\* The characters of a name; "x" stands for any other.
NameChar == {"/", ".", "x"}

ASSUME PathAssumption ==
  \A p \in Paths : p.dirs \in Seq(Seq(NameChar)) /\ p.base \in Seq(NameChar)

\* The steps down from where a path starts: `.' leads nowhere.
Steps(dirs) ==
  FlattenSeq([i \in 1..Len(dirs) |-> IF dirs[i] = <<".">> THEN <<>> ELSE <<dirs[i]>>])

\* The file that is called s: its directory and the last name.
FileOf(s) ==
  LET p == CHOOSE p \in Paths \cup {[dirs |-> <<>>, base |-> s]} : Str(p) = s
  IN  <<Steps(p.dirs), p.base>>

\* A pointer to a string, NULL, and the blocks of those that are not NULL.
Name(block, str) == [block |-> block, str |-> str]
NULL == Name(<<"NULL", 0>>, <<>>)
Owned(names) == {n.block : n \in names \ {NULL}}
Names == Owned({options.input_name, options.output_name})

\* Blocks and files are named for the pointer to them; for -o with a number.
Block(name) == <<name, 0>>

TypeOK ==
  /\ pc \in {"getopt", "extra", "open", "read", "mode", "write", "cleanup", "done", "crashed"}
  /\ k \in 0..MaxOpts
  /\ compiling \in BOOLEAN /\ options.dump_ir \in BOOLEAN /\ twice \in BOOLEAN
  /\ parsed \in {"no", "ok", "failed"}
  /\ did \in {"nothing", "dump", "interpret", "compile", "truncate"}
  /\ status \in IF pc \in {"cleanup", "done"} THEN {0, 1} ELSE {-1}
  /\ seen \subseteq {"c", "d", "o"}
  /\ lost \subseteq live
  /\ \A i \in DOMAIN defers : defers[i] \subseteq live

Init ==
  /\ pc = "getopt"
  /\ k = 0
  /\ compiling = FALSE
  /\ options = [input_name |-> NULL, output_name |-> NULL, dump_ir |-> FALSE]
  /\ live = {} /\ defers = <<>> /\ twice = FALSE
  /\ parsed = "no" /\ did = "nothing" /\ status = -1
  /\ seen = {} /\ lost = {} /\ written = {}

---------------------------------------------------------------------------
\* getopt_long returns the option c.
Getopt(c) ==
  /\ pc = "getopt"
  /\ k < MaxOpts
  /\ k' = k + 1
  /\ seen' = seen \cup {c}
  /\ UNCHANGED <<pc, defers, twice, outcome, status>>

OptCompile ==
  /\ Getopt("c")
  /\ compiling' = TRUE
  /\ UNCHANGED <<options, live, lost>>

OptDump ==
  /\ Getopt("d")
  /\ options' = [options EXCEPT !.dump_ir = TRUE]
  /\ UNCHANGED <<compiling, live, lost>>

\* A second -o overwrites the pointer to the name of the first.
OptOutput(p) ==
  /\ Getopt("o")
  /\ options' = [options EXCEPT !.output_name = Name(<<"output_name", k>>, Str(p))]
  /\ live' = live \cup {<<"output_name", k>>}
  /\ lost' = lost \cup Owned({options.output_name})
  /\ UNCHANGED compiling

\* error_ret, and exit in main: no cleanup is run.
error_ret ==
  /\ live' = live \ Names
  /\ twice' = (twice \/ ~(Names \subseteq live))
  /\ pc' = "done"
  /\ status' = 1
  /\ UNCHANGED <<parsing, defers, outcome>>

\* getopt_long meets an option it does not know, or -o without a name.
OptError == pc = "getopt" /\ k < MaxOpts /\ error_ret

MissingFile == pc = "getopt" /\ error_ret

---------------------------------------------------------------------------
\* The place of the last c in s, counted from 1; 0: there is none.
strrchr(s, c) == Max({0} \cup {i \in 1..Len(s) : s[i] = c})

\* Where the default name starts and ends in s, counted from 0.
NameStart(s) == strrchr(s, "/")

\* The extension is kept.
FaultyNameEnd(s) == Len(s)

\* Takes a leading '.' for the start of the extension.
FaultyNameEndHidden(s) == IF strrchr(s, ".") # 0 THEN strrchr(s, ".") - 1 ELSE Len(s)

NameEnd(s) == IF strrchr(s, ".") \notin {0, 1} THEN strrchr(s, ".") - 1 ELSE Len(s)

\* The first operand.  A default name whose end lies before its start has a
\* negative length: realloc fails, and memcpy is given NULL.
FileArgument(p) ==
  LET s       == Str(p)
      default == compiling /\ options.output_name = NULL
      named   == [options EXCEPT !.input_name = Name(Block("input_name"), s)]
      output  == Name(Block("default_name"), SubSeq(s, NameStart(s) + 1, NameEnd(s)))
  IN  /\ pc = "getopt"
      /\ IF default /\ NameEnd(s) < NameStart(s)
           THEN /\ pc' = "crashed"
                /\ options' = named
                /\ live' = live \cup {Block("input_name")}
           ELSE /\ pc' = "extra"
                /\ options' = IF default THEN [named EXCEPT !.output_name = output] ELSE named
                /\ live' = live \cup {Block("input_name")}
                                \cup (IF default THEN {Block("default_name")} ELSE {})
      /\ UNCHANGED <<k, compiling, defers, twice, outcome, status, seen, lost>>

ExtraArguments == pc = "extra" /\ error_ret

\* parse_options returns 0; main registers the release of the names and gets
\* its buffer and the IR.
MainStart ==
  /\ pc = "extra"
  /\ live' = live \cup {Block("buffer"), Block("ir_ctx")}
  /\ defers' = <<Names, {Block("buffer")}, {Block("ir_ctx")}>>
  /\ pc' = "open"
  /\ UNCHANGED <<parsing, twice, outcome, status>>

---------------------------------------------------------------------------
\* A pointer declared with defer_var is set to a new block or file; `Null'
\* when there is none, which the cleanup checks.
Acquire(name) ==
  /\ live' = live \cup {Block(name)}
  /\ defers' = Append(defers, {Block(name)})

Null ==
  /\ defers' = Append(defers, {})
  /\ UNCHANGED live

Return(code) ==
  /\ status' = code
  /\ pc' = "cleanup"

OpenInput ==
  /\ pc = "open"
  /\ Acquire("in_file")
  /\ pc' = "read"
  /\ UNCHANGED <<parsing, twice, outcome, status>>

\* The process is left by exit.
FaultyOpenInputFails ==
  /\ pc = "open"
  /\ Null
  /\ status' = 1
  /\ pc' = "done"
  /\ UNCHANGED <<parsing, twice, outcome>>

\* The error number is returned.
FaultyOpenInputErrno ==
  /\ pc = "open"
  /\ Null
  /\ Return(2)
  /\ UNCHANGED <<parsing, twice, outcome>>

OpenInputFails ==
  /\ pc = "open"
  /\ Null
  /\ Return(1)
  /\ UNCHANGED <<parsing, twice, outcome>>

\* The loop over fread and ir_ctx_parse comes to its end.
ReadFile ==
  /\ pc = "read"
  /\ parsed' = "ok"
  /\ pc' = "mode"
  /\ UNCHANGED <<parsing, live, defers, twice, did, status, written>>

ParseFails ==
  /\ pc = "read"
  /\ parsed' = "failed"
  /\ Return(1)
  /\ UNCHANGED <<parsing, live, defers, twice, did, written>>

DumpIr ==
  /\ pc = "mode"
  /\ options.dump_ir
  /\ did' = "dump"
  /\ Return(0)
  /\ UNCHANGED <<parsing, live, defers, twice, parsed, written>>

Interpret ==
  /\ pc = "mode"
  /\ ~options.dump_ir
  /\ options.output_name = NULL
  /\ Acquire("interpret_ctx")
  /\ did' = "interpret"
  /\ Return(0)
  /\ UNCHANGED <<parsing, twice, parsed, written>>

Compiles == pc = "mode" /\ ~options.dump_ir /\ options.output_name # NULL

\* fopen(output_name, "w") empties the file; it fails for the names that are
\* empty or those of directories.
OpenOutput ==
  /\ Compiles
  /\ options.output_name.str \notin {<<>>, <<".">>, <<".", ".">>}
  /\ Acquire("out_file")
  /\ written' = written \cup {FileOf(options.output_name.str)}
  /\ pc' = "write"
  /\ UNCHANGED <<parsing, twice, parsed, did, status>>

\* The failure is not passed on.
FaultyOpenOutputFails ==
  /\ Compiles
  /\ Null
  /\ Return(0)
  /\ UNCHANGED <<parsing, twice, outcome>>

OpenOutputFails ==
  /\ Compiles
  /\ Null
  /\ Return(1)
  /\ UNCHANGED <<parsing, twice, outcome>>

\* write_elf_file, which releases its elf_ctx before it returns.  The result
\* of ir_ctx_compile is ignored: when it fails a part of the program is
\* written, and main returns 0 all the same.
WriteElf ==
  /\ pc = "write"
  /\ did' \in {"compile", "truncate"}
  /\ Return(0)
  /\ UNCHANGED <<parsing, live, defers, twice, parsed, written>>

\* One cleanup is run, the one registered last.
Cleanup ==
  /\ pc = "cleanup"
  /\ LET n == Len(defers)
     IN  /\ live' = live \ defers[n]
         /\ twice' = (twice \/ ~(defers[n] \subseteq live))
         /\ defers' = SubSeq(defers, 1, n - 1)
         /\ pc' = IF n = 1 THEN "done" ELSE "cleanup"
  /\ UNCHANGED <<parsing, outcome, status>>

---------------------------------------------------------------------------
Run ==
  \/ OptCompile \/ OptDump \/ OptError
  \/ \E p \in OutPaths : OptOutput(p)
  \/ MissingFile
  \/ \E p \in Paths : FileArgument(p)
  \/ ExtraArguments \/ MainStart
  \/ OpenInput \/ OpenInputFails
  \/ ReadFile \/ ParseFails
  \/ DumpIr \/ Interpret
  \/ OpenOutput \/ OpenOutputFails \/ WriteElf
  \/ Cleanup

Ended == pc \in {"done", "crashed"} /\ UNCHANGED vars

Next == Run \/ Ended

Spec == Init /\ [][Next]_vars
---------------------------------------------------------------------------
(***************************************************************************)
(* However the process ends - by exit after a bad command line, or by one  *)
(* of the returns of main through the cleanups of defer.h - every block    *)
(* and file is released exactly once.  Only the names of all but the last  *)
(* of several -o are never freed.                                          *)
(***************************************************************************)
Released == ~twice /\ (pc = "done" => live = lost)

(***************************************************************************)
(* The default name of parse_options: the input's name is a directory,     *)
(* everything up to the last '/', then the output's name, then everything  *)
(* from the last '.' on, if that is not the first character.  It is        *)
(* computed without a crash unless such a '.' is there, but only in the    *)
(* directory part.                                                         *)
(***************************************************************************)
DefaultName ==
  compiling /\ "o" \notin seen /\ options.input_name # NULL =>
    LET s      == options.input_name.str
        dots    == {i \in 1..Len(s) : s[i] = "."}
        slashes == {i \in 1..Len(s) : s[i] = "/"}
    IN  IF pc = "crashed"
          THEN dots \ {1} # {} /\ \A i \in dots : \E j \in slashes : i < j
          ELSE \E dir \in slashes \cup {0}, ext \in (dots \ {1}) \cup {Len(s) + 1} :
                 /\ dir < ext
                 /\ options.output_name.str = SubSeq(s, dir + 1, ext - 1)
                 /\ \A i \in slashes : i <= dir
                 /\ \A i \in dots \ {1} : i <= ext /\ ext \in dots

(***************************************************************************)
(* Compiling under the default name never overwrites the source, except    *)
(* one in the working directory whose name has no '.' behind the first     *)
(* character: `bfcomp -c prog' and `bfcomp -c ./prog' do.  (An absolute    *)
(* path into the working directory counts as another file here.)           *)
(***************************************************************************)
SourceSurvives ==
  "o" \notin seen /\ options.input_name # NULL =>
    LET f == FileOf(options.input_name.str)
    IN  f \in written => f[1] = <<>> /\ \A i \in 2..Len(f[2]) : f[2][i] # "."

(***************************************************************************)
(* The process succeeds only if it did what the options say, whatever      *)
(* their order and number: -d before -o and -c, and -o without -c too      *)
(* compiles.  Of the program compiled a part may be missing, that is no    *)
(* failure.  If it fails it did nothing with the program.  No file is      *)
(* opened for writing before all of the input was parsed without an error: *)
(* a run that fails there leaves the executable of an earlier one alone.   *)
(***************************************************************************)
DoneAsTold ==
  /\ pc = "done" =>
       did \in IF status = 1 THEN {"nothing"}
               ELSE IF "d" \in seen THEN {"dump"}
               ELSE IF seen # {} THEN {"compile", "truncate"}
               ELSE {"interpret"}
  /\ written # {} => parsed = "ok" /\ "d" \notin seen
=============================================================================
