---------------------------- MODULE DriverProofs ---------------------------
(***************************************************************************)
(* Proofs about the driver, for all sets of names and any number of        *)
(* options: the process does what the options say, everything is released  *)
(* exactly once, and the source is not overwritten.                        *)
(***************************************************************************)
EXTENDS Driver, WellFoundedInduction, SequenceTheorems, TLAPS

---------------------------------------------------------------------------
(* Numbers and sequences *)

LessThan == {pair \in Nat \X Nat : pair[1] < pair[2]}

(***************************************************************************)
(* Every set of natural numbers that is not empty has a least element.     *)
(* Applied to the set of counterexamples, this is induction.               *)
(***************************************************************************)
LEMMA LeastNat ==
  ASSUME NEW T, T \subseteq Nat, T # {}
  PROVE  \E x \in T : \A y \in T : x <= y
<1>1. IsWellFoundedOn(LessThan, Nat)
  BY NatLessThanWellFounded DEF OpToRel, LessThan
<1>2. PICK x \in T : \A y \in T : <<y, x>> \notin LessThan
  BY <1>1, WFMin, Zenon
<1>3. \A y \in T : ~(y < x)
  BY <1>2 DEF LessThan
<1> QED
  BY <1>3

\* A part of a sequence.
LEMMA Segment ==
  ASSUME NEW T, NEW s \in Seq(T), NEW a \in Nat, NEW b \in Nat, a <= b, b <= Len(s)
  PROVE  /\ SubSeq(s, a + 1, b) \in Seq(T)
         /\ Len(SubSeq(s, a + 1, b)) = b - a
         /\ \A i \in 1..(b - a) : SubSeq(s, a + 1, b)[i] = s[a + i]
<1>1. \A i \in (a + 1)..b : s[i] \in T
  OBVIOUS
<1>2. b - (a + 1) + 1 = b - a /\ \A i \in 1..(b - a) : (a + 1) + i - 1 = a + i
  OBVIOUS
<1> QED
  BY <1>1, <1>2, SubSeqProperties

\* What FlattenSeq has put together after i sequences.
IsFlatten(f, n, seqs) ==
  f = [i \in 1..n |-> IF i = 1 THEN seqs[i] ELSE f[i - 1] \o seqs[i]]

LEMMA FlattenExists ==
  ASSUME NEW seqs, NEW n \in Nat
  PROVE  \E f : IsFlatten(f, n, seqs)
<1> DEFINE P(c) == \E f : IsFlatten(f, c, seqs)
           T == {c \in Nat : ~P(c)}
<1>1. P(0)
  <2> DEFINE f == [i \in 1..0 |-> {}]
  <2>1. f = [i \in 1..0 |-> IF i = 1 THEN seqs[i] ELSE f[i - 1] \o seqs[i]]
    OBVIOUS
  <2> QED
    BY <2>1 DEF IsFlatten
<1>2. ASSUME NEW c \in Nat, P(c) PROVE P(c + 1)
  <2>1. PICK g : IsFlatten(g, c, seqs)
    BY <1>2
  <2> DEFINE f == [i \in 1..(c + 1) |-> IF i = 1 THEN seqs[i] ELSE g[i - 1] \o seqs[i]]
  <2>2. \A i \in 1..c : f[i] = g[i]
    <3> TAKE i \in 1..c
    <3>1. i \in 1..(c + 1)
      OBVIOUS
    <3>2. g[i] = IF i = 1 THEN seqs[i] ELSE g[i - 1] \o seqs[i]
      BY <2>1 DEF IsFlatten
    <3> QED
      BY <3>1, <3>2
  <2>3. \A i \in 1..(c + 1) : i # 1 => i - 1 \in 1..c
    OBVIOUS
  <2>4. f = [i \in 1..(c + 1) |-> IF i = 1 THEN seqs[i] ELSE f[i - 1] \o seqs[i]]
    BY <2>2, <2>3
  <2> HIDE DEF f
  <2> QED
    BY <2>4 DEF IsFlatten
<1> HIDE DEF P
<1>3. T = {}
  <2> SUFFICES ASSUME T # {} PROVE FALSE
    OBVIOUS
  <2>1. PICK c \in T : \A y \in T : c <= y
    BY LeastNat
  <2>2. c \in Nat /\ ~P(c) /\ c # 0
    BY <1>1, <2>1
  <2>3. c - 1 \in Nat /\ (c - 1) + 1 = c /\ ~(c <= c - 1)
    BY <2>2
  <2>4. P(c - 1)
    BY <2>1, <2>3
  <2>5. P((c - 1) + 1)
    BY <1>2, <2>3, <2>4
  <2> QED
    BY <2>2, <2>3, <2>5
<1> QED
  BY <1>3 DEF P

---------------------------------------------------------------------------
Places == {"getopt", "extra", "open", "read", "mode", "write", "cleanup", "done", "crashed"}

OptionsShape ==
  options = [input_name  |-> options.input_name,
             output_name |-> options.output_name,
             dump_ir     |-> options.dump_ir]

---------------------------------------------------------------------------
(* What the run does *)

\* What main reads of the options, and what the command line was.
Told ==
  /\ seen \subseteq {"c", "d", "o"}
  /\ options.dump_ir <=> "d" \in seen
  /\ compiling <=> "c" \in seen
  /\ pc = "getopt" => (options.output_name # NULL <=> "o" \in seen)
  /\ pc \in {"extra", "open", "read", "mode", "write"} =>
       (options.output_name # NULL <=> "o" \in seen \/ "c" \in seen)

\* How far the run is.
Progress ==
  /\ pc \notin {"cleanup", "done"} => did = "nothing"
  /\ pc \in {"getopt", "extra", "open", "read", "mode"} => written = {}
  /\ pc \in {"mode", "write"} => parsed = "ok"
  /\ pc = "write" => "d" \notin seen /\ seen # {}

\* `DoneAsTold' holds from the return of main on.
Outcome ==
  /\ pc \in {"cleanup", "done"} =>
       did \in IF status = 1 THEN {"nothing"}
               ELSE IF "d" \in seen THEN {"dump"}
               ELSE IF seen # {} THEN {"compile", "truncate"}
               ELSE {"interpret"}
  /\ written # {} => parsed = "ok" /\ "d" \notin seen

DInv == pc \in Places /\ OptionsShape /\ Told /\ Progress /\ Outcome

LEMMA DInvInit == Init => DInv
BY DEF Init, DInv, Places, OptionsShape, Told, Progress, Outcome

\* A name that was set is not NULL.
LEMMA NameSet ==
  ASSUME NEW n, NEW i, NEW s, n # "NULL"
  PROVE  Name(<<n, i>>, s) # NULL
BY DEF Name, NULL

LEMMA DInvNext == DInv /\ [Next]_vars => DInv'
<1> SUFFICES ASSUME DInv, [Next]_vars PROVE DInv'
  OBVIOUS
<1> USE DEF DInv, Places
<1>1. CASE OptCompile
  BY <1>1 DEF OptCompile, Getopt, OptionsShape, Told, Progress, Outcome, outcome
<1>2. CASE OptDump
  BY <1>2 DEF OptDump, Getopt, OptionsShape, Told, Progress, Outcome, outcome
<1>3. CASE \E p \in OutPaths : OptOutput(p)
  <2>1. PICK p \in OutPaths : OptOutput(p)
    BY <1>3
  <2>2. Name(<<"output_name", k>>, Str(p)) # NULL
    BY NameSet
  <2> QED
    BY <2>1, <2>2 DEF OptOutput, Getopt, OptionsShape, Told, Progress, Outcome, outcome
<1>4. CASE OptError \/ MissingFile \/ ExtraArguments
  BY <1>4 DEF OptError, MissingFile, ExtraArguments, error_ret, OptionsShape, Told, Progress,
              Outcome, parsing, outcome
<1>5. CASE \E p \in Paths : FileArgument(p)
  <2>1. PICK p \in Paths : FileArgument(p)
    BY <1>5
  <2> DEFINE default == compiling /\ options.output_name = NULL
             named   == [options EXCEPT !.input_name = Name(Block("input_name"), Str(p))]
             output  == Name(Block("default_name"),
                             SubSeq(Str(p), NameStart(Str(p)) + 1, NameEnd(Str(p))))
  <2>2. output # NULL
    BY NameSet DEF Block
  <2>3. \/ pc' = "crashed" /\ options' = named
        \/ pc' = "extra" /\ options' = IF default THEN [named EXCEPT !.output_name = output]
                                                  ELSE named
    BY <2>1 DEF FileArgument
  <2>4. pc = "getopt" /\ UNCHANGED <<compiling, outcome, seen>>
    BY <2>1 DEF FileArgument
  <2>5. OptionsShape' /\ options'.dump_ir = options.dump_ir
    BY <2>3 DEF OptionsShape
  <2>6. pc' = "extra" => options'.output_name = IF default THEN output ELSE options.output_name
    BY <2>3 DEF OptionsShape
  <2>7. Told'
    <3> HIDE DEF output
    <3> QED BY <2>2, <2>3, <2>4, <2>5, <2>6 DEF Told
  <2> QED
    BY <2>3, <2>4, <2>5, <2>7 DEF Progress, Outcome, outcome
<1>6. CASE MainStart \/ OpenInput \/ OpenInputFails
  BY <1>6 DEF MainStart, OpenInput, OpenInputFails, Return, OptionsShape, Told, Progress,
              Outcome, parsing, outcome
<1>7. CASE ReadFile \/ ParseFails
  BY <1>7 DEF ReadFile, ParseFails, Return, OptionsShape, Told, Progress, Outcome, parsing
<1>8. CASE DumpIr \/ Interpret
  BY <1>8 DEF DumpIr, Interpret, Return, OptionsShape, Told, Progress, Outcome, parsing
<1>9. CASE OpenOutput \/ OpenOutputFails \/ WriteElf
  BY <1>9 DEF OpenOutput, OpenOutputFails, WriteElf, Compiles, Return, OptionsShape, Told,
              Progress, Outcome, parsing, outcome
<1>10. CASE Cleanup
  <2>1. pc = "cleanup" /\ pc' \in {"done", "cleanup"} /\ UNCHANGED <<parsing, outcome, status>>
    BY <1>10 DEF Cleanup
  <2> QED
    BY <2>1 DEF OptionsShape, Told, Progress, Outcome, parsing, outcome
<1>11. CASE UNCHANGED vars
  BY <1>11 DEF vars, OptionsShape, Told, Progress, Outcome, parsing, outcome
<1> QED
  BY <1>1, <1>2, <1>3, <1>4, <1>5, <1>6, <1>7, <1>8, <1>9, <1>10, <1>11 DEF Next, Run, Ended

(***************************************************************************)
(* Whatever the options and their order, a run of bfcomp that succeeds did *)
(* what they say, one that fails did nothing with the program, and no file *)
(* is opened for writing before the input was parsed.                      *)
(***************************************************************************)
THEOREM SpecDoneAsTold == Spec => []DoneAsTold
<1>1. DInv => DoneAsTold
  BY DEF DInv, Outcome, DoneAsTold
<1> QED
  BY <1>1, DInvInit, DInvNext, PTL DEF Spec

---------------------------------------------------------------------------
(* Who releases what *)

AllKinds == {"output_name", "default_name", "input_name", "buffer", "ir_ctx", "in_file",
             "out_file", "interpret_ctx"}

Blocks == AllKinds \X Nat

\* The lost names and what a stack of cleanups releases are all that is live,
\* and nothing is released by two of them.
Divided(ls, lo, ds) ==
  /\ ls \subseteq Blocks /\ lo \subseteq ls
  /\ ds \in Seq(SUBSET Blocks)
  /\ Len(ds) > 0
  /\ \A b \in Blocks : b \in ls <=> b \in lo \/ \E i \in 1..Len(ds) : b \in ds[i]
  /\ \A i \in 1..Len(ds) : lo \cap ds[i] = {}
  /\ \A i, j \in 1..Len(ds) : i # j => ds[i] \cap ds[j] = {}

\* While options are taken, only names given by -o are live.
TakingOptions ==
  pc = "getopt" =>
    /\ options.input_name = NULL
    /\ \/ options.output_name = NULL
       \/ \E j \in Nat : j < k /\ options.output_name.block = <<"output_name", j>>
    /\ \A b \in live : \E j \in Nat : j < k /\ b = <<"output_name", j>>

\* parse_options owns the names.
NamesOwned ==
  pc \in {"getopt", "extra"} =>
    /\ live = lost \cup Names
    /\ lost \cap Names = {}

\* main owns what its cleanups will release.
StackOwned ==
  pc \in {"open", "read", "mode", "write", "cleanup"} => Divided(live, lost, defers)

\* What may be live at the places where main gets something more.
Kinds ==
  [p \in {"extra", "open", "read", "mode"} |->
     {"output_name", "default_name", "input_name"}
       \cup (IF p = "extra" THEN {} ELSE {"buffer", "ir_ctx"})
       \cup (IF p \in {"extra", "open"} THEN {} ELSE {"in_file"})]

KindsLive == pc \in {"extra", "open", "read", "mode"} => live \subseteq Kinds[pc] \X Nat

OInv ==
  /\ pc \in Places
  /\ OptionsShape
  /\ k \in Nat
  /\ ~twice
  /\ TakingOptions
  /\ NamesOwned
  /\ StackOwned
  /\ KindsLive
  /\ pc = "done" => live = lost

\* One more cleanup, for something that was not live.
LEMMA Push ==
  ASSUME NEW ls, NEW lo, NEW ds, NEW x \in SUBSET Blocks,
         Divided(ls, lo, ds), x \cap ls = {}
  PROVE  Divided(ls \cup x, lo, Append(ds, x))
<1> DEFINE n  == Len(ds)
           es == Append(ds, x)
<1> USE DEF Divided
<1>1. n \in Nat /\ es \in Seq(SUBSET Blocks) /\ Len(es) = n + 1
  OBVIOUS
<1>2. es[n + 1] = x /\ \A i \in 1..n : es[i] = ds[i]
  OBVIOUS
<1>3. 1..(n + 1) = 1..n \cup {n + 1}
  BY <1>1
<1> HIDE DEF es
<1>4. \A b \in Blocks : b \in ls \cup x <=> b \in lo \/ \E i \in 1..(n + 1) : b \in es[i]
  BY <1>1, <1>2, <1>3
<1>5. \A i \in 1..n : ds[i] \cap x = {}
  BY <1>1
<1>6. lo \cap x = {}
  OBVIOUS
<1>7. \A i \in 1..(n + 1) : lo \cap es[i] = {}
  BY <1>1, <1>2, <1>3, <1>6
<1>8. \A i, j \in 1..(n + 1) : i # j => es[i] \cap es[j] = {}
  BY <1>1, <1>2, <1>3, <1>5
<1> QED
  BY <1>1, <1>4, <1>7, <1>8 DEF es

\* All but the last of a sequence.
LEMMA ShortenedType ==
  ASSUME NEW S, NEW s \in Seq(S), Len(s) > 0
  PROVE  /\ SubSeq(s, 1, Len(s) - 1) \in Seq(S)
         /\ Len(SubSeq(s, 1, Len(s) - 1)) = Len(s) - 1
<1> DEFINE m == Len(s) - 1
<1>1. m \in Nat /\ m <= Len(s) /\ \A i \in 1..m : s[i] \in S
  OBVIOUS
<1> HIDE DEF m
<1>2. SubSeq(s, 1, m) \in Seq(S)
  BY <1>1, SubSeqProperties
<1>3. Len(SubSeq(s, 1, m)) = m
  BY <1>1
<1> QED
  BY <1>2, <1>3 DEF m

\* The last cleanup has run.
LEMMA Pop ==
  ASSUME NEW ls, NEW lo, NEW ds, Divided(ls, lo, ds)
  PROVE  /\ Len(ds) \in Nat \ {0}
         /\ ds[Len(ds)] \subseteq ls
         /\ Len(ds) = 1 => ls \ ds[Len(ds)] = lo
         /\ Len(ds) # 1 => Divided(ls \ ds[Len(ds)], lo, SubSeq(ds, 1, Len(ds) - 1))
<1> DEFINE n  == Len(ds)
           x  == ds[n]
           es == SubSeq(ds, 1, n - 1)
<1> USE DEF Divided
<1>1. n \in Nat /\ n > 0 /\ n \in 1..n
  OBVIOUS
<1>2. x \subseteq Blocks /\ x \subseteq ls
  BY <1>1
<1>3. es \in Seq(SUBSET Blocks) /\ Len(es) = n - 1
  BY <1>1, ShortenedType
<1>4. \A i \in 1..(n - 1) : es[i] = ds[i] /\ i \in 1..n /\ i # n
  BY <1>1
<1>5. 1..n = 1..(n - 1) \cup {n}
  BY <1>1
<1> HIDE DEF es
<1>6. \A i \in 1..(n - 1) : ds[i] \cap x = {}
  BY <1>1, <1>4
<1>7. \A b \in Blocks : b \in ls \ x <=> b \in lo \/ \E i \in 1..(n - 1) : b \in ds[i]
  BY <1>1, <1>5, <1>6
<1>8. n = 1 => ls \ x = lo
  BY <1>7
<1>9. n # 1 => Divided(ls \ x, lo, es)
  <2> SUFFICES ASSUME n # 1 PROVE Divided(ls \ x, lo, es)
    OBVIOUS
  <2>1. \A b \in Blocks : b \in ls \ x <=> b \in lo \/ \E i \in 1..Len(es) : b \in es[i]
    BY <1>3, <1>4, <1>7
  <2>2. \A i \in 1..Len(es) : lo \cap es[i] = {}
    BY <1>3, <1>4
  <2>3. \A i, j \in 1..Len(es) : i # j => es[i] \cap es[j] = {}
    BY <1>3, <1>4
  <2> QED
    BY <1>1, <1>3, <2>1, <2>2, <2>3
<1>10. n \in Nat \ {0}
  BY <1>1
<1> HIDE DEF Divided
<1> QED
  BY <1>2, <1>8, <1>9, <1>10, Zenon DEF es

\* The blocks of the two names, the ones that are not NULL.
LEMMA NamesAre ==
  \A b : b \in Names <=>
    \/ options.input_name # NULL /\ b = options.input_name.block
    \/ options.output_name # NULL /\ b = options.output_name.block
BY DEF Names, Owned

LEMMA OInvInit == Init => OInv
<1> SUFFICES ASSUME Init PROVE OInv
  OBVIOUS
<1>1. Names = {}
  BY NamesAre DEF Init
<1> QED
  BY <1>1 DEF Init, OInv, Places, OptionsShape, TakingOptions, NamesOwned, StackOwned, KindsLive

\* error_ret frees both names, and only they are left.
LEMMA ErrorReturn ==
  ASSUME OInv, pc \in {"getopt", "extra"}, error_ret
  PROVE  OInv'
BY DEF OInv, Places, error_ret, parsing, OptionsShape, TakingOptions, NamesOwned, StackOwned,
       KindsLive

\* One more block or file under a name that nothing live has, or none.
LEMMA Acquired ==
  ASSUME Divided(live, lost, defers), NEW n \in AllKinds, Block(n) \notin live,
         UNCHANGED lost, Acquire(n) \/ Null
  PROVE  Divided(live', lost', defers')
<1>1. {Block(n)} \in SUBSET Blocks /\ {} \in SUBSET Blocks
  BY DEF Block, Blocks, AllKinds
<1>2. CASE Acquire(n)
  BY <1>1, <1>2, Push DEF Acquire
<1>3. CASE Null
  <2>1. Divided(live \cup {}, lost, Append(defers, {}))
    BY <1>1, Push
  <2>2. live \cup {} = live
    OBVIOUS
  <2> QED
    BY <1>3, <2>1, <2>2 DEF Null
<1> QED
  BY <1>2, <1>3

LEMMA OInvNext == OInv /\ [Next]_vars => OInv'
<1> SUFFICES ASSUME OInv, [Next]_vars PROVE OInv'
  OBVIOUS
<1> USE DEF OInv, Places
<1>1. CASE OptCompile \/ OptDump
  <2>1. /\ pc = "getopt" /\ pc' = "getopt" /\ k' = k + 1
        /\ UNCHANGED <<live, lost, defers, twice>>
        /\ OptionsShape'
        /\ options'.input_name = options.input_name
        /\ options'.output_name = options.output_name
    BY <1>1 DEF OptCompile, OptDump, Getopt, OptionsShape
  <2>2. Names' = Names
    BY <2>1 DEF Names, Owned
  <2>3. TakingOptions'
    BY <2>1 DEF TakingOptions
  <2> QED
    BY <2>1, <2>2, <2>3 DEF NamesOwned, StackOwned, KindsLive
<1>2. CASE \E p \in OutPaths : OptOutput(p)
  <2>1. PICK p \in OutPaths : OptOutput(p)
    BY <1>2
  <2> DEFINE new == <<"output_name", k>>
             out == Name(new, Str(p))
  <2>2. out # NULL /\ out.block = new
    BY NameSet DEF Name
  <2>3. /\ pc = "getopt" /\ pc' = "getopt" /\ k' = k + 1
        /\ UNCHANGED <<defers, twice>>
        /\ live' = live \cup {new} /\ lost' = lost \cup Owned({options.output_name})
        /\ OptionsShape'
        /\ options'.input_name = NULL /\ options'.output_name = out
    BY <2>1 DEF OptOutput, Getopt, OptionsShape, TakingOptions
  <2>4. Owned({options.output_name}) = Names
    BY <2>3 DEF Owned, Names, TakingOptions
  <2>5. Names' = {new}
    <3> HIDE DEF out
    <3> QED BY <2>2, <2>3 DEF Owned, Names
  <2>6. new \notin live
    BY <2>3 DEF TakingOptions
  <2>7. NamesOwned'
    BY <2>3, <2>4, <2>5, <2>6 DEF NamesOwned
  <2>8. TakingOptions'
    <3> HIDE DEF out
    <3>1. \A b \in live' : \E j \in Nat : j < k' /\ b = <<"output_name", j>>
      BY <2>3 DEF TakingOptions
    <3> QED BY <2>2, <2>3, <3>1 DEF TakingOptions
  <2> QED
    BY <2>3, <2>7, <2>8 DEF StackOwned, KindsLive
<1>3. CASE OptError \/ MissingFile \/ ExtraArguments
  BY <1>3, ErrorReturn DEF OptError, MissingFile, ExtraArguments
<1>4. CASE \E p \in Paths : FileArgument(p)
  <2>1. PICK p \in Paths : FileArgument(p)
    BY <1>4
  <2> DEFINE default == compiling /\ options.output_name = NULL
             input   == Name(Block("input_name"), Str(p))
             named   == [options EXCEPT !.input_name = input]
             output  == Name(Block("default_name"),
                             SubSeq(Str(p), NameStart(Str(p)) + 1, NameEnd(Str(p))))
  <2>2. /\ input # NULL /\ input.block = Block("input_name")
        /\ output # NULL /\ output.block = Block("default_name")
    BY NameSet DEF Block, Name
  <2>3. pc = "getopt" /\ UNCHANGED <<k, defers, twice, lost>>
    BY <2>1 DEF FileArgument
  <2>4. CASE pc' = "crashed"
    <3>1. options' = named
      BY <2>1, <2>4 DEF FileArgument
    <3>2. OptionsShape'
      BY <3>1 DEF OptionsShape
    <3> QED
      BY <2>3, <2>4, <3>2 DEF TakingOptions, NamesOwned, StackOwned, KindsLive
  <2>5. CASE pc' # "crashed"
    <3>1. /\ pc' = "extra"
          /\ options' = IF default THEN [named EXCEPT !.output_name = output] ELSE named
          /\ live' = live \cup {Block("input_name")}
                          \cup (IF default THEN {Block("default_name")} ELSE {})
      BY <2>1, <2>5 DEF FileArgument
    <3>2. /\ OptionsShape'
          /\ options'.input_name = input
          /\ options'.output_name = IF default THEN output ELSE options.output_name
      BY <3>1 DEF OptionsShape
    <3>3. \A b \in live : b \in {"output_name"} \X Nat
      BY <2>3 DEF TakingOptions
    <3>4. Names' = Names \cup {Block("input_name")}
                         \cup (IF default THEN {Block("default_name")} ELSE {})
      <4> HIDE DEF input, output
      <4>1. options.input_name = NULL
        BY <2>3 DEF TakingOptions
      <4> QED BY <2>2, <3>2, <4>1 DEF Names, Owned
    <3>5. Block("input_name") \notin live /\ Block("default_name") \notin live
      BY <3>3 DEF Block
    <3>6. NamesOwned'
      BY <2>3, <3>1, <3>4, <3>5 DEF NamesOwned
    <3>7. KindsLive'
      <4>1. live' \subseteq {"output_name", "default_name", "input_name"} \X Nat
        BY <3>1, <3>3 DEF Block
      <4> QED
        BY <3>1, <4>1 DEF KindsLive, Kinds
    <3> QED
      BY <2>3, <3>1, <3>2, <3>6, <3>7 DEF TakingOptions, StackOwned
  <2> QED
    BY <2>4, <2>5
<1>5. CASE MainStart
  <2> DEFINE bs == {Block("buffer")}
             is == {Block("ir_ctx")}
  <2>1. /\ pc = "extra" /\ pc' = "open"
        /\ UNCHANGED <<k, options, lost, twice>>
        /\ live' = (live \cup bs) \cup is
        /\ defers' = <<Names, bs, is>>
    BY <1>5 DEF MainStart, parsing
  <2>2. live \subseteq {"output_name", "default_name", "input_name"} \X Nat
    BY <2>1 DEF KindsLive, Kinds
  <2>3. bs \in SUBSET Blocks /\ is \in SUBSET Blocks /\ live \subseteq Blocks
    BY <2>2 DEF Block, Blocks, AllKinds
  <2>4. bs \cap live = {} /\ is \cap (live \cup bs) = {}
    BY <2>2 DEF Block
  <2>5. /\ Names \subseteq Blocks /\ lost \subseteq live
        /\ live = lost \cup Names /\ lost \cap Names = {}
    BY <2>1, <2>3 DEF NamesOwned
  <2>6. Divided((live \cup bs) \cup is, lost, <<Names, bs, is>>)
    <3> HIDE DEF bs, is
    <3> DEFINE ds == <<Names, bs, is>>
    <3>1. ds[1] = Names /\ ds[2] = bs /\ ds[3] = is /\ Len(ds) = 3
      OBVIOUS
    <3>2. ds \in Seq(SUBSET Blocks)
      BY <2>3, <2>5
    <3> HIDE DEF ds
    <3>3. \A i \in 1..3 : i = 1 \/ i = 2 \/ i = 3
      OBVIOUS
    <3>4. \A b \in Blocks : (\E i \in 1..3 : b \in ds[i]) <=> b \in Names \/ b \in bs \/ b \in is
      BY <3>1, <3>3
    <3>5. \A i, j \in 1..3 : i # j => ds[i] \cap ds[j] = {}
      BY <2>4, <2>5, <3>1, <3>3
    <3>6. \A i \in 1..3 : lost \cap ds[i] = {}
      BY <2>4, <2>5, <3>1, <3>3
    <3>7. Divided((live \cup bs) \cup is, lost, ds)
      BY <2>3, <2>5, <3>1, <3>2, <3>4, <3>5, <3>6 DEF Divided
    <3> QED
      BY <3>7 DEF ds
  <2>7. StackOwned'
    <3> HIDE DEF bs, is
    <3> QED BY <2>1, <2>6 DEF StackOwned
  <2>8. KindsLive'
    <3>1. live' \subseteq {"output_name", "default_name", "input_name", "buffer", "ir_ctx"} \X Nat
      BY <2>1, <2>2 DEF Block
    <3> QED
      BY <2>1, <3>1 DEF KindsLive, Kinds
  <2> QED
    BY <2>1, <2>7, <2>8 DEF OptionsShape, TakingOptions, NamesOwned
<1>6. CASE OpenInput
  <2>1. pc = "open" /\ pc' = "read" /\ Acquire("in_file") /\ UNCHANGED <<k, options, lost, twice>>
    BY <1>6 DEF OpenInput, parsing
  <2>2. live \subseteq {"output_name", "default_name", "input_name", "buffer", "ir_ctx"} \X Nat
    BY <2>1 DEF KindsLive, Kinds
  <2>3. Block("in_file") \notin live
    BY <2>2 DEF Block
  <2>4. StackOwned'
    BY <2>1, <2>3, Acquired DEF StackOwned, AllKinds
  <2>5. KindsLive'
    <3>1. live' \subseteq {"output_name", "default_name", "input_name", "buffer", "ir_ctx",
                           "in_file"} \X Nat
      BY <2>1, <2>2 DEF Acquire, Block
    <3> QED
      BY <2>1, <3>1 DEF KindsLive, Kinds
  <2> QED
    BY <2>1, <2>4, <2>5 DEF OptionsShape, TakingOptions, NamesOwned
<1>7. CASE OpenInputFails \/ OpenOutputFails
  <2>1. /\ pc \in {"open", "mode"} /\ pc' = "cleanup" /\ Null
        /\ UNCHANGED <<k, options, lost, twice>>
    BY <1>7 DEF OpenInputFails, OpenOutputFails, Compiles, Return, parsing
  <2>2. live \subseteq {"output_name", "default_name", "input_name", "buffer", "ir_ctx",
                        "in_file"} \X Nat
    BY <2>1 DEF KindsLive, Kinds
  <2>3. Block("out_file") \notin live
    BY <2>2 DEF Block
  <2>4. StackOwned'
    BY <2>1, <2>3, Acquired DEF StackOwned, AllKinds
  <2> QED
    BY <2>1, <2>4 DEF OptionsShape, TakingOptions, NamesOwned, KindsLive
<1>8. CASE Interpret \/ OpenOutput
  <2>1. /\ pc = "mode" /\ pc' \in {"cleanup", "write"}
        /\ UNCHANGED <<k, options, lost, twice>>
        /\ Acquire("interpret_ctx") \/ Acquire("out_file")
    BY <1>8 DEF Interpret, OpenOutput, Compiles, Return, parsing
  <2>2. live \subseteq {"output_name", "default_name", "input_name", "buffer", "ir_ctx",
                        "in_file"} \X Nat
    BY <2>1 DEF KindsLive, Kinds
  <2>3. Block("interpret_ctx") \notin live /\ Block("out_file") \notin live
    BY <2>2 DEF Block
  <2>4. StackOwned'
    BY <2>1, <2>3, Acquired DEF StackOwned, AllKinds
  <2> QED
    BY <2>1, <2>4 DEF OptionsShape, TakingOptions, NamesOwned, KindsLive
<1>9. CASE ReadFile
  BY <1>9 DEF ReadFile, parsing, OptionsShape, TakingOptions, NamesOwned, StackOwned, KindsLive, Kinds
<1>10. CASE ParseFails \/ DumpIr \/ WriteElf
  BY <1>10 DEF ParseFails, DumpIr, WriteElf, Return, parsing, OptionsShape, TakingOptions,
               NamesOwned, StackOwned, KindsLive
<1>11. CASE Cleanup
  <2> DEFINE n == Len(defers)
  <2>1. /\ pc = "cleanup" /\ pc' = (IF n = 1 THEN "done" ELSE "cleanup")
        /\ live' = live \ defers[n]
        /\ twice' = (twice \/ ~(defers[n] \subseteq live))
        /\ defers' = SubSeq(defers, 1, n - 1)
        /\ UNCHANGED <<k, options, lost>>
    BY <1>11 DEF Cleanup, parsing
  <2>2. /\ n \in Nat \ {0}
        /\ defers[n] \subseteq live
        /\ n = 1 => live \ defers[n] = lost
        /\ n # 1 => Divided(live \ defers[n], lost, SubSeq(defers, 1, n - 1))
    BY <2>1, Pop DEF StackOwned
  <2> HIDE DEF n
  <2>3. ~twice'
    BY <2>1, <2>2
  <2>4. StackOwned' /\ (pc' = "done" => live' = lost')
    BY <2>1, <2>2 DEF StackOwned
  <2> QED
    BY <2>1, <2>3, <2>4 DEF OptionsShape, TakingOptions, NamesOwned, KindsLive
<1>12. CASE UNCHANGED vars
  BY <1>12 DEF vars, parsing, OptionsShape, TakingOptions, NamesOwned, StackOwned, KindsLive,
               Names, Owned
<1> QED
  BY <1>1, <1>2, <1>3, <1>4, <1>5, <1>6, <1>7, <1>8, <1>9, <1>10, <1>11, <1>12
     DEF Next, Run, Ended

(***************************************************************************)
(* However many options there are and wherever the run ends, the cleanups  *)
(* of main and error_ret of parse_options release every block and file     *)
(* exactly once; only names that a later -o replaced are never freed.      *)
(***************************************************************************)
THEOREM SpecReleased == Spec => []Released
<1>1. OInv => Released
  BY DEF OInv, Released
<1> QED
  BY <1>1, OInvInit, OInvNext, PTL DEF Spec

---------------------------------------------------------------------------
(* Names of files *)

LEMMA JoinEnds ==
  ASSUME NEW T, NEW u \in Seq(T), NEW v \in Seq(T), Len(v) > 0
  PROVE  u \o v \in Seq(T) /\ Len(u \o v) > 0 /\ (u \o v)[Len(u \o v)] = v[Len(v)]
<1>1. u \o v \in Seq(T) /\ Len(u \o v) = Len(u) + Len(v)
  OBVIOUS
<1>2. (u \o v)[Len(u) + Len(v)] = v[Len(v)]
  OBVIOUS
<1> QED
  BY <1>1, <1>2

\* Sequences that are not empty and all end in c, and what they make up.
AllEndIn(seqs, c) == \A i \in 1..Len(seqs) : Len(seqs[i]) > 0 /\ seqs[i][Len(seqs[i])] = c

Joined(x, seqs, c) ==
  /\ FlattenSeq(seqs) = x
  /\ Len(seqs) = 0 => x = <<>>
  /\ Len(seqs) # 0 => Len(x) > 0 /\ x[Len(x)] = c

LEMMA FlattenEnds ==
  ASSUME NEW T, NEW seqs \in Seq(Seq(T)), NEW c, AllEndIn(seqs, c)
  PROVE  \E x \in Seq(T) : Joined(x, seqs, c)
<1> USE DEF AllEndIn, Joined
<1>0. Len(seqs) \in Nat
  OBVIOUS
<1>1. CASE Len(seqs) = 0
  <2>1. FlattenSeq(seqs) = <<>> /\ <<>> \in Seq(T)
    BY <1>1 DEF FlattenSeq
  <2> QED
    BY <1>1, <2>1
<1>2. CASE Len(seqs) # 0
  <2> DEFINE n == Len(seqs)
             f == CHOOSE f : IsFlatten(f, n, seqs)
  <2>1. FlattenSeq(seqs) = f[n]
    BY <1>2 DEF FlattenSeq, IsFlatten
  <2>2. IsFlatten(f, n, seqs)
    BY <1>0, FlattenExists
  <2> HIDE DEF f
  <2>3. \A i \in 1..n : f[i] = IF i = 1 THEN seqs[i] ELSE f[i - 1] \o seqs[i]
    BY <2>2 DEF IsFlatten
  <2> DEFINE Q(i) == f[i] \in Seq(T) /\ Len(f[i]) > 0 /\ f[i][Len(f[i])] = c
             U == {i \in 1..n : ~Q(i)}
  <2>4. Q(1)
    <3>1. 1 \in 1..n
      BY <1>0, <1>2
    <3>2. f[1] = seqs[1] /\ seqs[1] \in Seq(T)
      BY <2>3, <3>1
    <3> QED
      BY <3>1, <3>2
  <2>5. ASSUME NEW i \in 1..n, i # 1, Q(i - 1) PROVE Q(i)
    <3>1. seqs[i] \in Seq(T) /\ Len(seqs[i]) > 0 /\ seqs[i][Len(seqs[i])] = c
      BY <1>0
    <3>2. f[i] = f[i - 1] \o seqs[i] /\ f[i - 1] \in Seq(T)
      BY <2>3, <2>5
    <3>3. /\ f[i - 1] \o seqs[i] \in Seq(T) /\ Len(f[i - 1] \o seqs[i]) > 0
          /\ (f[i - 1] \o seqs[i])[Len(f[i - 1] \o seqs[i])] = seqs[i][Len(seqs[i])]
      BY <3>1, <3>2, JoinEnds
    <3> QED
      BY <3>1, <3>2, <3>3
  <2> HIDE DEF Q
  <2>6. U = {}
    <3> SUFFICES ASSUME U # {} PROVE FALSE
      OBVIOUS
    <3>0. U \subseteq Nat
      OBVIOUS
    <3>1. PICK k_ \in U : \A z \in U : k_ <= z
      BY <3>0, LeastNat
    <3>2. k_ \in 1..n /\ ~Q(k_) /\ k_ # 1
      BY <2>4, <3>1
    <3>3. k_ - 1 \in 1..n /\ ~(k_ <= k_ - 1)
      BY <1>0, <3>2
    <3>4. Q(k_ - 1)
      BY <3>1, <3>3
    <3> QED
      BY <2>5, <3>2, <3>4
  <2>7. n \in 1..n
    BY <1>0, <1>2
  <2>8. Q(n)
    BY <2>6, <2>7
  <2> QED
    BY <1>2, <2>1, <2>8 DEF Q
<1> QED
  BY <1>1, <1>2

\* A path as the system reads it.
Typed(p) == p.dirs \in Seq(Seq(NameChar)) /\ p.base \in Seq(NameChar)

\* What stands in front of the last name is nothing or ends in `/'.
DirPart(x, p) ==
  /\ Str(p) = x \o p.base
  /\ p.dirs = <<>> => x = <<>>
  /\ p.dirs # <<>> => Len(x) > 0 /\ x[Len(x)] = "/"

LEMMA StrIs ==
  ASSUME NEW p, Typed(p)
  PROVE  \E x \in Seq(NameChar) : DirPart(x, p)
<1> DEFINE seqs == [i \in 1..Len(p.dirs) |-> Append(p.dirs[i], "/")]
<1>1. Len(p.dirs) \in Nat /\ \A i \in 1..Len(p.dirs) : p.dirs[i] \in Seq(NameChar)
  BY DEF Typed
<1>2. "/" \in NameChar
  BY DEF NameChar
<1>3. seqs \in Seq(Seq(NameChar)) /\ Len(seqs) = Len(p.dirs)
  <2>1. \A i \in 1..Len(p.dirs) : Append(p.dirs[i], "/") \in Seq(NameChar)
    BY <1>1, <1>2
  <2> QED
    BY <1>1, <2>1
<1>4. AllEndIn(seqs, "/")
  BY <1>1, <1>3 DEF AllEndIn
<1>5. Str(p) = FlattenSeq(seqs) \o p.base
  BY DEF Str
<1> HIDE DEF seqs
<1>6. PICK x \in Seq(NameChar) : Joined(x, seqs, "/")
  BY <1>3, <1>4, FlattenEnds
<1>7. Len(p.dirs) = 0 <=> p.dirs = <<>>
  BY DEF Typed
<1> QED
  BY <1>3, <1>5, <1>6, <1>7 DEF DirPart, Joined

LEMMA StrTyped ==
  \A p \in Paths : Str(p) \in Seq(NameChar)
<1> TAKE p \in Paths
<1>1. Typed(p)
  BY PathAssumption DEF Typed
<1>2. PICK x \in Seq(NameChar) : DirPart(x, p)
  BY <1>1, StrIs
<1> QED
  BY <1>1, <1>2 DEF Typed, DirPart

\* Every name is that of a path.
LEMMA FileOfIs ==
  ASSUME NEW s \in Seq(NameChar)
  PROVE  \E p : Typed(p) /\ Str(p) = s /\ FileOf(s) = <<Steps(p.dirs), p.base>>
<1> DEFINE plain == [dirs |-> <<>>, base |-> s]
           p     == CHOOSE p \in Paths \cup {plain} : Str(p) = s
<1>1. Typed(plain)
  BY DEF Typed
<1>2. Str(plain) = s
  <2>1. PICK x \in Seq(NameChar) : DirPart(x, plain)
    BY <1>1, StrIs
  <2>2. Str(plain) = <<>> \o s
    BY <2>1 DEF DirPart
  <2> QED
    BY <2>2
<1>3. FileOf(s) = <<Steps(p.dirs), p.base>>
  BY DEF FileOf
<1> HIDE DEF plain
<1>4. p \in Paths \cup {plain} /\ Str(p) = s
  BY <1>2
<1> HIDE DEF p
<1>5. Typed(p)
  BY <1>1, <1>4, PathAssumption DEF Typed
<1> QED
  BY <1>3, <1>4, <1>5

\* A name without a `/' is that of a file in the working directory.
LEMMA FileOfPlain ==
  ASSUME NEW s \in Seq(NameChar), \A i \in 1..Len(s) : s[i] # "/"
  PROVE  FileOf(s) = << <<>>, s >>
<1>1. PICK p : Typed(p) /\ Str(p) = s /\ FileOf(s) = <<Steps(p.dirs), p.base>>
  BY FileOfIs
<1>2. PICK x \in Seq(NameChar) : DirPart(x, p)
  BY <1>1, StrIs
<1>3. s = x \o p.base /\ p.base \in Seq(NameChar)
  BY <1>1, <1>2 DEF DirPart, Typed
<1>4. p.dirs = <<>>
  <2> SUFFICES ASSUME p.dirs # <<>> PROVE FALSE
    OBVIOUS
  <2>1. Len(x) > 0 /\ x[Len(x)] = "/"
    BY <1>2 DEF DirPart
  <2>2. Len(x) \in 1..Len(s) /\ s[Len(x)] = x[Len(x)]
    BY <1>3, <2>1
  <2> QED
    BY <2>1, <2>2
<1>5. x = <<>>
  BY <1>2, <1>4 DEF DirPart
<1>6. s = p.base
  BY <1>3, <1>5
<1>7. Steps(<<>>) = <<>>
  BY DEF Steps, FlattenSeq
<1> QED
  BY <1>1, <1>4, <1>6, <1>7

---------------------------------------------------------------------------
(* The default name *)

\* What strrchr finds is there, and nothing is behind it.
LEMMA StrrchrFinds ==
  ASSUME NEW s \in Seq(NameChar), NEW c
  PROVE  /\ strrchr(s, c) \in 0..Len(s)
         /\ strrchr(s, c) # 0 => s[strrchr(s, c)] = c
         /\ \A i \in 1..Len(s) : s[i] = c => i <= strrchr(s, c)
<1> DEFINE S == {0} \cup {i \in 1..Len(s) : s[i] = c}
           T == {Len(s) - i : i \in S}
<1>1. Len(s) \in Nat /\ S \subseteq 0..Len(s) /\ 0 \in S
  OBVIOUS
<1> HIDE DEF S
<1>2. T \subseteq Nat /\ T # {}
  BY <1>1
<1>3. PICK x \in T : \A y \in T : x <= y
  BY <1>2, LeastNat
<1>4. PICK m \in S : x = Len(s) - m
  BY <1>3
<1>5. \A i \in S : m >= i
  <2> SUFFICES ASSUME NEW i \in S PROVE m >= i
    OBVIOUS
  <2>1. Len(s) - i \in T
    OBVIOUS
  <2>2. Len(s) - m <= Len(s) - i
    BY <1>3, <1>4, <2>1
  <2> QED
    BY <1>1, <2>2
<1>6. Max(S) \in S /\ \A i \in S : Max(S) >= i
  BY <1>5, Zenon DEF Max
<1>7. strrchr(s, c) = Max(S)
  BY DEF strrchr, S
<1> DEFINE r == Max(S)
<1> HIDE DEF r
<1>8. r \in S /\ \A i \in S : r >= i
  BY <1>6 DEF r
<1>9. r \in 0..Len(s) /\ (r # 0 => s[r] = c) /\ \A i \in 1..Len(s) : s[i] = c => i <= r
  BY <1>1, <1>8 DEF S
<1> QED
  BY <1>7, <1>9 DEF r

Dots(s)    == {i \in 1..Len(s) : s[i] = "."}
Slashes(s) == {i \in 1..Len(s) : s[i] = "/"}

\* With a `.' only in the directory part, the end lies before the start.
LEMMA NegativeLength ==
  ASSUME NEW s \in Seq(NameChar), NameEnd(s) < NameStart(s)
  PROVE  Dots(s) \ {1} # {} /\ \A i \in Dots(s) : \E j \in Slashes(s) : i < j
<1> DEFINE d == strrchr(s, ".")
           l == strrchr(s, "/")
           n == Len(s)
<1>1. /\ d \in 0..n /\ (d # 0 => s[d] = ".") /\ \A i \in 1..n : s[i] = "." => i <= d
      /\ l \in 0..n /\ (l # 0 => s[l] = "/") /\ \A i \in 1..n : s[i] = "/" => i <= l
  BY StrrchrFinds
<1>2. n \in Nat
  OBVIOUS
<1>3. NameEnd(s) = (IF d \notin {0, 1} THEN d - 1 ELSE n) /\ NameStart(s) = l
  BY DEF NameEnd, NameStart
<1> HIDE DEF d, l, n
<1>4. d \notin {0, 1} /\ d <= l
  BY <1>1, <1>2, <1>3
<1>5. d # l
  BY <1>1, <1>2, <1>4
<1>6. d \in 1..n /\ l \in 1..n /\ d < l
  BY <1>1, <1>2, <1>4, <1>5
<1>7. d \in Dots(s) /\ l \in Slashes(s) /\ \A i \in Dots(s) : i <= d /\ i \in 1..n
  BY <1>1, <1>6 DEF Dots, Slashes, n
<1> QED
  BY <1>2, <1>4, <1>6, <1>7

\* Otherwise the two are the last '/' and the last `.' that counts, or the
\* ends of the name.
LEMMA Between ==
  ASSUME NEW s \in Seq(NameChar), ~(NameEnd(s) < NameStart(s))
  PROVE  LET dir == NameStart(s)
             ext == NameEnd(s) + 1
         IN  /\ dir \in Slashes(s) \cup {0} /\ ext \in (Dots(s) \ {1}) \cup {Len(s) + 1}
             /\ dir < ext
             /\ \A i \in Slashes(s) : i <= dir
             /\ \A i \in Dots(s) \ {1} : i <= ext /\ ext \in Dots(s)
             /\ ext - 1 = NameEnd(s)
<1> DEFINE d == strrchr(s, ".")
           l == strrchr(s, "/")
           n == Len(s)
           e == IF d \notin {0, 1} THEN d - 1 ELSE n
<1>1. /\ d \in 0..n /\ (d # 0 => s[d] = ".") /\ \A i \in 1..n : s[i] = "." => i <= d
      /\ l \in 0..n /\ (l # 0 => s[l] = "/") /\ \A i \in 1..n : s[i] = "/" => i <= l
  BY StrrchrFinds
<1>2. n \in Nat
  OBVIOUS
<1>3. NameEnd(s) = e /\ NameStart(s) = l
  BY DEF NameEnd, NameStart
<1>4. ~(e < l)
  BY <1>3
<1> HIDE DEF d, l
<1>5. /\ l \in Slashes(s) \cup {0} /\ \A i \in Slashes(s) : i <= l
      /\ d \in Dots(s) \cup {0} /\ \A i \in Dots(s) : i <= d /\ i \in 1..n
  BY <1>1, <1>2 DEF Dots, Slashes
<1> HIDE DEF n
<1>6. e \in Int /\ e - 0 = e
  BY <1>1, <1>2
<1>7. CASE d \notin {0, 1}
  <2>1. e = d - 1 /\ e + 1 = d /\ (e + 1) - 1 = e /\ l < e + 1
    BY <1>1, <1>2, <1>4, <1>7
  <2> QED
    BY <1>3, <1>5, <1>7, <2>1
<1>8. CASE d \in {0, 1}
  <2>1. e = n /\ (e + 1) - 1 = e /\ l < e + 1
    BY <1>1, <1>2, <1>4, <1>8
  <2>2. \A i \in Dots(s) : i = 1
    BY <1>2, <1>5, <1>8
  <2> QED
    BY <1>3, <1>5, <2>1, <2>2 DEF n
<1> QED
  BY <1>7, <1>8

\* `DefaultName' as a predicate of what it depends on.
DerivedBetween(s, t) ==
  \E dir \in Slashes(s) \cup {0}, ext \in (Dots(s) \ {1}) \cup {Len(s) + 1} :
    /\ dir < ext
    /\ t = SubSeq(s, dir + 1, ext - 1)
    /\ \A i \in Slashes(s) : i <= dir
    /\ \A i \in Dots(s) \ {1} : i <= ext /\ ext \in Dots(s)

Derived(cs, sn, os, crashed) ==
  cs /\ "o" \notin sn /\ os.input_name # NULL =>
    LET s == os.input_name.str
    IN  IF crashed
          THEN Dots(s) \ {1} # {} /\ \A i \in Dots(s) : \E j \in Slashes(s) : i < j
          ELSE DerivedBetween(s, os.output_name.str)

LEMMA DefaultNameIs ==
  DefaultName <=> Derived(compiling, seen, options, pc = "crashed")
BY DEF DefaultName, Derived, DerivedBetween, Dots, Slashes

LEMMA DefaultNameIsNext ==
  DefaultName' <=> Derived(compiling', seen', options', pc' = "crashed")
BY DEF DefaultName, Derived, DerivedBetween, Dots, Slashes

\* No name but that of the input is computed from what getopt_long returned.
NInv == (pc = "getopt" => options.input_name = NULL) /\ DefaultName

LEMMA NInvInit == Init => NInv
BY DEF Init, NInv, DefaultName

LEMMA NInvNext == DInv /\ NInv /\ [Next]_vars => NInv'
<1> SUFFICES ASSUME DInv, NInv, [Next]_vars PROVE NInv'
  OBVIOUS
<1>1. CASE OptCompile \/ OptDump \/ \E p \in OutPaths : OptOutput(p)
  <2>1. pc' = "getopt" /\ options'.input_name = NULL
    BY <1>1 DEF OptCompile, OptDump, OptOutput, Getopt, NInv, DInv, OptionsShape
  <2> QED
    BY <2>1 DEF NInv, DefaultName
<1>2. CASE \E p \in Paths : FileArgument(p)
  <2>1. PICK p \in Paths : FileArgument(p)
    BY <1>2
  <2> DEFINE s       == Str(p)
             default == compiling /\ options.output_name = NULL
             named   == [options EXCEPT !.input_name = Name(Block("input_name"), s)]
             output  == Name(Block("default_name"), SubSeq(s, NameStart(s) + 1, NameEnd(s)))
  <2>2. s \in Seq(NameChar)
    BY StrTyped
  <2> SUFFICES ASSUME compiling', "o" \notin seen', options'.input_name # NULL
               PROVE  pc' # "getopt" /\ DefaultName'
    BY <2>1 DEF FileArgument, NInv, DefaultName
  <2>3. default
    BY <2>1 DEF FileArgument, DInv, Told
  <2>4. CASE NameEnd(s) < NameStart(s)
    <3>1. pc' = "crashed" /\ options' = named
      BY <2>1, <2>3, <2>4 DEF FileArgument
    <3>2. options'.input_name.str = s
      BY <3>1 DEF DInv, OptionsShape, Name
    <3>3. Dots(s) \ {1} # {} /\ \A i \in Dots(s) : \E j \in Slashes(s) : i < j
      BY <2>2, <2>4, NegativeLength
    <3> HIDE DEF s
    <3> QED
      BY <3>1, <3>2, <3>3, DefaultNameIsNext DEF Derived
  <2>5. CASE ~(NameEnd(s) < NameStart(s))
    <3>1. pc' = "extra" /\ options' = [named EXCEPT !.output_name = output]
      BY <2>1, <2>3, <2>5 DEF FileArgument
    <3>2. /\ options'.input_name.str = s
          /\ options'.output_name.str = SubSeq(s, NameStart(s) + 1, NameEnd(s))
      BY <3>1 DEF DInv, OptionsShape, Name
    <3> HIDE DEF s
    <3> DEFINE dir == NameStart(s)
               ext == NameEnd(s) + 1
    <3>3. /\ dir \in Slashes(s) \cup {0} /\ ext \in (Dots(s) \ {1}) \cup {Len(s) + 1}
          /\ dir < ext
          /\ \A i \in Slashes(s) : i <= dir
          /\ \A i \in Dots(s) \ {1} : i <= ext /\ ext \in Dots(s)
          /\ ext - 1 = NameEnd(s)
      BY <2>2, <2>5, Between
    <3>4. options'.output_name.str = SubSeq(s, dir + 1, ext - 1)
      BY <3>2, <3>3
    <3> HIDE DEF dir, ext
    <3>5. DerivedBetween(s, options'.output_name.str)
      BY <3>3, <3>4 DEF DerivedBetween
    <3> QED
      BY <3>1, <3>2, <3>5, DefaultNameIsNext DEF Derived
  <2> QED
    BY <2>4, <2>5
<1>3. CASE UNCHANGED parsing /\ pc' # "getopt" /\ (pc' = "crashed" <=> pc = "crashed")
  <2>1. UNCHANGED <<compiling, seen, options>> /\ (pc' = "crashed") = (pc = "crashed")
    BY <1>3 DEF parsing
  <2> QED
    BY <1>3, <2>1, DefaultNameIs, DefaultNameIsNext DEF NInv
<1>4. CASE UNCHANGED vars
  BY <1>4, DefaultNameIs, DefaultNameIsNext DEF vars, parsing, NInv
<1>5. CASE \/ OptError \/ MissingFile \/ ExtraArguments \/ MainStart
           \/ OpenInput \/ OpenInputFails \/ ReadFile \/ ParseFails \/ DumpIr \/ Interpret
           \/ OpenOutput \/ OpenOutputFails \/ WriteElf
  BY <1>3, <1>5 DEF OptError, MissingFile, ExtraArguments, error_ret, MainStart, OpenInput,
                    OpenInputFails, ReadFile, ParseFails, DumpIr, Interpret, OpenOutput,
                    OpenOutputFails, Compiles, WriteElf, Return
<1>6. CASE Cleanup
  <2>1. pc = "cleanup" /\ pc' \in {"done", "cleanup"} /\ UNCHANGED parsing
    BY <1>6 DEF Cleanup
  <2> QED
    BY <1>3, <2>1
<1> QED
  BY <1>1, <1>2, <1>4, <1>5, <1>6 DEF Next, Run, Ended

(***************************************************************************)
(* For every name of the input, parse_options computes the default name    *)
(* from the last '/' and the last '.', and crashes only if that '.' is in  *)
(* the directory part.                                                     *)
(***************************************************************************)
THEOREM SpecDefaultName == Spec => []DefaultName
<1>1. NInv => DefaultName
  BY DEF NInv
<1> QED
  BY <1>1, DInvInit, DInvNext, NInvInit, NInvNext, PTL DEF Spec

---------------------------------------------------------------------------
(* The source *)

\* A default name that is the name of the source is all of it, and has no `.'
\* but at its start.
LEMMA SameFile ==
  ASSUME NEW s \in Seq(NameChar), NEW t, DerivedBetween(s, t), FileOf(s) = FileOf(t)
  PROVE  FileOf(s)[1] = <<>> /\ \A i \in 2..Len(FileOf(s)[2]) : FileOf(s)[2][i] # "."
<1> DEFINE n == Len(s)
<1>1. n \in Nat
  OBVIOUS
<1>2. PICK dir \in Slashes(s) \cup {0}, ext \in (Dots(s) \ {1}) \cup {n + 1} :
        /\ dir < ext
        /\ t = SubSeq(s, dir + 1, ext - 1)
        /\ \A i \in Slashes(s) : i <= dir
        /\ \A i \in Dots(s) \ {1} : i <= ext /\ ext \in Dots(s)
  BY DEF DerivedBetween
<1>3. /\ dir \in 0..n
      /\ ext \in 1..(n + 1)
      /\ \A i \in 1..n : s[i] = "/" => i <= dir
      /\ \A i \in 1..n : s[i] = "." /\ i # 1 => ext \in 1..n
  BY <1>1, <1>2 DEF Slashes, Dots
<1>4. PICK e \in Nat : e = ext - 1
  BY <1>1, <1>3
<1>5. e \in dir..n
  BY <1>1, <1>2, <1>3, <1>4
<1>6. /\ t \in Seq(NameChar) /\ Len(t) = e - dir
      /\ \A i \in 1..(e - dir) : t[i] = s[dir + i]
  <2>1. dir \in Nat /\ dir <= e /\ e <= Len(s)
    BY <1>1, <1>3, <1>5
  <2> QED
    BY <1>2, <1>4, <2>1, Segment
<1>7. FileOf(t) = << <<>>, t >>
  <2>1. \A i \in 1..Len(t) : dir + i \in 1..n /\ ~(dir + i <= dir)
    BY <1>1, <1>3, <1>5, <1>6
  <2>2. \A i \in 1..Len(t) : t[i] # "/"
    BY <1>3, <1>6, <2>1
  <2> QED
    BY <1>6, <2>2, FileOfPlain
<1>8. PICK p : Typed(p) /\ Str(p) = s /\ FileOf(s) = <<Steps(p.dirs), p.base>>
  BY FileOfIs
<1>9. Steps(p.dirs) = <<>> /\ p.base = t
  BY <1>7, <1>8
<1>10. PICK x \in Seq(NameChar) : DirPart(x, p)
  BY <1>8, StrIs
<1>11. s = x \o t
  BY <1>8, <1>9, <1>10 DEF DirPart
<1>12. n = Len(x) + Len(t) /\ \A i \in 1..Len(x) : s[i] = x[i]
  <2>1. \A a, b \in Seq(NameChar) :
          Len(a \o b) = Len(a) + Len(b) /\ \A i \in 1..Len(a) : (a \o b)[i] = a[i]
    OBVIOUS
  <2> QED
    BY <1>6, <1>10, <1>11, <2>1
<1>13. Len(x) \in Nat
  OBVIOUS
<1>14. Len(x) <= dir
  <2>1. CASE p.dirs = <<>>
    BY <1>3, <1>10, <2>1 DEF DirPart
  <2>2. CASE p.dirs # <<>>
    <3>1. Len(x) > 0 /\ x[Len(x)] = "/"
      BY <1>10, <2>2 DEF DirPart
    <3>2. Len(x) \in 1..n /\ s[Len(x)] = "/"
      BY <1>6, <1>12, <1>13, <3>1
    <3> QED
      BY <1>3, <3>2
  <2> QED
    BY <2>1, <2>2
<1> HIDE DEF n
<1>15. e = n /\ ext \notin 1..n
  <2>1. n = Len(x) + (e - dir)
    BY <1>6, <1>12
  <2>2. PICK h \in Nat : h = Len(x)
    BY <1>13
  <2>3. dir \in Nat /\ e <= n /\ n = h + (e - dir) /\ h <= dir
    BY <1>1, <1>3, <1>5, <1>14, <2>1, <2>2
  <2>4. e = n
    BY ONLY <2>3, n \in Nat, e \in Nat, h \in Nat
  <2>5. ext = n + 1
    BY <1>1, <1>3, <1>4, <2>4
  <2> QED
    BY <1>1, <2>4, <2>5
<1>16. \A i \in 2..Len(t) : t[i] # "."
  <2> SUFFICES ASSUME NEW i \in 2..Len(t) PROVE t[i] # "."
    OBVIOUS
  <2>1. dir + i \in 1..n /\ dir + i # 1 /\ i \in 1..(e - dir)
    BY <1>1, <1>3, <1>5, <1>6
  <2> QED
    BY <1>3, <1>6, <1>15, <2>1
<1> QED
  BY <1>8, <1>9, <1>16

\* The only file that is opened for writing is the one the options name, and
\* only where a name was given or derived.
WInv ==
  /\ options.input_name # NULL => options.input_name.str \in Seq(NameChar)
  /\ pc = "crashed" => written = {}
  /\ written # {} => "o" \in seen \/ compiling
  /\ \A f \in written : f = FileOf(options.output_name.str)

LEMMA WInvInit == Init => WInv
BY DEF Init, WInv

LEMMA WInvNext == DInv /\ WInv /\ [Next]_vars => WInv'
<1> SUFFICES ASSUME DInv, WInv, [Next]_vars PROVE WInv'
  OBVIOUS
<1>1. CASE OptCompile \/ OptDump \/ \E p \in OutPaths : OptOutput(p)
  <2>1. /\ pc = "getopt" /\ pc' = "getopt" /\ UNCHANGED written
        /\ options'.input_name = options.input_name
    BY <1>1 DEF OptCompile, OptDump, OptOutput, Getopt, DInv, OptionsShape, outcome
  <2>2. written = {}
    BY <2>1 DEF DInv, Progress
  <2> QED
    BY <2>1, <2>2 DEF WInv
<1>2. CASE \E p \in Paths : FileArgument(p)
  <2>1. PICK p \in Paths : FileArgument(p)
    BY <1>2
  <2>2. Str(p) \in Seq(NameChar)
    BY StrTyped
  <2> DEFINE named == [options EXCEPT !.input_name = Name(Block("input_name"), Str(p))]
  <2>3. /\ pc = "getopt" /\ UNCHANGED written
        /\ options' = named \/ \E o : options' = [named EXCEPT !.output_name = o]
    BY <2>1 DEF FileArgument, outcome
  <2>5. named.input_name.str = Str(p)
    BY DEF DInv, OptionsShape, Name
  <2>6. options'.input_name = named.input_name
    BY <2>3 DEF DInv, OptionsShape
  <2>7. options'.input_name.str = Str(p)
    BY <2>5, <2>6
  <2>4. written = {}
    BY <2>3 DEF DInv, Progress
  <2> QED
    BY <2>2, <2>3, <2>4, <2>7 DEF WInv
<1>3. CASE OpenOutput
  <2>1. /\ pc = "mode" /\ pc' = "write" /\ options.output_name # NULL
        /\ UNCHANGED <<compiling, options, seen>>
        /\ written' = written \cup {FileOf(options.output_name.str)}
    BY <1>3 DEF OpenOutput, Compiles, parsing
  <2>2. written = {} /\ ("o" \in seen \/ compiling)
    BY <2>1 DEF DInv, Progress, Told
  <2> QED
    BY <2>1, <2>2 DEF WInv
<1>4. CASE UNCHANGED <<parsing, written>> /\ (pc' = "crashed" => pc = "crashed")
  BY <1>4 DEF WInv, parsing
<1>5. CASE \/ OptError \/ MissingFile \/ ExtraArguments \/ MainStart
           \/ OpenInput \/ OpenInputFails \/ ReadFile \/ ParseFails \/ DumpIr \/ Interpret
           \/ OpenOutputFails \/ WriteElf
  BY <1>4, <1>5 DEF OptError, MissingFile, ExtraArguments, error_ret, MainStart, OpenInput,
                    OpenInputFails, ReadFile, ParseFails, DumpIr, Interpret,
                    OpenOutputFails, Compiles, WriteElf, Return, outcome
<1>6. CASE Cleanup
  <2>1. pc' \in {"done", "cleanup"} /\ UNCHANGED <<parsing, outcome>>
    BY <1>6 DEF Cleanup
  <2> QED
    BY <1>4, <2>1 DEF outcome
<1>7. CASE UNCHANGED vars
  BY <1>4, <1>7 DEF vars, outcome
<1> QED
  BY <1>1, <1>2, <1>3, <1>5, <1>6, <1>7 DEF Next, Run, Ended

(***************************************************************************)
(* Whatever the source is called and wherever it is, compiling it under    *)
(* the default name of parse_options leaves it alone, unless it is in the  *)
(* working directory and its name has no '.' behind the first character.   *)
(***************************************************************************)
THEOREM SpecSourceSurvives == Spec => []SourceSurvives
<1>1. NInv /\ WInv => SourceSurvives
  <2> SUFFICES ASSUME NInv, WInv, "o" \notin seen, options.input_name # NULL,
                      FileOf(options.input_name.str) \in written
               PROVE  LET f == FileOf(options.input_name.str)
                      IN  f[1] = <<>> /\ \A i \in 2..Len(f[2]) : f[2][i] # "."
    BY DEF SourceSurvives
  <2> DEFINE s == options.input_name.str
             t == options.output_name.str
  <2>1. s \in Seq(NameChar) /\ compiling /\ pc # "crashed" /\ FileOf(s) = FileOf(t)
    BY DEF WInv
  <2>2. DerivedBetween(s, t)
    BY <2>1, DefaultNameIs DEF NInv, Derived
  <2> QED
    BY <2>1, <2>2, SameFile
<1> QED
  BY <1>1, DInvInit, DInvNext, NInvInit, NInvNext, WInvInit, WInvNext, PTL DEF Spec

---------------------------------------------------------------------------
(* Types *)

\* What `TypeOK' says and the invariants above do not.
TInv ==
  /\ k \in 0..MaxOpts
  /\ compiling \in BOOLEAN /\ options.dump_ir \in BOOLEAN /\ twice \in BOOLEAN
  /\ parsed \in {"no", "ok", "failed"}
  /\ did \in {"nothing", "dump", "interpret", "compile", "truncate"}
  /\ status \in IF pc \in {"cleanup", "done"} THEN {0, 1} ELSE {-1}
  /\ pc \in {"getopt", "extra", "done", "crashed"} => defers = <<>> /\ lost \subseteq live

LEMMA TInvInit == Init => TInv
<1> SUFFICES ASSUME Init PROVE TInv
  OBVIOUS
<1>1. compiling \in BOOLEAN /\ twice \in BOOLEAN
  BY Zenon DEF Init
<1>2. options.dump_ir \in BOOLEAN
  <2>1. options.dump_ir = FALSE
    BY DEF Init
  <2> QED
    BY <2>1, Zenon
<1>3. k \in 0..MaxOpts
  BY BoundAssumption DEF Init
<1> QED
  BY <1>1, <1>2, <1>3 DEF Init, TInv

\* error_ret runs before main has registered a cleanup.
LEMMA ErrorTyped ==
  ASSUME OInv, TInv, pc \in {"getopt", "extra"}, error_ret
  PROVE  TInv'
<1>1. lost' \subseteq live'
  BY DEF OInv, NamesOwned, error_ret, parsing
<1>2. twice' \in BOOLEAN
  BY DEF error_ret
<1> QED
  BY <1>1, <1>2 DEF TInv, error_ret, parsing, outcome

LEMMA TInvNext == DInv /\ OInv /\ OInv' /\ TInv /\ [Next]_vars => TInv'
<1> SUFFICES ASSUME DInv, OInv, OInv', TInv, [Next]_vars PROVE TInv'
  OBVIOUS
<1> USE BoundAssumption
<1>1. CASE OptCompile \/ OptDump
  <2>1. options'.dump_ir = options.dump_ir \/ options'.dump_ir = TRUE
    BY <1>1 DEF OptCompile, OptDump, DInv, OptionsShape
  <2>2. compiling' = compiling \/ compiling' = TRUE
    BY <1>1 DEF OptCompile, OptDump
  <2>3. options'.dump_ir \in BOOLEAN /\ compiling' \in BOOLEAN
    BY <2>1, <2>2, Zenon DEF TInv
  <2>4. /\ pc = "getopt" /\ pc' = "getopt" /\ k < MaxOpts /\ k' = k + 1
        /\ UNCHANGED <<defers, twice, outcome, status, live, lost>>
    BY <1>1 DEF OptCompile, OptDump, Getopt
  <2> QED
    BY <2>3, <2>4 DEF TInv, outcome
<1>2. CASE \E p \in OutPaths : OptOutput(p)
  <2>1. PICK p \in OutPaths : OptOutput(p)
    BY <1>2
  <2>2. /\ pc = "getopt" /\ pc' = "getopt" /\ k < MaxOpts /\ k' = k + 1
        /\ UNCHANGED <<compiling, twice, outcome, status, defers>>
    BY <2>1 DEF OptOutput, Getopt
  <2>3. options'.dump_ir = options.dump_ir
    BY <2>1 DEF OptOutput, DInv, OptionsShape
  <2>4. lost' \subseteq live'
    BY <2>2 DEF OInv, NamesOwned
  <2> QED
    BY <2>2, <2>3, <2>4 DEF TInv, outcome
<1>3. CASE OptError \/ MissingFile \/ ExtraArguments
  BY <1>3, ErrorTyped DEF OptError, MissingFile, ExtraArguments
<1>4. CASE \E p \in Paths : FileArgument(p)
  <2>1. PICK p \in Paths : FileArgument(p)
    BY <1>4
  <2>2. /\ pc = "getopt" /\ pc' \in {"crashed", "extra"} /\ live \subseteq live'
        /\ UNCHANGED <<k, compiling, defers, twice, outcome, status, lost>>
    BY <2>1 DEF FileArgument
  <2>3. options'.dump_ir = options.dump_ir
    BY <2>1 DEF FileArgument, DInv, OptionsShape
  <2> QED
    BY <2>2, <2>3 DEF TInv, outcome
<1>5. CASE \/ MainStart \/ OpenInput \/ OpenInputFails \/ ReadFile \/ ParseFails
           \/ DumpIr \/ Interpret \/ OpenOutput \/ OpenOutputFails \/ WriteElf
  BY <1>5 DEF MainStart, OpenInput, OpenInputFails, ReadFile, ParseFails, DumpIr, Interpret,
              OpenOutput, OpenOutputFails, Compiles, WriteElf, Return, TInv, parsing, outcome
<1>6. CASE Cleanup
  <2> DEFINE n == Len(defers)
  <2>1. /\ pc = "cleanup" /\ pc' = (IF n = 1 THEN "done" ELSE "cleanup")
        /\ defers' = SubSeq(defers, 1, n - 1)
        /\ UNCHANGED <<parsing, outcome, status>>
        /\ twice' = (twice \/ ~(defers[n] \subseteq live))
    BY <1>6 DEF Cleanup
  <2>2. pc' = "done" => live' = lost'
    BY DEF OInv
  <2>3. n = 1 => defers' = <<>>
    BY <2>1, SubSeqEmpty
  <2>4. twice' \in BOOLEAN
    BY <2>1
  <2> HIDE DEF n
  <2> QED
    BY <2>1, <2>2, <2>3, <2>4 DEF TInv, parsing, outcome
<1>7. CASE UNCHANGED vars
  BY <1>7 DEF vars, parsing, outcome, TInv
<1> QED
  BY <1>1, <1>2, <1>3, <1>4, <1>5, <1>6, <1>7 DEF Next, Run, Ended

(***************************************************************************)
(* The types of the driver's state: the status is 0 or 1 once main has     *)
(* returned, and no pending cleanup is of something that is not live.      *)
(***************************************************************************)
THEOREM SpecTypeOK == Spec => []TypeOK
<1>1. DInv /\ OInv /\ TInv => TypeOK
  <2> SUFFICES ASSUME DInv, OInv, TInv PROVE TypeOK
    OBVIOUS
  <2>1. CASE pc \in {"getopt", "extra", "done", "crashed"}
    BY <2>1 DEF TInv, TypeOK, DInv, Places, Told
  <2>2. CASE pc \in {"open", "read", "mode", "write", "cleanup"}
    <3>1. Divided(live, lost, defers)
      BY <2>2 DEF OInv, StackOwned
    <3>2. lost \subseteq live /\ DOMAIN defers = 1..Len(defers)
          /\ \A i \in 1..Len(defers) : defers[i] \subseteq live
      BY <3>1 DEF Divided
    <3> QED
      BY <2>2, <3>2 DEF TInv, TypeOK, DInv, Places, Told
  <2> QED
    BY <2>1, <2>2 DEF DInv, Places
<1> QED
  BY <1>1, DInvInit, DInvNext, OInvInit, OInvNext, TInvInit, TInvNext, PTL DEF Spec
=============================================================================
