------------------------------- MODULE ElfGen ------------------------------
(***************************************************************************)
(* The writer of the executable: csrc/src/elf_gen.c as write_elf_file of   *)
(* csrc/src/main.c uses it.  Segments and sections are kept in the hash    *)
(* maps of RxiMap, so every table is written in the order of the hashes;   *)
(* the offsets are computed in one pass over the maps and used in others.  *)
(*                                                                         *)
(* A header holds the fields whose values are computed.  The file is the   *)
(* list of the fwrites: where each went, its size and what it wrote.       *)
(***************************************************************************)
EXTENDS Integers, SequencesExt

CONSTANTS
  Hashes,        \* the hash functions to consider
  TextLengths,   \* the lengths the compiled code may have
  PAGE_SIZE,     \* 4096
  EhdrSize, PhdrSize, ShdrSize,   \* sizeof Elf32_Ehdr, _Phdr and _Shdr
  TextAddr,      \* 0x08048000
  BssLength      \* 30e3

SectionKeys == {".text", ".bss", ".shstrtab"}

\* A hash is an unsigned number.
ASSUME HashesAssumption == \A h \in Hashes : h \in [SectionKeys -> Nat]

\* The code has at least the instruction that loads edi, also when
\* ir_ctx_compile fails.
ASSUME LengthsAssumption == TextLengths \subseteq Nat \ {0} /\ BssLength \in Nat \ {0}

\* All headers fit in front of the first page, and the code is loaded at
\* the start of one.
ASSUME SizesAssumption ==
  /\ PAGE_SIZE \in Nat \ {0} /\ EhdrSize \in Nat \ {0}
  /\ PhdrSize \in Nat \ {0} /\ ShdrSize \in Nat \ {0}
  /\ EhdrSize + 2 * PhdrSize + 4 * ShdrSize <= PAGE_SIZE
  /\ TextAddr \in Nat /\ TextAddr % PAGE_SIZE = 0

VARIABLES
  hash,
  segments, seg_count,       \* ctx->segments and its count
  sections, sec_count,       \* ctx->sections and its count
  shstrtab,                  \* ctx->sections.shstrtab
  preload,                   \* the address that the code loads into edi
  header,                    \* ctx->elf_header
  offset,                    \* the local variable of fix_header_offsets
  out,                       \* the fwrites done
  pc                         \* the step that comes next

vars == <<hash, segments, seg_count, sections, sec_count, shstrtab, preload, header,
          offset, out, pc>>

Map == INSTANCE RxiMap

align_to(val, align) == ((val + align - 1) \div align) * align
align_to_down(val, align) == (val \div align) * align

\* sizeof name, with its NUL.
NameSize(name) ==
  CASE name = ".text" -> 6 [] name = ".bss" -> 5 [] name = ".shstrtab" -> 10

\* program_t and section_t.  capacity: the vector owns memory.
Segment(vaddr) ==
  [length |-> 0, capacity |-> FALSE, p_vaddr |-> vaddr, p_offset |-> 0,
   p_filesz |-> 0, p_memsz |-> 0]

Section(type, addr) ==
  [length |-> 0, capacity |-> FALSE, sh_type |-> type, sh_addr |-> addr, sh_name |-> 0,
   sh_size |-> 0, sh_offset |-> 0, strings |-> {}]

Init ==
  /\ hash \in Hashes
  /\ segments = Map!Empty /\ seg_count = 0
  /\ sections = Map!Empty /\ sec_count = 0
  /\ shstrtab = Section("null", 0)
  /\ preload = TextAddr
  /\ header = [e_entry |-> 0, e_phoff |-> 0, e_phnum |-> 0, e_shoff |-> 0,
               e_shnum |-> 0, e_shstrndx |-> 0]
  /\ offset = 0
  /\ out = <<>>
  /\ pc = "text"

---------------------------------------------------------------------------
gen_program_header(name, segment) ==
  /\ segments' = Map!map_set_(segments, name, segment)
  /\ seg_count' = seg_count + 1

gen_section_header(name, section) ==
  /\ sections' = Map!map_set_(sections, name, section)
  /\ sec_count' = sec_count + 1

\* The headers of .text; the code is pushed behind them.
GenText ==
  /\ pc = "text"
  /\ gen_program_header(".text", Segment(TextAddr))
  /\ gen_section_header(".text", Section("progbits", TextAddr))
  /\ header' = [header EXCEPT !.e_entry = TextAddr]
  /\ pc' = "compile"
  /\ UNCHANGED <<hash, shstrtab, preload, offset, out>>

\* ir_ctx_compile has filled the vector of .text.
CompileText ==
  /\ pc = "compile"
  /\ \E length \in TextLengths :
       segments' = Map!Replace(segments, ".text",
                     [Map!map_get_(segments, ".text") EXCEPT
                        !.length = length, !.capacity = TRUE])
  /\ pc' = "bss"
  /\ UNCHANGED <<hash, seg_count, sections, sec_count, shstrtab, preload, header, offset, out>>

\* The last page of the code is taken for free.
FaultyBssAddr(text) == align_to_down(text.p_vaddr + text.length, PAGE_SIZE)

BssAddr(text) == align_to(text.p_vaddr + text.length, PAGE_SIZE)

\* The headers of .bss, which has a length but no memory, and the patch of
\* the code.
GenBss ==
  /\ pc = "bss"
  /\ LET addr == BssAddr(Map!map_get_(segments, ".text"))
     IN  /\ gen_program_header(".bss", [Segment(addr) EXCEPT !.length = BssLength])
         /\ gen_section_header(".bss", Section("nobits", addr))
         /\ preload' = addr
  /\ pc' = "fix_segments"
  /\ UNCHANGED <<hash, shstrtab, header, offset, out>>

---------------------------------------------------------------------------
\* The length of the contents is not added.
FaultyBehind(at, length) == align_to(at + 1, PAGE_SIZE)

\* The next free page of the file behind length bytes.
Behind(at, length) == align_to(at + length, PAGE_SIZE)

\* One iteration of the first loop of fix_header_offsets.
FixSegment(acc, name) ==
  LET program == Map!map_get_(acc.map, name)
      fixed   == [program EXCEPT !.p_memsz = program.length, !.p_offset = acc.offset]
  IN  IF program.length > 0 /\ program.capacity
        THEN [map    |-> Map!Replace(acc.map, name, [fixed EXCEPT !.p_filesz = program.length]),
              offset |-> Behind(acc.offset, program.length)]
      ELSE IF program.length > 0
        THEN [acc EXCEPT !.map = Map!Replace(@, name, fixed)]
      ELSE acc

FixSegments ==
  /\ pc = "fix_segments"
  /\ LET first == align_to(EhdrSize + seg_count * PhdrSize, PAGE_SIZE)
         fixed == FoldLeft(FixSegment, [map |-> segments, offset |-> first], Map!Order(segments))
     IN  segments' = fixed.map /\ offset' = fixed.offset
  /\ pc' = "fix_sections"
  /\ UNCHANGED <<hash, seg_count, sections, sec_count, shstrtab, preload, header, out>>

\* A name is put at the end of the string table.
PushName(strtab, name) ==
  [strtab EXCEPT !.length = @ + NameSize(name), !.capacity = TRUE,
                 !.strings = @ \cup {[at |-> strtab.length, name |-> name]}]

\* One iteration of the second loop.  A section gets its place from the
\* segment of its name, or from contents of its own.
FixSection(acc, name) ==
  LET section == [Map!map_get_(acc.map, name) EXCEPT !.sh_name = acc.strtab.length]
      place   == IF section.length > 0 /\ section.sh_type # "nobits"
                   THEN Behind(acc.offset, section.length) ELSE acc.offset
      fixed   ==
        IF Map!Has(segments, name)
          THEN LET program == Map!map_get_(segments, name)
               IN  [section EXCEPT !.sh_size = program.length,
                                   !.sh_offset = program.p_offset,
                                   !.sh_addr = program.p_vaddr]
        ELSE IF section.length > 0
          THEN [section EXCEPT !.sh_size = section.length, !.sh_offset = place]
        ELSE section
  IN  [map |-> Map!Replace(acc.map, name, fixed), offset |-> place,
       strtab |-> PushName(acc.strtab, name)]

\* The NUL at the start of the table is forgotten.
FaultyEmptyStrtab ==
  PushName([Section("strtab", 0) EXCEPT !.sh_name = 1], ".shstrtab")

EmptyStrtab ==
  PushName([Section("strtab", 0) EXCEPT !.sh_name = 1, !.length = 1], ".shstrtab")

\* The count starts at 0, as if there were no NULL section.
FaultyIndexOfSection(map, key) ==
  (CHOOSE i \in 1..map.nnodes : Map!Order(map)[i] = key) - 1

index_of_section(map, key) == CHOOSE i \in 1..map.nnodes : Map!Order(map)[i] = key

\* The rest of fix_header_offsets: the sections, and .shstrtab as the last
\* of them to be added.
FixSections ==
  /\ pc = "fix_sections"
  /\ LET fixed == FoldLeft(FixSection, [map |-> sections, offset |-> offset, strtab |-> EmptyStrtab],
                           Map!Order(sections))
         table == [fixed.strtab EXCEPT !.sh_size = fixed.strtab.length, !.sh_offset = fixed.offset]
     IN  /\ shstrtab' = table
         /\ sections' = Map!map_set_(fixed.map, ".shstrtab", table)
         /\ sec_count' = sec_count + 1
         /\ offset' = fixed.offset
         /\ header' = [header EXCEPT !.e_shstrndx = index_of_section(sections', ".shstrtab")]
  /\ pc' = "finalize"
  /\ UNCHANGED <<hash, segments, seg_count, preload, out>>

finalize_elf_ctx ==
  /\ pc = "finalize"
  /\ header' =
       [header EXCEPT
          !.e_phnum = seg_count,
          !.e_phoff = IF seg_count > 0 THEN EhdrSize ELSE @,
          !.e_shnum = sec_count + 1,
          !.e_shoff = EhdrSize + seg_count * PhdrSize]
  /\ pc' = "headers"
  /\ UNCHANGED <<hash, segments, seg_count, sections, sec_count, shstrtab, preload, offset, out>>

---------------------------------------------------------------------------
Region(at, size, what, name) == [at |-> at, size |-> size, what |-> what, name |-> name]

\* fwrite at the end of what was written last.
Put(writes, size, what, name) ==
  LET last == writes[Len(writes)]
  IN  Append(writes, Region(last.at + last.size, size, what, name))

PutPhdr(writes, name) == Put(writes, PhdrSize, "phdr", name)
PutShdr(writes, name) == Put(writes, ShdrSize, "shdr", name)

\* The ELF header, the program headers, the NULL section header and the
\* section headers, one behind the other.
WriteHeaders ==
  /\ pc = "headers"
  /\ LET ehdr  == <<Region(0, EhdrSize, "ehdr", "none")>>
         phdrs == FoldLeft(PutPhdr, ehdr, Map!Order(segments))
         null  == Put(phdrs, ShdrSize, "shdr", "null")
     IN  out' = FoldLeft(PutShdr, null, Map!Order(sections))
  /\ pc' = "contents"
  /\ UNCHANGED <<hash, segments, seg_count, sections, sec_count, shstrtab, preload, header, offset>>

\* fseek and fwrite for what has memory: a segment, a section.
PutSegment(writes, name) ==
  LET program == Map!map_get_(segments, name)
  IN  IF program.capacity
        THEN Append(writes, Region(program.p_offset, program.length, "segment", name))
        ELSE writes

PutSection(writes, name) ==
  LET section == Map!map_get_(sections, name)
  IN  IF section.capacity
        THEN Append(writes, Region(section.sh_offset, section.length, "section", name))
        ELSE writes

\* The segments, then the sections.
WriteContents ==
  /\ pc = "contents"
  /\ out' = FoldLeft(PutSection, FoldLeft(PutSegment, out, Map!Order(segments)),
                     Map!Order(sections))
  /\ pc' = "done"
  /\ UNCHANGED <<hash, segments, seg_count, sections, sec_count, shstrtab, preload, header, offset>>

Done == pc = "done" /\ UNCHANGED vars

Next ==
  \/ GenText \/ CompileText \/ GenBss
  \/ FixSegments \/ FixSections \/ finalize_elf_ctx
  \/ WriteHeaders \/ WriteContents
  \/ Done

Spec == Init /\ [][Next]_vars
---------------------------------------------------------------------------
SegmentNames == Range(Map!Order(segments))
SectionNames == Range(Map!Order(sections))
SegmentOf(name) == Map!map_get_(segments, name)
SectionOf(name) == Map!map_get_(sections, name)

Overlap(a, m, b, n) == a < b + n /\ b < a + m

(***************************************************************************)
(* No fwrite of gen_elf_file overwrites what another one wrote: the tables *)
(* fit in front of the first page, and the contents lie where the passes   *)
(* of fix_header_offsets have put them, whatever the order of the maps.    *)
(***************************************************************************)
WritesDisjoint ==
  \A i, j \in 1..Len(out) :
    i # j => ~Overlap(out[i].at, out[i].size, out[j].at, out[j].size)

\* The k-th entry, from 0, of the table of headers at off.
Entry(what, off, size, k) == {r \in Range(out) : r.what = what /\ r.at = off + k * size}

(***************************************************************************)
(* What the ELF header says of the tables is what was written: each        *)
(* segment and section has its entry, e_shstrndx (computed before the file *)
(* is laid out) leads to .shstrtab, and every sh_name to its name in it.   *)
(***************************************************************************)
TablesFound ==
  pc = "done" =>
    LET phdrs == UNION {Entry("phdr", header.e_phoff, PhdrSize, k) : k \in 0..(header.e_phnum - 1)}
        shdrs == UNION {Entry("shdr", header.e_shoff, ShdrSize, k) : k \in 0..(header.e_shnum - 1)}
    IN  /\ {r.name : r \in phdrs} = SegmentNames
        /\ {r.name : r \in shdrs} = SectionNames \cup {"null"}
        /\ \A r \in Entry("shdr", header.e_shoff, ShdrSize, header.e_shstrndx) : r.name = ".shstrtab"
        /\ Entry("shdr", header.e_shoff, ShdrSize, header.e_shstrndx) # {}
        /\ \A name \in SectionNames :
             [at |-> SectionOf(name).sh_name, name |-> name] \in SectionOf(".shstrtab").strings

(***************************************************************************)
(* The kernel can map the file that write_elf_file leaves: offsets and     *)
(* addresses agree within a page, the contents of a segment were written   *)
(* where its header says, no two segments share a page, the program starts *)
(* in .text, and edi is preloaded with the start of a tape of 30e3 cells.  *)
(***************************************************************************)
Loadable ==
  pc = "done" =>
    /\ \A name \in SegmentNames :
         LET s == SegmentOf(name)
         IN  /\ s.p_offset % PAGE_SIZE = s.p_vaddr % PAGE_SIZE
             /\ s.p_filesz <= s.p_memsz
             /\ s.p_filesz > 0 => Region(s.p_offset, s.p_filesz, "segment", name) \in Range(out)
    /\ LET text == SegmentOf(".text")
           bss  == SegmentOf(".bss")
       IN  /\ align_to(text.p_vaddr + text.p_memsz, PAGE_SIZE) <= bss.p_vaddr
           /\ header.e_entry = text.p_vaddr /\ text.p_filesz > 0
           /\ preload = bss.p_vaddr /\ bss.p_memsz = BssLength
=============================================================================
