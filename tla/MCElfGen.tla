------------------------------ MODULE MCElfGen -----------------------------
(***************************************************************************)
(* The writer with every placement of the three names in four buckets, and *)
(* code that ends at, before and behind the ends of pages.                 *)
(***************************************************************************)
EXTENDS ElfGen

MCHashes == [{".text", ".bss", ".shstrtab"} -> 0..3]

\* The shortest code is the prologue and the exit.
MCTextLengths == {19, PAGE_SIZE - 1, PAGE_SIZE, PAGE_SIZE + 1, 3 * PAGE_SIZE}
=============================================================================
