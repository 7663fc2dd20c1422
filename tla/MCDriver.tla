------------------------------ MODULE MCDriver ------------------------------
(***************************************************************************)
(* Driver with names that have up to 4 characters behind up to 2           *)
(* directories, with '.' in every place.                                   *)
(***************************************************************************)
EXTENDS Driver

Dir == {<<".">>, <<".", ".">>, <<"x">>, <<"x", ".", "x">>}

Bases == UNION {[1..n -> {".", "x"}] : n \in 1..4} \ {<<".">>, <<".", ".">>}

\* Relative and absolute; `.' may come before another.
Dirs == UNION {{<<d>>, <<<<>>, d>>, <<<<".">>, d>>} : d \in Dir} \cup {<<>>, <<<<>>>>}

MCPaths == [dirs : Dirs, base : Bases]

\* One in the working directory, by either name, and one elsewhere.
MCOutPaths == {[dirs |-> <<>>, base |-> <<"x">>], [dirs |-> <<<<".">>>>, base |-> <<"x">>],
               [dirs |-> <<<<"x">>>>, base |-> <<"x">>]}
=============================================================================
