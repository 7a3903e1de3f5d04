----------------------------- MODULE MCNamespace -----------------------------
(* Namespace with two names, in blocks that have room for one entry beside   *)
(* the dots, and paths of up to two components, some of them with dots.       *)
EXTENDS Namespace

MCNameLen == [name \in {"a", "b", ".", ".."} |-> IF name = ".." THEN 2 ELSE 1]
MCPath == {<<>>, <<"a">>, <<"b">>, <<"a", "b">>, <<"a", "..">>, <<"a", ".">>}
MCNewPath == {<<>>, <<"a">>, <<"b">>, <<"a", "b">>}

\* Live files that were written to.
Written == {n \in LiveInodes : fs.mode[n] = "file" /\ ~Readable(fs, n)}

\* The tree is claimed until the first defect; the derails a defect leads to
\* are looked for until the second, among at most three live inodes unless it is
\* "duplicate".  One file may be written to before the first, with one block.
\* Behind a call that returned -1 comes nothing that does not come without it, or
\* after the part of it that was done.
AtMostOneDefect == /\ ret = 0
                   /\ Cardinality(fs.defects) + Cardinality(Written) <= 1
                   /\ fs.defects \ {"duplicate"} # {} => Cardinality(LiveInodes) <= 3
                   /\ \A n \in Written : Len(fs.i_block[n]) = 1
===============================================================================
