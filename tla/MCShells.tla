------------------------------- MODULE MCShells -------------------------------
(* One session that walks about in a tree of two names, with dots and an      *)
(* absolute path, while others work with absolute paths.                      *)
EXTENDS Shells

MCNameLen == [name \in {"a", "b", ".", ".."} |-> IF name = ".." THEN 2 ELSE 1]
MCPath == {<<"a">>, <<"a", "b">>}
MCNewPath == {<<"b">>}
MCArg == {<<>>, <<"a">>, <<"..">>, <<"..", "a">>, <<Slash, "b">>}

\* What comes after the first defect is Namespace's.  One file may be written to,
\* with one block, beside at most one other inode.  Behind a call that returned -1 comes
\* nothing that does not come without it, or after the part of it that was done.
Written == {n \in LiveInodes : fs.mode[n] = "file" /\ ~Readable(fs, n)}
NoDefects == /\ ret = 0
             /\ fs.defects = {}
             /\ Written # {} => Cardinality(LiveInodes) <= 3
             /\ \A n \in Written : Len(fs.i_block[n]) = 1
===============================================================================
