------------------------------ MODULE MCVfsFile -------------------------------
(* Files of up to three blocks, the third behind the pointer block.           *)
EXTENDS VfsFile, TLC

MCSeek == {0, 3, 15}
MCCount == {1, 3}

MCSymmetry == Permutations(Name)

\* What comes after the first defect is not looked at, and no offset between
\* those a file may reach and those where a write wraps.
BeforeDefects == /\ fs.defects = {}
                 /\ \A fd \in Fd : _files[fd].offset \in 0 .. 4 \cup {15}
===============================================================================
