------------------------------- MODULE Directory -------------------------------
(***************************************************************************)
(* What the entries of one directory promise to the handlers of vfs.hpp: a *)
(* set of names, each with its inode.  Adding puts one in, freeing an      *)
(* inode takes its name out, and nothing else moves, however the entries   *)
(* are packed into blocks.  DirInode.tla is shown to implement it.         *)
(***************************************************************************)
CONSTANTS Name,    \* names of entries, "." and ".." left out
          Child    \* inodes an entry may name

VARIABLE entries   \* pairs <<name, inode>>

Init == entries = {}

Add(name, n) == entries' = entries \cup {<<name, n>>}

Free(n) == /\ \E e \in entries : e[2] = n
           /\ entries' = {e \in entries : e[2] # n}

Next == \E n \in Child : Free(n) \/ \E name \in Name : Add(name, n)

Spec == Init /\ [][Next]_entries
===============================================================================
