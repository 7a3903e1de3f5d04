---------------------------------- MODULE Tree ----------------------------------
(***************************************************************************)
(* What the path calls of src/vfs.hpp promise: a tree of names.  A path is *)
(* a sequence of names and stands for a file or a directory; every prefix  *)
(* of a path is a directory.  Each call is the tree t it makes of a tree.  *)
(***************************************************************************)
EXTENDS SequencesExt

CONSTANT Name

VARIABLE kind   \* from the paths that exist to "file" or "dir"

IsDir(t, p) == p \in DOMAIN t /\ t[p] = "dir"
Fresh(t, p) == p \notin DOMAIN t /\ p # <<>> /\ IsDir(t, Front(p))
Below(t, p) == {q \in DOMAIN t : IsPrefix(p, q)}
With(t, S, what) == [q \in DOMAIN t \cup S |-> IF q \in S THEN what ELSE t[q]]
Without(t, S) == [q \in DOMAIN t \ S |-> t[q]]

\* mkdir makes a chain of directories below p, none of which existed.
Chain(p, names) == {p \o s : s \in Prefixes(names) \ {<<>>}}

\* The tree with p, and all that is below it, called new.
Renamed(t, p, new) ==
  LET Rest(q) == SubSeq(q, Len(p) + 1, Len(q))
      gained == {new \o Rest(q) : q \in Below(t, p)}
      Was(q) == p \o SubSeq(q, Len(new) + 1, Len(q))
  IN  [q \in (DOMAIN t \ Below(t, p)) \cup gained |->
         IF q \in gained THEN t[Was(q)] ELSE t[q]]

After(t) ==
  LET new == {p \in {Append(q, name) : q \in DOMAIN t, name \in Name} : Fresh(t, p)}
      leaf == {p \in DOMAIN t \ {<<>>} : Below(t, p) = {p}}
  IN  {With(t, {p}, "file") : p \in new}
      \cup {With(t, Chain(Front(p), <<Last(p)>> \o more), "dir") :
              p \in new, more \in {<<>>} \cup {<<name>> : name \in Name}}
      \cup {Without(t, {p}) : p \in leaf}
      \cup {Renamed(t, m[1], m[2]) :
              m \in {m \in (DOMAIN t \ {<<>>}) \X new : ~IsPrefix(m[1], m[2])}}

Init == kind = [p \in {<<>>} |-> "dir"]
Next == kind' \in After(kind)
Spec == Init /\ [][Next]_kind
===============================================================================
