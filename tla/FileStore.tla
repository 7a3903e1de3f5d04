------------------------------- MODULE FileStore -------------------------------
(***************************************************************************)
(* What files promise: each name has a sequence of bytes; a write lays     *)
(* bytes over it from an offset on, and a read returns what is there.      *)
(* Bytes between the old end and the start of a write are unspecified.     *)
(***************************************************************************)
EXTENDS Integers, SequencesExt

CONSTANT Name

VARIABLES content,   \* name -> bytes, for the files that exist
          got        \* what the last call read

\* t is s with count bytes b laid over it from offset on.
IsWritten(s, t, offset, count, b) ==
  LET laid == offset + 1 .. offset + count
  IN  /\ Len(t) = Max({Len(s), offset + count})
      /\ \A i \in laid : t[i] = b
      /\ \A i \in DOMAIN s \ laid : t[i] = s[i]

Create == \E name \in Name \ DOMAIN content :
            /\ content' = [n \in DOMAIN content \cup {name} |->
                             IF n = name THEN <<>> ELSE content[n]]
            /\ got' = <<>>

Unlink == \E name \in DOMAIN content :
            /\ content' = [n \in DOMAIN content \ {name} |-> content[n]]
            /\ got' = <<>>

Write(name, offset, count, b) ==
  /\ DOMAIN content' = DOMAIN content
  /\ \A n \in DOMAIN content \ {name} : content'[n] = content[n]
  /\ IsWritten(content[name], content'[name], offset, count, b)
  /\ got' = <<>>

Stay == UNCHANGED content /\ got' = <<>>

Read(name, offset, count) ==
  /\ got' = SubSeq(content[name], offset + 1, Min({offset + count, Len(content[name])}))
  /\ UNCHANGED content
===============================================================================
