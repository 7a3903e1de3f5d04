------------------------------ MODULE MCDirInode ------------------------------
(* DirInode with three name lengths, whose entries take 12, 16 and 28 bytes, *)
(* in blocks that have room for 28 bytes beside the dots.                    *)
EXTENDS DirInode, TLC

MCName == {"a", "bcdef", "long"}
MCNameLen == [name \in MCName \cup {".", ".."} |->
                CASE name \in {".", "a"} -> 1
                  [] name = ".." -> 2
                  [] name = "bcdef" -> 5
                  [] name = "long" -> 17]
MCSymmetry == Permutations(Child)
===============================================================================
